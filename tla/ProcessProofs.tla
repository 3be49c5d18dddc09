--------------------------- MODULE ProcessProofs ---------------------------
(***************************************************************************)
(* ProcessInv is an inductive invariant of the processes, for any size of  *)
(* the process table, and the processes use their streams as Streams says. *)
(***************************************************************************)
EXTENDS Process, ListLemmas, FiniteSetTheorems

\* The process numbers.
LEMMA PidFacts ==
  /\ 0 \in Pid /\ 1 \in Pid /\ 1 \in User /\ 0 \notin User
  /\ User \subseteq Pid /\ Nil \notin Pid
  /\ \A p \in Pid : p # 0 => p \in User
BY ProcessAssumption DEF Pid, User

\* A list of distinct PCBs is not longer than the table.
LEMMA TableSize ==
  ASSUME NEW s \in Seq(Pid), IsInjective(s)
  PROVE  Len(s) <= MAX_PROC
<1>1. /\ IsFiniteSet(Pid) /\ Cardinality(Pid) = MAX_PROC
  <2>1. 0 \in Int /\ MAX_PROC - 1 \in Int /\ MAX_PROC \in Nat /\ ~ 0 > MAX_PROC - 1
    BY ProcessAssumption
  <2>2. /\ IsFiniteSet(0..(MAX_PROC - 1))
        /\ Cardinality(0..(MAX_PROC - 1)) =
             IF 0 > MAX_PROC - 1 THEN 0 ELSE (MAX_PROC - 1) - 0 + 1
    BY <2>1, FS_Interval
  <2> QED BY <2>1, <2>2 DEF Pid
<1>2. Len(s) \in Nat /\ DOMAIN s = 1..Len(s) /\ s \in [1..Len(s) -> Pid]
  BY LenProperties
<1>3. s \in Injection(1..Len(s), Pid)
  BY <1>2 DEF IsInjective, Injection
<1>4. Cardinality(1..Len(s)) = Len(s)
  <2>1. 1 \in Int /\ Len(s) \in Int
    BY <1>2
  <2>2. Cardinality(1..Len(s)) = IF 1 > Len(s) THEN 0 ELSE Len(s) - 1 + 1
    BY <2>1, FS_Interval
  <2> QED BY <1>2, <2>2
<1>5. Cardinality(1..Len(s)) <= Cardinality(Pid)
  BY <1>1, <1>3, FS_Injection
<1> QED BY <1>1, <1>4, <1>5

\* A process in use, other than 0 and 1, is a child of a process that is
\* alive, and not of itself.
LEMMA ParentFacts ==
  ASSUME ProcessInv, NEW c \in Pid, pstate[c] # "FREE", c \notin {0, 1}
  PROVE  /\ parent[c] \in User /\ pstate[parent[c]] = "ALIVE" /\ parent[c] # c
         /\ c \in children_list[parent[c]]
<1>1. parent[c] \in User /\ pstate[parent[c]] = "ALIVE" /\ parent[c] \in Pid
  BY PidFacts DEF ProcessInv, TreeInv, TreeSound
<1>2. parent[c] # c
  <2>1. \E p \in {c} : parent[p] \notin {c}
    BY DEF ProcessInv, TreeInv, Acyclic
  <2> QED BY <2>1
<1> QED BY <1>1, <1>2 DEF ProcessInv, TreeInv, TreeSound

\* A child is in use, has its parent, and is neither 0 nor 1.
LEMMA ChildFacts ==
  ASSUME ProcessInv, NEW p \in Pid, NEW c \in children_list[p]
  PROVE  /\ c \in Pid \ {0, 1} /\ c \in User /\ pstate[c] # "FREE" /\ parent[c] = p
         /\ p # c /\ p \in User /\ pstate[p] = "ALIVE"
<1>1. c \in Pid /\ pstate[c] # "FREE" /\ parent[c] = p
  BY DEF ProcessInv, TreeInv, TypeOK, TreeSound
<1>2. c # 0 /\ c # 1
  BY <1>1, PidFacts DEF ProcessInv, CallsSound, ThreadsSound
<1> QED BY <1>1, <1>2, ParentFacts, PidFacts

\* A process that is not alive, or 0, has no children, no thread, and does
\* not sleep.
LEMMA DeadFacts ==
  ASSUME ProcessInv, NEW p \in Pid, pstate[p] # "ALIVE" \/ p = 0
  PROVE  /\ children_list[p] = {} /\ exited_list[p] = <<>>
         /\ pc[p] = "none" /\ ~asleep[p]
<1>1. children_list[p] = {}
  BY ChildFacts, PidFacts
<1>2. exited_list[p] = <<>>
  <2>1. exited_list[p] \in Seq(Pid) /\ Range(exited_list[p]) = {}
    BY <1>1 DEF ProcessInv, TreeInv, TypeOK, ZombiesKept
  <2> QED BY <2>1, EmptyRange
<1>3. pc[p] = "none"
  BY PidFacts DEF ProcessInv, CallsSound, ThreadsSound
<1>4. ~asleep[p]
  BY <1>3 DEF ProcessInv, SleepersWait
<1> QED BY <1>1, <1>2, <1>3, <1>4

\* The list of exited children.
LEMMA ExitedFacts ==
  ASSUME ProcessInv, NEW p \in Pid
  PROVE  /\ exited_list[p] \in Seq(Pid) /\ IsInjective(exited_list[p])
         /\ Range(exited_list[p]) = {c \in children_list[p] : pstate[c] = "ZOMBIE"}
         /\ exited_list[p] = <<>> <=> Range(exited_list[p]) = {}
<1>1. /\ exited_list[p] \in Seq(Pid) /\ IsInjective(exited_list[p])
      /\ Range(exited_list[p]) = {c \in children_list[p] : pstate[c] = "ZOMBIE"}
  BY DEF ProcessInv, TreeInv, TypeOK, ZombiesKept
<1> QED BY <1>1, EmptyRange

\* initialize_processes(), and the Exec() of the boot task.
LEMMA InitProcess == Init => ProcessInv
<1> SUFFICES ASSUME Init PROVE ProcessInv
  OBVIOUS
<1> USE PidFacts
<1>1. /\ pstate = [p \in Pid |-> IF p <= 1 THEN "ALIVE" ELSE "FREE"]
      /\ parent = [p \in Pid |-> Nil]
      /\ children_list = [p \in Pid |-> {}]
      /\ exited_list = [p \in Pid |-> <<>>]
      /\ pcb_freelist = [i \in 1..(MAX_PROC - 2) |-> i + 1]
      /\ process_count = 2
      /\ pc = [p \in Pid |-> IF p = 1 THEN "user" ELSE "none"]
      /\ cpid = [p \in Pid |-> Nil]
      /\ asleep = [p \in Pid |-> FALSE]
  BY DEF Init
<1>2. \A p \in Pid : pstate[p] = IF p \in {0, 1} THEN "ALIVE" ELSE "FREE"
  BY <1>1 DEF Pid
<1>3. /\ pcb_freelist \in Seq(Pid) /\ Len(pcb_freelist) = MAX_PROC - 2
      /\ IsInjective(pcb_freelist)
      /\ Range(pcb_freelist) = Pid \ {0, 1}
  <2>1. MAX_PROC - 2 \in Nat
    BY ProcessAssumption
  <2>2. pcb_freelist \in [1..(MAX_PROC - 2) -> Pid]
    <3>1. \A i \in 1..(MAX_PROC - 2) : i + 1 \in Pid /\ i + 1 \notin {0, 1}
      BY ProcessAssumption DEF Pid
    <3> QED BY <1>1, <3>1
  <2>3. pcb_freelist \in Seq(Pid) /\ Len(pcb_freelist) = MAX_PROC - 2
        /\ DOMAIN pcb_freelist = 1..(MAX_PROC - 2)
    BY <2>1, <2>2
  <2>4. \A i \in 1..(MAX_PROC - 2) : pcb_freelist[i] = i + 1
    BY <1>1
  <2>5. IsInjective(pcb_freelist)
    BY <2>3, <2>4 DEF IsInjective
  <2>6. Range(pcb_freelist) \subseteq Pid \ {0, 1}
    <3>1. \A i \in 1..(MAX_PROC - 2) : i + 1 \in Pid /\ i + 1 \notin {0, 1}
      BY ProcessAssumption DEF Pid
    <3> QED BY <2>3, <2>4, <3>1 DEF Range
  <2>7. ASSUME NEW p \in Pid \ {0, 1} PROVE p \in Range(pcb_freelist)
    <3>1. p - 1 \in 1..(MAX_PROC - 2) /\ (p - 1) + 1 = p
      BY ProcessAssumption DEF Pid
    <3>2. pcb_freelist[p - 1] = p
      BY <2>4, <3>1
    <3> QED BY <2>3, <3>1, <3>2 DEF Range
  <2> QED BY <2>3, <2>5, <2>6, <2>7
<1>4. TypeOK
  BY <1>1, <1>3 DEF TypeOK, Point
<1>5. TreeSound
  BY <1>1, <1>2 DEF TreeSound
<1>6. ZombiesKept
  <2>1. IsInjective(<<>>) /\ Range(<<>>) = {}
    BY DEF IsInjective, Range
  <2>2. process_count = MAX_PROC - Len(pcb_freelist)
    BY <1>1, <1>3, ProcessAssumption
  <2> QED BY <1>1, <1>2, <1>3, <2>1, <2>2 DEF ZombiesKept
<1>7. Acyclic /\ InitExitsLast
  BY <1>2 DEF Acyclic, InitExitsLast
<1>8. CallsSound
  BY <1>1, <1>2 DEF CallsSound, ChildStays, ThreadsSound
<1>9. SleepersWait
  BY <1>1 DEF SleepersWait
<1> QED BY <1>4, <1>5, <1>6, <1>7, <1>8, <1>9 DEF ProcessInv, TreeInv

----------------------------------------------------------------------------
\* sys_Exec(): a free PCB becomes a child.
LEMMA ExecInv ==
  ASSUME ProcessInv, NEW p \in User, NEW c \in User, sys_Exec(p, c)
  PROVE  ProcessInv'
<1> USE PidFacts
<1>1. /\ pc[p] = "user" /\ pcb_freelist # <<>> /\ c = Head(pcb_freelist)
      /\ pcb_freelist' = Tail(pcb_freelist)
      /\ pstate' = [pstate EXCEPT ![c] = "ALIVE"]
      /\ process_count' = process_count + 1
      /\ parent' = [parent EXCEPT ![c] = p]
      /\ children_list' = [children_list EXCEPT ![p] = @ \cup {c}]
      /\ pc' = [pc EXCEPT ![c] = "user"]
      /\ UNCHANGED <<exited_list, cpid, asleep>>
  BY DEF sys_Exec, Calling, acquire_PCB
<1>2. /\ TypeOK /\ TreeSound /\ ZombiesKept /\ Acyclic /\ InitExitsLast
      /\ ChildStays /\ ThreadsSound /\ SleepersWait
  BY DEF ProcessInv, TreeInv, CallsSound
<1>3. /\ pcb_freelist' \in Seq(Pid) /\ IsInjective(pcb_freelist')
      /\ Range(pcb_freelist') = Range(pcb_freelist) \ {c}
      /\ c \in Range(pcb_freelist)
      /\ Len(pcb_freelist') = Len(pcb_freelist) - 1 /\ Len(pcb_freelist) \in Nat
  <2>1. pcb_freelist \in Seq(Pid) /\ IsInjective(pcb_freelist)
    BY <1>2 DEF TypeOK, ZombiesKept
  <2>2. /\ Tail(pcb_freelist) \in Seq(Pid) /\ IsInjective(Tail(pcb_freelist))
        /\ c \in Range(pcb_freelist) /\ c \notin Range(Tail(pcb_freelist))
        /\ Range(Tail(pcb_freelist)) \subseteq Range(pcb_freelist)
        /\ Range(pcb_freelist) \subseteq Range(Tail(pcb_freelist)) \cup {c}
    BY <1>1, <2>1, TailLemma
  <2>3. Len(Tail(pcb_freelist)) = Len(pcb_freelist) - 1 /\ Len(pcb_freelist) \in Nat
    BY <1>1, <2>1, HeadTailProperties, LenProperties
  <2> QED BY <1>1, <2>2, <2>3
<1>4. pstate[c] = "FREE" /\ c # 1 /\ p # c /\ pstate[p] = "ALIVE"
  BY <1>1, <1>2, <1>3 DEF ZombiesKept, ThreadsSound
<1>5. /\ children_list[c] = {} /\ exited_list[c] = <<>> /\ pc[c] = "none" /\ ~asleep[c]
  BY <1>4, DeadFacts
<1>6. /\ \A q \in Pid :
           /\ pstate'[q] = IF q = c THEN "ALIVE" ELSE pstate[q]
           /\ parent'[q] = IF q = c THEN p ELSE parent[q]
           /\ pc'[q] = IF q = c THEN "user" ELSE pc[q]
           /\ children_list'[q] = IF q = p THEN children_list[p] \cup {c}
                                  ELSE children_list[q]
      /\ \A q \in Pid : c \notin children_list[q]
  BY <1>1, <1>2, <1>4 DEF TypeOK, TreeSound
<1>7. TypeOK'
  BY <1>1, <1>2, <1>3 DEF TypeOK, Point
<1>8. \A q \in Pid \ {0, 1} : pstate[q] # "FREE" =>
        /\ parent[q] \in User /\ pstate[parent[q]] = "ALIVE" /\ parent[q] # c
  BY <1>2, <1>4 DEF TreeSound
<1>9. TreeSound'
  <2>1. ASSUME NEW q \in Pid, NEW d \in Pid
        PROVE  d \in children_list'[q] <=> pstate'[d] # "FREE" /\ parent'[d] = q
    BY <1>2, <1>4, <1>6 DEF TreeSound
  <2>2. ASSUME NEW d \in Pid \ {0, 1}, pstate'[d] # "FREE"
        PROVE  parent'[d] \in User /\ pstate'[parent'[d]] = "ALIVE"
    BY <1>4, <1>6, <1>8, <2>2
  <2> QED BY <2>1, <2>2 DEF TreeSound
<1>10. ZombiesKept'
  <2>1. ASSUME NEW q \in Pid
        PROVE  /\ IsInjective(exited_list'[q])
               /\ Range(exited_list'[q]) = {d \in children_list'[q] : pstate'[d] = "ZOMBIE"}
    <3>1. /\ IsInjective(exited_list[q])
          /\ Range(exited_list[q]) = {d \in children_list[q] : pstate[d] = "ZOMBIE"}
          /\ children_list[q] \subseteq Pid
      BY <1>2 DEF ZombiesKept, TypeOK
    <3>2. \A d \in Pid : d \in children_list'[q] /\ pstate'[d] = "ZOMBIE"
                       <=> d \in children_list[q] /\ pstate[d] = "ZOMBIE"
      BY <1>6
    <3>3. children_list'[q] \subseteq Pid
      BY <1>7 DEF TypeOK
    <3> QED BY <1>1, <3>1, <3>2, <3>3
  <2>2. Range(pcb_freelist') = {q \in Pid : pstate'[q] = "FREE"}
    BY <1>2, <1>3, <1>6 DEF ZombiesKept
  <2>3. process_count' = MAX_PROC - Len(pcb_freelist')
    BY <1>1, <1>2, <1>3, ProcessAssumption DEF ZombiesKept
  <2> QED BY <1>3, <2>1, <2>2, <2>3 DEF ZombiesKept
<1>11. Acyclic'
  <2>1. SUFFICES ASSUME NEW S \in SUBSET {q \in Pid \ {0, 1} : pstate'[q] # "FREE"}, S # {}
                 PROVE  \E q \in S : parent'[q] \notin S
    BY DEF Acyclic
  <2>2. CASE S = {c}
    BY <1>4, <1>6, <2>2
  <2>3. CASE S # {c}
    <3>1. S \ {c} # {} /\ S \ {c} \in SUBSET {q \in Pid \ {0, 1} : pstate[q] # "FREE"}
      BY <1>6, <2>1, <2>3
    <3>2. PICK q \in S \ {c} : parent[q] \notin S \ {c}
      BY <1>2, <3>1 DEF Acyclic
    <3>3. parent[q] # c /\ parent'[q] = parent[q]
      BY <1>6, <1>8, <3>1, <3>2
    <3> QED BY <3>2, <3>3
  <2> QED BY <2>2, <2>3
<1>12. InitExitsLast'
  BY <1>2, <1>4, <1>6 DEF InitExitsLast
<1>13. CallsSound'
  <2>1. ChildStays'
    BY <1>1, <1>2, <1>6 DEF ChildStays
  <2>2. ThreadsSound'
    BY <1>2, <1>4, <1>6 DEF ThreadsSound
  <2> QED BY <2>1, <2>2 DEF CallsSound
<1>14. SleepersWait'
  <2>1. SUFFICES ASSUME NEW q \in Pid, asleep[q]
        PROVE  \/ pc'[q] = "specific" /\ pstate'[cpid[q]] = "ALIVE"
               \/ pc'[q] \in {"any", "exit"} /\ children_list'[q] # {} /\ exited_list[q] = <<>>
    BY <1>1 DEF SleepersWait
  <2>2. q # c /\ pc'[q] = pc[q]
    BY <1>5, <1>6, <2>1
  <2>3. CASE pc[q] = "specific" /\ pstate[cpid[q]] = "ALIVE"
    <3>1. cpid[q] \in Pid
      BY <1>2, <2>3 DEF ChildStays, TypeOK
    <3> QED BY <1>6, <2>2, <2>3, <3>1
  <2>4. CASE pc[q] \in {"any", "exit"} /\ children_list[q] # {} /\ exited_list[q] = <<>>
    BY <1>6, <2>2, <2>4
  <2> QED BY <1>2, <2>1, <2>3, <2>4 DEF SleepersWait
<1> QED BY <1>7, <1>9, <1>10, <1>11, <1>12, <1>13, <1>14 DEF ProcessInv, TreeInv

----------------------------------------------------------------------------
\* A call on a stream leaves the processes alone.
LEMMA UnchangedInv ==
  ASSUME ProcessInv, UNCHANGED <<tree, threads>>
  PROVE  ProcessInv'
<1> USE DEF tree, threads
<1>1. TypeOK' <=> TypeOK
  BY DEF TypeOK
<1>2. TreeSound' <=> TreeSound
  BY DEF TreeSound
<1>3. ZombiesKept' <=> ZombiesKept
  BY DEF ZombiesKept
<1>4. (Acyclic /\ InitExitsLast)' <=> Acyclic /\ InitExitsLast
  BY DEF Acyclic, InitExitsLast
<1>5. CallsSound' <=> CallsSound
  BY DEF CallsSound, ChildStays, ThreadsSound
<1>6. SleepersWait' <=> SleepersWait
  BY DEF SleepersWait
<1> QED BY <1>1, <1>2, <1>3, <1>4, <1>5, <1>6 DEF ProcessInv, TreeInv

\* kernel_wait() inside WaitChild(): the caller has a reason to sleep.
LEMMA SleepInv ==
  ASSUME ProcessInv, NEW p \in User, NEW call, NEW c,
         pc[p] # "none", kernel_wait(p, call, c), UNCHANGED tree,
         \/ call = "specific" /\ c \in children_list[p] /\ pstate[c] = "ALIVE"
         \/ call = "any" /\ c = Nil /\ children_list[p] # {} /\ exited_list[p] = <<>>
  PROVE  ProcessInv'
<1> USE PidFacts
<1>1. /\ TypeOK /\ TreeSound /\ ZombiesKept /\ Acyclic /\ InitExitsLast
      /\ ChildStays /\ ThreadsSound /\ SleepersWait
  BY DEF ProcessInv, TreeInv, CallsSound
<1>2. /\ UNCHANGED <<pstate, parent, children_list, exited_list, pcb_freelist, process_count>>
      /\ pc' = [pc EXCEPT ![p] = call]
      /\ cpid' = [cpid EXCEPT ![p] = c]
      /\ asleep' = [asleep EXCEPT ![p] = TRUE]
  BY DEF kernel_wait, tree
<1>3. \A q \in Pid : /\ pc'[q] = IF q = p THEN call ELSE pc[q]
                     /\ cpid'[q] = IF q = p THEN c ELSE cpid[q]
                     /\ asleep'[q] => q = p \/ asleep[q]
  BY <1>1, <1>2 DEF TypeOK
<1>4. TypeOK'
  <2>1. c \in Pid \cup {Nil} /\ call \in Point
    BY <1>1 DEF TypeOK, Point
  <2> QED BY <1>1, <1>2, <2>1 DEF TypeOK
<1>5. TreeSound' /\ ZombiesKept' /\ Acyclic' /\ InitExitsLast'
  BY <1>1, <1>2 DEF TreeSound, ZombiesKept, Acyclic, InitExitsLast
<1>6. CallsSound'
  <2>1. ChildStays'
    BY <1>1, <1>2, <1>3 DEF ChildStays
  <2>2. ThreadsSound'
    BY <1>1, <1>2, <1>3 DEF ThreadsSound
  <2> QED BY <2>1, <2>2 DEF CallsSound
<1>7. SleepersWait'
  <2>1. SUFFICES ASSUME NEW q \in Pid, asleep'[q]
        PROVE  \/ pc'[q] = "specific" /\ pstate[cpid'[q]] = "ALIVE"
               \/ pc'[q] \in {"any", "exit"} /\ children_list[q] # {} /\ exited_list[q] = <<>>
    BY <1>2 DEF SleepersWait
  <2>2. CASE q = p
    BY <1>3, <2>2
  <2>3. CASE q # p
    BY <1>1, <1>3, <2>1, <2>3 DEF SleepersWait
  <2> QED BY <2>2, <2>3
<1> QED BY <1>4, <1>5, <1>6, <1>7 DEF ProcessInv, TreeInv

\* cleanup_zombie(): the caller of WaitChild() frees a dead child.
LEMMA ReapInv ==
  ASSUME ProcessInv, NEW p \in User, NEW c \in children_list[p], pstate[c] = "ZOMBIE",
         pc[p] # "none", ~asleep[p], cleanup_zombie(c), WaitReturns(p)
  PROVE  ProcessInv'
<1> USE PidFacts
<1>1. /\ TypeOK /\ TreeSound /\ ZombiesKept /\ Acyclic /\ InitExitsLast
      /\ ChildStays /\ ThreadsSound /\ SleepersWait
  BY DEF ProcessInv, TreeInv, CallsSound
<1>2. /\ children_list' = [q \in Pid |-> children_list[q] \ {c}]
      /\ exited_list' = [q \in Pid |-> rlist_remove(exited_list[q], c)]
      /\ pstate' = [pstate EXCEPT ![c] = "FREE"]
      /\ parent' = [parent EXCEPT ![c] = Nil]
      /\ pcb_freelist' = <<c>> \o pcb_freelist
      /\ process_count' = process_count - 1
      /\ pc' = [pc EXCEPT ![p] = "user"]
      /\ cpid' = [cpid EXCEPT ![p] = Nil]
      /\ asleep' = asleep
  BY DEF cleanup_zombie, release_PCB, unlink_exited, WaitReturns
<1>3. /\ c \in Pid \ {0, 1} /\ parent[c] = p /\ p # c
      /\ pstate[p] = "ALIVE"
  BY ChildFacts
<1>4. /\ children_list[c] = {} /\ pc[c] = "none" /\ ~asleep[c]
  BY <1>3, DeadFacts
<1>5. /\ \A q \in Pid :
           /\ pstate'[q] = IF q = c THEN "FREE" ELSE pstate[q]
           /\ parent'[q] = IF q = c THEN Nil ELSE parent[q]
           /\ pc'[q] = IF q = p THEN "user" ELSE pc[q]
           /\ cpid'[q] = IF q = p THEN Nil ELSE cpid[q]
           /\ children_list'[q] = children_list[q] \ {c}
           /\ q # p => c \notin children_list[q]
  BY <1>1, <1>2, <1>3 DEF TypeOK, TreeSound
<1>6. ASSUME NEW q \in Pid, q # p PROVE children_list'[q] = children_list[q]
  <2>1. children_list'[q] = children_list[q] \ {c} /\ c \notin children_list[q]
    BY <1>5, <1>6
  <2> QED BY <2>1
<1>7. ASSUME NEW q \in Pid
      PROVE  /\ exited_list'[q] \in Seq(Pid) /\ IsInjective(exited_list'[q])
             /\ Range(exited_list'[q]) = Range(exited_list[q]) \ {c}
  <2>1. exited_list[q] \in Seq(Pid) /\ IsInjective(exited_list[q])
    BY <1>7, ExitedFacts
  <2> QED BY <1>2, <2>1, RListRemove
<1>8. /\ pcb_freelist' \in Seq(Pid) /\ IsInjective(pcb_freelist')
      /\ Range(pcb_freelist') = Range(pcb_freelist) \cup {c}
      /\ c \notin Range(pcb_freelist)
      /\ Len(pcb_freelist') = Len(pcb_freelist) + 1 /\ Len(pcb_freelist) \in Nat
  <2>1. pcb_freelist \in Seq(Pid) /\ IsInjective(pcb_freelist) /\ c \notin Range(pcb_freelist)
    BY <1>1 DEF TypeOK, ZombiesKept
  <2> QED BY <1>2, <1>3, <2>1, PushFrontLemma, LenProperties
<1>9. TypeOK'
  <2>1. exited_list' \in [Pid -> Seq(Pid)]
    BY <1>2, <1>7
  <2>2. process_count' \in Nat
    <3>1. process_count' = MAX_PROC - Len(pcb_freelist')
      BY <1>1, <1>2, <1>8, ProcessAssumption DEF ZombiesKept
    <3>2. Len(pcb_freelist') <= MAX_PROC
      BY <1>8, TableSize
    <3> QED BY <1>8, <3>1, <3>2, ProcessAssumption
  <2> QED BY <1>1, <1>2, <1>3, <1>8, <2>1, <2>2 DEF TypeOK, Point
<1>10. TreeSound'
  <2>1. ASSUME NEW q \in Pid, NEW d \in Pid
        PROVE  d \in children_list'[q] <=> pstate'[d] # "FREE" /\ parent'[d] = q
    BY <1>1, <1>5 DEF TreeSound
  <2>2. ASSUME NEW d \in Pid \ {0, 1}, pstate'[d] # "FREE"
        PROVE  parent'[d] \in User /\ pstate'[parent'[d]] = "ALIVE"
    BY <1>1, <1>5, <2>2 DEF TreeSound
  <2> QED BY <2>1, <2>2 DEF TreeSound
<1>11. ZombiesKept'
  <2>1. ASSUME NEW q \in Pid
        PROVE  Range(exited_list'[q]) = {d \in children_list'[q] : pstate'[d] = "ZOMBIE"}
    <3>1. /\ Range(exited_list[q]) = {d \in children_list[q] : pstate[d] = "ZOMBIE"}
          /\ children_list[q] \subseteq Pid
      BY <1>1 DEF ZombiesKept, TypeOK
    <3>2. children_list'[q] \subseteq Pid
      BY <1>9 DEF TypeOK
    <3>3. \A d \in Pid : d \in children_list'[q] /\ pstate'[d] = "ZOMBIE"
                       <=> d \in Range(exited_list'[q])
      <4>1. children_list'[q] = children_list[q] \ {c}
        BY <1>5
      <4>2. Range(exited_list'[q]) = Range(exited_list[q]) \ {c}
        BY <1>7
      <4>3. \A d \in Pid : d # c => pstate'[d] = pstate[d]
        BY <1>5
      <4> QED BY <3>1, <4>1, <4>2, <4>3
    <3>4. Range(exited_list'[q]) \subseteq Pid
      BY <1>7, RangeType
    <3> QED BY <3>2, <3>3, <3>4
  <2>2. Range(pcb_freelist') = {q \in Pid : pstate'[q] = "FREE"}
    BY <1>1, <1>3, <1>5, <1>8 DEF ZombiesKept
  <2>3. process_count' = MAX_PROC - Len(pcb_freelist')
    BY <1>1, <1>2, <1>8, ProcessAssumption DEF ZombiesKept
  <2> QED BY <1>7, <1>8, <2>1, <2>2, <2>3 DEF ZombiesKept
<1>12. Acyclic'
  <2>1. SUFFICES ASSUME NEW S \in SUBSET {q \in Pid \ {0, 1} : pstate'[q] # "FREE"}, S # {}
                 PROVE  \E q \in S : parent'[q] \notin S
    BY DEF Acyclic
  <2>2. c \notin S /\ S \in SUBSET {q \in Pid \ {0, 1} : pstate[q] # "FREE"}
    BY <1>5, <2>1
  <2>3. PICK q \in S : parent[q] \notin S
    BY <1>1, <2>1, <2>2 DEF Acyclic
  <2> QED BY <1>5, <2>1, <2>2, <2>3
<1>13. InitExitsLast'
  BY <1>1, <1>3, <1>5 DEF InitExitsLast
<1>14. CallsSound'
  <2>1. ChildStays'
    BY <1>1, <1>5 DEF ChildStays
  <2>2. ThreadsSound'
    BY <1>1, <1>3, <1>4, <1>5 DEF ThreadsSound
  <2> QED BY <2>1, <2>2 DEF CallsSound
<1>15. SleepersWait'
  <2>1. SUFFICES ASSUME NEW q \in Pid, asleep[q]
        PROVE  \/ pc'[q] = "specific" /\ pstate'[cpid'[q]] = "ALIVE"
               \/ pc'[q] \in {"any", "exit"} /\ children_list'[q] # {} /\ exited_list'[q] = <<>>
    BY <1>2 DEF SleepersWait
  <2>2. q # p /\ pc'[q] = pc[q] /\ cpid'[q] = cpid[q] /\ children_list'[q] = children_list[q]
    BY <1>5, <1>6, <2>1
  <2>3. CASE pc[q] = "specific" /\ pstate[cpid[q]] = "ALIVE"
    <3>1. cpid[q] \in Pid
      BY <1>1, <2>3 DEF ChildStays, TypeOK
    <3> QED BY <1>5, <2>2, <2>3, <3>1
  <2>4. CASE pc[q] \in {"any", "exit"} /\ children_list[q] # {} /\ exited_list[q] = <<>>
    <3>1. exited_list'[q] = <<>>
      <4>1. Range(exited_list[q]) = {}
        BY <2>4, ExitedFacts
      <4>2. exited_list'[q] \in Seq(Pid) /\ Range(exited_list'[q]) = {}
        BY <1>7, <4>1
      <4> QED BY <4>2, EmptyRange
    <3> QED BY <2>2, <2>4, <3>1
  <2> QED BY <1>1, <2>1, <2>3, <2>4 DEF SleepersWait
<1> QED BY <1>9, <1>10, <1>11, <1>12, <1>13, <1>14, <1>15 DEF ProcessInv, TreeInv

\* wait_for_specific_child(): the child is one, still, after a wakeup.
LEMMA WaitSpecificInv ==
  ASSUME ProcessInv, NEW p \in User, NEW c \in User, wait_for_specific_child(p, c)
  PROVE  ProcessInv'
<1> USE PidFacts
<1>1. /\ TypeOK /\ TreeSound /\ ChildStays /\ ThreadsSound /\ SleepersWait
  BY DEF ProcessInv, TreeInv, CallsSound
<1>2. c \in children_list[p] /\ pc[p] # "none" /\ ~asleep[p]
  <2>1. CASE Calling(p) /\ LegalChild(p, c)
    BY <1>1, <2>1 DEF Calling, LegalChild, TreeSound, SleepersWait
  <2>2. CASE pc[p] = "specific" /\ cpid[p] = c /\ ~asleep[p]
    BY <1>1, <2>2 DEF ChildStays
  <2> QED BY <2>1, <2>2 DEF wait_for_specific_child
<1>3. CASE pstate[c] = "ALIVE"
  <2>1. kernel_wait(p, "specific", c) /\ UNCHANGED tree
    BY <1>3 DEF wait_for_specific_child
  <2> QED BY <1>2, <1>3, <2>1, SleepInv
<1>4. CASE pstate[c] # "ALIVE"
  <2>1. cleanup_zombie(c) /\ WaitReturns(p)
    BY <1>4 DEF wait_for_specific_child
  <2>2. pstate[c] = "ZOMBIE"
    BY <1>1, <1>2, <1>4, ChildFacts DEF TypeOK
  <2> QED BY <1>2, <2>1, <2>2, ReapInv
<1> QED BY <1>3, <1>4

\* wait_for_any_child(): the first in the list of exited children is a zombie.
LEMMA WaitAnyInv ==
  ASSUME ProcessInv, NEW p \in User, wait_for_any_child(p)
  PROVE  ProcessInv'
<1> USE PidFacts
<1>1. /\ ThreadsSound /\ SleepersWait
  BY DEF ProcessInv, CallsSound
<1>2. children_list[p] # {} /\ pc[p] # "none" /\ ~asleep[p]
  BY <1>1 DEF wait_for_any_child, Calling, ThreadsSound, SleepersWait
<1>3. CASE exited_list[p] = <<>>
  <2>1. kernel_wait(p, "any", Nil) /\ UNCHANGED tree
    BY <1>3 DEF wait_for_any_child
  <2> QED BY <1>2, <1>3, <2>1, SleepInv
<1>4. CASE exited_list[p] # <<>>
  <2> DEFINE c == Head(exited_list[p])
  <2>1. cleanup_zombie(c) /\ WaitReturns(p)
    BY <1>4 DEF wait_for_any_child
  <2>2. c \in children_list[p] /\ pstate[c] = "ZOMBIE"
    <3>1. exited_list[p] \in Seq(Pid)
      BY ExitedFacts
    <3>2. c \in Range(exited_list[p])
      BY <1>4, <3>1, TailLemma
    <3> QED BY <3>2, ExitedFacts
  <2> HIDE DEF c
  <2> QED BY <1>2, <2>1, <2>2, ReapInv
<1> QED BY <1>3, <1>4

----------------------------------------------------------------------------
\* The lists of exited children after sys_Exit(): init gets those of p, and the
\* parent gets p.
LEMMA ExitedLists ==
  ASSUME ProcessInv, NEW p \in Pid \ {0, 1}, pstate[p] = "ALIVE", NEW q \in Pid
  PROVE  LET list == exited_lists(p)[q]
             elements == {c \in Pid : /\ q # p
                                      /\ \/ c \in Range(exited_list[q])
                                         \/ q = 1 /\ c \in Range(exited_list[p])
                                         \/ q = parent[p] /\ c = p}
         IN  /\ list \in Seq(Pid) /\ IsInjective(list) /\ Range(list) = elements
<1> DEFINE list == exited_lists(p)[q]
           elements == {c \in Pid : /\ q # p
                                    /\ \/ c \in Range(exited_list[q])
                                       \/ q = 1 /\ c \in Range(exited_list[p])
                                       \/ q = parent[p] /\ c = p}
<1> DEFINE adopted == [exited_list EXCEPT ![p] = <<>>, ![1] = @ \o exited_list[p]]
<1> USE PidFacts
<1>1. exited_list \in [Pid -> Seq(Pid)]
  BY DEF ProcessInv, TreeInv, TypeOK
<1>2. parent[p] # p
  BY ParentFacts
<1>3. list = IF q = parent[p] THEN <<p>> \o adopted[q] ELSE adopted[q]
  BY DEF exited_lists, new_parent
<1>4. adopted[q] = IF q = p THEN <<>>
                   ELSE IF q = 1 THEN exited_list[1] \o exited_list[p] ELSE exited_list[q]
  BY <1>1
<1>5. ASSUME NEW r \in Pid
      PROVE  /\ exited_list[r] \in Seq(Pid) /\ IsInjective(exited_list[r])
             /\ Range(exited_list[r]) \subseteq Pid
             /\ \A c \in Range(exited_list[r]) : parent[c] = r /\ pstate[c] = "ZOMBIE"
  <2>1. exited_list[r] \in Seq(Pid) /\ IsInjective(exited_list[r])
    BY ExitedFacts
  <2>2. \A c \in Range(exited_list[r]) : c \in children_list[r] /\ pstate[c] = "ZOMBIE"
    BY ExitedFacts
  <2>3. \A c \in children_list[r] : parent[c] = r
    BY ChildFacts
  <2> QED BY <2>1, <2>2, <2>3, RangeType
<1> DEFINE a == adopted[q]
<1>6. /\ a \in Seq(Pid) /\ IsInjective(a)
      /\ \A c \in Pid : c \in Range(a) <=>
           q # p /\ (c \in Range(exited_list[q]) \/ (q = 1 /\ c \in Range(exited_list[p])))
      /\ p \notin Range(a)
  <2>1. CASE q = p
    <3>1. a = <<>>
      BY <1>4, <2>1
    <3>2. IsInjective(<<>>) /\ Range(<<>>) = {} /\ <<>> \in Seq(Pid)
      BY DEF IsInjective, Range
    <3> QED BY <2>1, <3>1, <3>2
  <2>2. CASE q # p /\ q = 1
    <3> DEFINE u == exited_list[1]
               v == exited_list[p]
    <3>1. a = u \o v
      BY <1>4, <2>2
    <3>2. /\ u \in Seq(Pid) /\ IsInjective(u) /\ v \in Seq(Pid) /\ IsInjective(v)
          /\ \A c \in Range(u) : parent[c] = 1 /\ pstate[c] = "ZOMBIE"
          /\ \A c \in Range(v) : parent[c] = p /\ pstate[c] = "ZOMBIE"
      BY <1>5
    <3>3. Range(u) \cap Range(v) = {} /\ p \notin Range(u) \cup Range(v)
      BY <3>2
    <3> HIDE DEF u, v, a
    <3>4. a \in Seq(Pid) /\ IsInjective(a) /\ Range(a) = Range(u) \cup Range(v)
      BY <3>1, <3>2, <3>3, ConcatLemma
    <3> QED BY <2>2, <3>3, <3>4 DEF u, v
  <2>3. CASE q # p /\ q # 1
    <3>1. a = exited_list[q]
      BY <1>4, <2>3
    <3>2. p \notin Range(exited_list[q])
      BY <1>5
    <3> QED BY <1>5, <2>3, <3>1, <3>2
  <2> QED BY <2>1, <2>2, <2>3
<1>7. list = IF q = parent[p] THEN <<p>> \o a ELSE a
  BY <1>3
<1> HIDE DEF a, adopted, list
<1>8. CASE q = parent[p]
  <2>1. /\ list \in Seq(Pid) /\ IsInjective(list) /\ Range(list) = Range(a) \cup {p}
    BY <1>6, <1>7, <1>8, PushFrontLemma
  <2>2. Range(list) \subseteq Pid
    BY <2>1, RangeType
  <2>3. \A c \in Pid : c \in Range(list) <=> c \in elements
    BY <1>2, <1>6, <1>8, <2>1
  <2>4. Range(list) = elements
    BY <2>2, <2>3
  <2> QED BY <2>1, <2>4 DEF list
<1>9. CASE q # parent[p]
  <2>1. /\ list \in Seq(Pid) /\ IsInjective(list) /\ Range(list) = Range(a)
    BY <1>6, <1>7, <1>9
  <2>2. Range(list) \subseteq Pid
    BY <2>1, RangeType
  <2>3. \A c \in Pid : c \in Range(list) <=> c \in elements
    BY <1>6, <1>9, <2>1
  <2>4. Range(list) = elements
    BY <2>2, <2>3
  <2> QED BY <2>1, <2>4 DEF list
<1> QED BY <1>8, <1>9

\* sys_Exit() of a process other than 1: init adopts its children, its parent
\* learns of it, and both are awakened.
LEMMA ExitInv ==
  ASSUME ProcessInv, NEW p \in User, sys_Exit(p)
  PROVE  ProcessInv'
<1> USE PidFacts
<1>1. /\ TypeOK /\ TreeSound /\ ZombiesKept /\ Acyclic /\ InitExitsLast
      /\ ChildStays /\ ThreadsSound /\ SleepersWait
  BY DEF ProcessInv, TreeInv, CallsSound
<1>2. /\ pc[p] = "user" /\ p # 1
      /\ pstate' = [pstate EXCEPT ![p] = "ZOMBIE"]
      /\ parent' = [c \in Pid |-> IF c \in children_list[p] THEN 1 ELSE parent[c]]
      /\ children_list' = [children_list EXCEPT ![1] = @ \cup children_list[p], ![p] = {}]
      /\ exited_list' = exited_lists(p)
      /\ pc' = [pc EXCEPT ![p] = "none"]
      /\ asleep' = [q \in Pid |-> asleep[q] /\ q \notin broadcast_exit(p)]
      /\ UNCHANGED <<pcb_freelist, process_count, cpid>>
  BY DEF sys_Exit, Calling, new_parent
<1>3. pstate[p] = "ALIVE" /\ pstate[1] = "ALIVE" /\ p \in Pid \ {0, 1}
  <2>1. pstate[p] = "ALIVE"
    BY <1>1, <1>2 DEF ThreadsSound
  <2> QED BY <1>1, <1>2, <2>1 DEF ThreadsSound, InitExitsLast, TypeOK
<1>4. /\ parent[p] \in User /\ parent[p] # p /\ pstate[parent[p]] = "ALIVE"
      /\ p \in children_list[parent[p]]
  BY <1>3, ParentFacts
<1>5. /\ \A q \in Pid :
           /\ pstate'[q] = IF q = p THEN "ZOMBIE" ELSE pstate[q]
           /\ parent'[q] = IF q \in children_list[p] THEN 1 ELSE parent[q]
           /\ pc'[q] = IF q = p THEN "none" ELSE pc[q]
           /\ children_list'[q] = IF q = p THEN {}
                                  ELSE IF q = 1 THEN children_list[1] \cup children_list[p]
                                  ELSE children_list[q]
  BY <1>1, <1>2, <1>3 DEF TypeOK
<1>6. \A q \in Pid : q # p => children_list[q] \subseteq children_list'[q]
  BY <1>5
<1>7. ASSUME NEW q \in Pid, NEW d \in Pid
      PROVE  d \in children_list'[q] <=>
               q # p /\ (d \in children_list[q] \/ (q = 1 /\ d \in children_list[p]))
  <2>1. CASE q = p
    BY <1>5, <2>1
  <2>2. CASE q # p /\ q = 1
    <3>1. children_list'[q] = children_list[1] \cup children_list[p]
      BY <1>5, <2>2
    <3> QED BY <2>2, <3>1
  <2>3. CASE q # p /\ q # 1
    <3>1. children_list'[q] = children_list[q]
      BY <1>5, <2>3
    <3> QED BY <2>3, <3>1
  <2> QED BY <2>1, <2>2, <2>3
<1>8. ASSUME NEW q \in Pid
      PROVE  /\ exited_list'[q] \in Seq(Pid) /\ IsInjective(exited_list'[q])
             /\ Range(exited_list'[q]) =
                  {c \in Pid : /\ q # p
                               /\ \/ c \in Range(exited_list[q])
                                  \/ q = 1 /\ c \in Range(exited_list[p])
                                  \/ q = parent[p] /\ c = p}
  BY <1>2, <1>3, ExitedLists
<1>9. TypeOK'
  <2>1. exited_list' \in [Pid -> Seq(Pid)]
    BY <1>2, <1>8 DEF exited_lists
  <2>2. children_list' \in [Pid -> SUBSET Pid]
    BY <1>1, <1>2 DEF TypeOK
  <2>3. asleep' \in [Pid -> BOOLEAN]
    BY <1>2
  <2>4. parent' \in [Pid -> Pid \cup {Nil}]
    BY <1>1, <1>2 DEF TypeOK
  <2> QED BY <1>1, <1>2, <2>1, <2>2, <2>3, <2>4 DEF TypeOK, Point
<1>10. TreeSound'
  <2>1. ASSUME NEW q \in Pid, NEW d \in Pid
        PROVE  d \in children_list'[q] <=> pstate'[d] # "FREE" /\ parent'[d] = q
    <3>1. \A r \in Pid : d \in children_list[r] <=> pstate[d] # "FREE" /\ parent[d] = r
      BY <1>1 DEF TreeSound
    <3>2. pstate'[d] # "FREE" <=> pstate[d] # "FREE"
      BY <1>3, <1>5
    <3>3. d \in children_list'[q] <=>
            q # p /\ (d \in children_list[q] \/ (q = 1 /\ d \in children_list[p]))
      BY <1>7
    <3>4. parent'[d] = IF d \in children_list[p] THEN 1 ELSE parent[d]
      BY <1>5
    <3>5. p \in Pid /\ p # 1
      BY <1>2
    <3> QED BY <3>1, <3>2, <3>3, <3>4, <3>5
  <2>2. ASSUME NEW d \in Pid \ {0, 1}, pstate'[d] # "FREE"
        PROVE  parent'[d] \in User /\ pstate'[parent'[d]] = "ALIVE"
    <3>1. /\ pstate[d] # "FREE" /\ parent[d] \in User /\ pstate[parent[d]] = "ALIVE"
          /\ d \in children_list[parent[d]]
      BY <1>3, <1>5, <2>2, ParentFacts
    <3> QED BY <1>2, <1>3, <1>5, <3>1
  <2> QED BY <2>1, <2>2 DEF TreeSound
<1>11. ZombiesKept'
  <2>1. ASSUME NEW q \in Pid
        PROVE  Range(exited_list'[q]) = {d \in children_list'[q] : pstate'[d] = "ZOMBIE"}
    <3>1. \A r \in Pid : \A d \in Pid :
            d \in Range(exited_list[r]) <=> d \in children_list[r] /\ pstate[d] = "ZOMBIE"
      BY <1>1 DEF ZombiesKept
    <3>2. children_list'[q] \subseteq Pid
      BY <1>9 DEF TypeOK
    <3>3. p \in children_list[q] <=> q = parent[p]
      BY <1>1, <1>3 DEF TreeSound
    <3>4. p \notin children_list[p]
      BY <1>1, <1>4 DEF TreeSound
    <3>5. ASSUME NEW d \in Pid
          PROVE  d \in Range(exited_list'[q]) <=> d \in children_list'[q] /\ pstate'[d] = "ZOMBIE"
      <4>1. d \in Range(exited_list'[q]) <=>
              q # p /\ \/ d \in Range(exited_list[q])
                       \/ q = 1 /\ d \in Range(exited_list[p])
                       \/ q = parent[p] /\ d = p
        BY <1>8
      <4>2. d \in children_list'[q] <=>
              q # p /\ (d \in children_list[q] \/ (q = 1 /\ d \in children_list[p]))
        BY <1>7
      <4>3. CASE d = p
        <5>1. pstate'[d] = "ZOMBIE" /\ \A r \in Pid : d \notin Range(exited_list[r])
          BY <1>3, <1>5, <3>1, <4>3
        <5> QED BY <3>3, <3>4, <4>1, <4>2, <4>3, <5>1
      <4>4. CASE d # p
        <5>1. pstate'[d] = pstate[d]
          BY <1>5, <4>4
        <5> QED BY <3>1, <4>1, <4>2, <4>4, <5>1
      <4> QED BY <4>3, <4>4
    <3>6. Range(exited_list'[q]) \subseteq Pid
      BY <1>8
    <3> QED BY <3>2, <3>5, <3>6
  <2>2. \A q \in Pid : pstate'[q] = "FREE" <=> pstate[q] = "FREE"
    BY <1>3, <1>5
  <2>3. Range(pcb_freelist') = {q \in Pid : pstate'[q] = "FREE"}
    BY <1>1, <1>2, <2>2 DEF ZombiesKept
  <2>4. IsInjective(pcb_freelist') /\ process_count' = MAX_PROC - Len(pcb_freelist')
    BY <1>1, <1>2 DEF ZombiesKept
  <2> QED BY <1>8, <2>1, <2>3, <2>4 DEF ZombiesKept
<1>12. Acyclic'
  <2>1. SUFFICES ASSUME NEW S \in SUBSET {q \in Pid \ {0, 1} : pstate'[q] # "FREE"}, S # {}
                 PROVE  \E q \in S : parent'[q] \notin S
    BY DEF Acyclic
  <2>2. S \in SUBSET {q \in Pid \ {0, 1} : pstate[q] # "FREE"} /\ 1 \notin S /\ S \subseteq Pid
    BY <1>3, <1>5, <2>1
  <2>3. PICK q \in S : parent[q] \notin S
    BY <1>1, <2>1, <2>2 DEF Acyclic
  <2> QED BY <1>5, <2>2, <2>3
<1>13. InitExitsLast'
  BY <1>2, <1>3, <1>5 DEF InitExitsLast
<1>14. CallsSound'
  <2>1. ChildStays'
    <3>1. ASSUME NEW q \in Pid, pc'[q] = "specific" PROVE cpid'[q] \in children_list'[q]
      <4>1. q # p /\ pc[q] = "specific"
        BY <1>5, <3>1
      <4>2. cpid[q] \in children_list[q]
        BY <1>1, <4>1 DEF ChildStays
      <4> QED BY <1>2, <1>6, <4>1, <4>2
    <3> QED BY <3>1 DEF ChildStays
  <2>2. ASSUME NEW q \in Pid
        PROVE  /\ pc'[q] # "none" <=> q \in User /\ pstate'[q] = "ALIVE"
               /\ pc'[q] = "any" => children_list'[q] # {}
               /\ pc'[q] = "exit" => q = 1
    BY <1>1, <1>5, <1>6 DEF ThreadsSound
  <2>3. /\ pstate'[0] = "ALIVE" /\ pstate'[1] # "FREE"
        /\ parent'[0] = Nil /\ parent'[1] = Nil
    <3>1. 0 \notin children_list[p] /\ 1 \notin children_list[p]
      BY ChildFacts
    <3> QED BY <1>1, <1>2, <1>3, <1>5, <3>1 DEF ThreadsSound
  <2>4. ThreadsSound'
    BY <2>2, <2>3 DEF ThreadsSound
  <2> QED BY <2>1, <2>4 DEF CallsSound
<1>15. SleepersWait'
  <2>1. SUFFICES ASSUME NEW q \in Pid, asleep'[q]
        PROVE  \/ pc'[q] = "specific" /\ pstate'[cpid[q]] = "ALIVE"
               \/ pc'[q] \in {"any", "exit"} /\ children_list'[q] # {} /\ exited_list'[q] = <<>>
    BY <1>2 DEF SleepersWait
  <2>2. /\ asleep[q] /\ q # parent[p]
        /\ q = 1 => exited_list[p] = <<>>
    BY <1>2, <2>1 DEF broadcast_exit, new_parent
  <2>3. q # p /\ pc'[q] = pc[q]
    BY <1>1, <1>2, <1>5, <2>2 DEF SleepersWait
  <2>4. CASE pc[q] = "specific" /\ pstate[cpid[q]] = "ALIVE"
    <3>1. cpid[q] \in children_list[q] /\ cpid[q] \in Pid
      BY <1>1, <2>4 DEF ChildStays, TypeOK
    <3>2. cpid[q] # p
      BY <1>1, <2>2, <3>1 DEF TreeSound
    <3> QED BY <1>5, <2>3, <2>4, <3>1, <3>2
  <2>5. CASE pc[q] \in {"any", "exit"} /\ children_list[q] # {} /\ exited_list[q] = <<>>
    <3>1. exited_list'[q] = <<>>
      <4>1. Range(exited_list[q]) = {}
        BY <2>5, ExitedFacts
      <4>2. q = 1 => Range(exited_list[p]) = {}
        BY <2>2, ExitedFacts
      <4>3. exited_list'[q] \in Seq(Pid) /\ Range(exited_list'[q]) = {}
        BY <1>8, <2>2, <4>1, <4>2
      <4> QED BY <4>3, EmptyRange
    <3> QED BY <1>6, <2>3, <2>5, <3>1
  <2> QED BY <1>1, <2>2, <2>4, <2>5 DEF SleepersWait
<1> QED BY <1>9, <1>10, <1>11, <1>12, <1>13, <1>14, <1>15 DEF ProcessInv, TreeInv

\* The Exit() of init, or one round of its loop: it frees all the children that
\* have exited, and sleeps if there are others; else it is the last process.
LEMMA InitExitInv ==
  ASSUME ProcessInv, NEW p \in User, sys_Exit_init(p)
  PROVE  ProcessInv'
<1> DEFINE R == Range(exited_list[1])
           last == children_list[1] \ R = {}
<1> USE PidFacts
<1>1. /\ TypeOK /\ TreeSound /\ ZombiesKept /\ Acyclic /\ InitExitsLast
      /\ ChildStays /\ ThreadsSound /\ SleepersWait
  BY DEF ProcessInv, TreeInv, CallsSound
<1>2. /\ p = 1 /\ pc[1] # "none" /\ ~asleep[1]
      /\ children_list' = [children_list EXCEPT ![1] = @ \ R]
      /\ exited_list' = [exited_list EXCEPT ![1] = <<>>]
      /\ parent' = [c \in Pid |-> IF c \in R THEN Nil ELSE parent[c]]
      /\ pcb_freelist' = Reverse(exited_list[1]) \o pcb_freelist
      /\ process_count' = process_count - Len(exited_list[1])
      /\ IF last THEN /\ pstate' = [c \in Pid |-> IF c \in R THEN "FREE"
                                                  ELSE IF c = 1 THEN "ZOMBIE" ELSE pstate[c]]
                      /\ pc' = [pc EXCEPT ![1] = "none"]
                      /\ UNCHANGED <<cpid, asleep>>
         ELSE /\ pstate' = [c \in Pid |-> IF c \in R THEN "FREE" ELSE pstate[c]]
              /\ pc' = [pc EXCEPT ![1] = "exit"]
              /\ cpid' = [cpid EXCEPT ![1] = Nil]
              /\ asleep' = [asleep EXCEPT ![1] = TRUE]
  <2>1. p = 1
    BY DEF sys_Exit_init
  <2>2. pc[1] # "none" /\ ~asleep[1]
    BY <1>1, <2>1 DEF sys_Exit_init, Calling, SleepersWait
  <2> QED BY <2>1, <2>2 DEF sys_Exit_init, InitMayExit, kernel_wait
<1>3. /\ exited_list[1] \in Seq(Pid) /\ IsInjective(exited_list[1]) /\ R \subseteq Pid
      /\ \A c \in Pid : c \in R <=> c \in children_list[1] /\ pstate[c] = "ZOMBIE"
      /\ 0 \notin R /\ 1 \notin R /\ \A c \in R : parent[c] = 1
  <2>1. /\ exited_list[1] \in Seq(Pid) /\ IsInjective(exited_list[1])
        /\ R = {c \in children_list[1] : pstate[c] = "ZOMBIE"}
    BY ExitedFacts
  <2>2. \A c \in children_list[1] : c # 0 /\ c # 1 /\ parent[c] = 1
    BY ChildFacts
  <2>3. R \subseteq Pid
    BY <2>1, RangeType
  <2> HIDE DEF R
  <2> QED BY <2>1, <2>2, <2>3
<1>4. \A c \in R : pstate[c] = "ZOMBIE" /\ c \in Pid
  BY <1>3
<1> HIDE DEF R
<1>5. \A q \in Pid :
        /\ pstate'[q] = IF q \in R THEN "FREE"
                        ELSE IF q = 1 /\ last THEN "ZOMBIE" ELSE pstate[q]
        /\ parent'[q] = IF q \in R THEN Nil ELSE parent[q]
        /\ pc'[q] = IF q # 1 THEN pc[q] ELSE IF last THEN "none" ELSE "exit"
        /\ q # 1 => cpid'[q] = cpid[q] /\ asleep'[q] = asleep[q]
        /\ q # 1 => children_list'[q] = children_list[q] /\ exited_list'[q] = exited_list[q]
  <2>1. CASE last
    BY <1>1, <1>2, <2>1 DEF TypeOK
  <2>2. CASE ~last
    BY <1>1, <1>2, <2>2 DEF TypeOK
  <2> QED BY <2>1, <2>2
<1>6. children_list'[1] = children_list[1] \ R /\ exited_list'[1] = <<>> /\ pstate[1] = "ALIVE"
  BY <1>1, <1>2 DEF TypeOK, ThreadsSound
<1>7. ASSUME NEW q \in Pid, NEW d \in Pid
      PROVE  d \in children_list'[q] <=> d \in children_list[q] /\ d \notin R
  <2>1. CASE q = 1
    BY <1>6, <2>1
  <2>2. CASE q # 1
    <3>1. d \in children_list[q] => d \notin R
      BY <1>1, <1>3, <2>2 DEF TreeSound
    <3> QED BY <1>5, <2>2, <3>1
  <2> QED BY <2>1, <2>2
<1>8. /\ pcb_freelist' \in Seq(Pid) /\ IsInjective(pcb_freelist')
      /\ Range(pcb_freelist') = R \cup Range(pcb_freelist)
      /\ Len(pcb_freelist') = Len(exited_list[1]) + Len(pcb_freelist)
      /\ Len(exited_list[1]) \in Nat /\ Len(pcb_freelist) \in Nat
  <2> DEFINE r == Reverse(exited_list[1])
  <2>1. /\ r \in Seq(Pid) /\ IsInjective(r) /\ Range(r) = R /\ Len(r) = Len(exited_list[1])
    BY <1>3, ReverseLemma DEF R
  <2>2. pcb_freelist \in Seq(Pid) /\ IsInjective(pcb_freelist) /\ R \cap Range(pcb_freelist) = {}
    BY <1>1, <1>4 DEF TypeOK, ZombiesKept
  <2>3. pcb_freelist' = r \o pcb_freelist
    BY <1>2
  <2> HIDE DEF r
  <2>4. /\ r \o pcb_freelist \in Seq(Pid) /\ IsInjective(r \o pcb_freelist)
        /\ Range(r \o pcb_freelist) = R \cup Range(pcb_freelist)
    BY <2>1, <2>2, ConcatLemma
  <2>5. Len(r \o pcb_freelist) = Len(r) + Len(pcb_freelist)
    BY <2>1, <2>2, ConcatProperties
  <2>6. Len(exited_list[1]) \in Nat /\ Len(pcb_freelist) \in Nat
    BY <1>3, <2>2, LenProperties
  <2> QED BY <2>1, <2>3, <2>4, <2>5, <2>6
<1>9. process_count' = MAX_PROC - Len(pcb_freelist')
  BY <1>1, <1>2, <1>8, ProcessAssumption DEF ZombiesKept
<1>10. TypeOK'
  <2>1. process_count' \in Nat
    <3>1. Len(pcb_freelist') <= MAX_PROC
      BY <1>8, TableSize
    <3> QED BY <1>8, <1>9, <3>1, ProcessAssumption
  <2>2. pstate' \in [Pid -> {"FREE", "ALIVE", "ZOMBIE"}]
    BY <1>1, <1>2 DEF TypeOK
  <2>3. parent' \in [Pid -> Pid \cup {Nil}]
    BY <1>1, <1>2 DEF TypeOK
  <2>4. children_list' \in [Pid -> SUBSET Pid] /\ exited_list' \in [Pid -> Seq(Pid)]
    BY <1>1, <1>2 DEF TypeOK
  <2>5. pc' \in [Pid -> Point] /\ cpid' \in [Pid -> Pid \cup {Nil}] /\ asleep' \in [Pid -> BOOLEAN]
    BY <1>1, <1>2 DEF TypeOK, Point
  <2> QED BY <1>8, <2>1, <2>2, <2>3, <2>4, <2>5 DEF TypeOK
<1>11. ASSUME last, NEW d \in Pid \ {0, 1} PROVE pstate'[d] = "FREE"
  <2> DEFINE S == {q \in Pid \ {0, 1} : pstate[q] # "FREE" /\ q \notin R}
  <2>1. S = {}
    <3>1. SUFFICES ASSUME S # {} PROVE FALSE
      OBVIOUS
    <3>2. PICK q \in S : parent[q] \notin S
      <4>1. S \in SUBSET {q \in Pid \ {0, 1} : pstate[q] # "FREE"}
        OBVIOUS
      <4> QED BY <1>1, <3>1, <4>1 DEF Acyclic
    <3>3. /\ parent[q] \in User /\ pstate[parent[q]] = "ALIVE" /\ q \in children_list[parent[q]]
      BY <3>2, ParentFacts
    <3>4. parent[q] = 1
      BY <1>4, <3>2, <3>3
    <3> QED BY <1>11, <3>2, <3>3, <3>4
  <2> QED BY <1>5, <2>1
<1>12. TreeSound'
  <2>1. ASSUME NEW q \in Pid, NEW d \in Pid
        PROVE  d \in children_list'[q] <=> pstate'[d] # "FREE" /\ parent'[d] = q
    <3>1. d \in children_list[q] <=> pstate[d] # "FREE" /\ parent[d] = q
      BY <1>1 DEF TreeSound
    <3>2. d \notin R => (pstate'[d] # "FREE" <=> pstate[d] # "FREE") /\ parent'[d] = parent[d]
      BY <1>5, <1>6
    <3>3. d \in R => pstate'[d] = "FREE"
      BY <1>5
    <3> QED BY <1>7, <3>1, <3>2, <3>3
  <2>2. ASSUME NEW d \in Pid \ {0, 1}, pstate'[d] # "FREE"
        PROVE  parent'[d] \in User /\ pstate'[parent'[d]] = "ALIVE"
    <3>1. ~last /\ d \notin R /\ pstate[d] # "FREE"
      BY <1>5, <1>11, <2>2
    <3>2. parent[d] \in User /\ pstate[parent[d]] = "ALIVE" /\ parent'[d] = parent[d]
      BY <1>1, <1>5, <3>1 DEF TreeSound
    <3>3. parent[d] \notin R
      BY <1>4, <3>2
    <3> QED BY <1>5, <3>1, <3>2, <3>3
  <2> QED BY <2>1, <2>2 DEF TreeSound
<1>13. ZombiesKept'
  <2>1. ASSUME NEW q \in Pid
        PROVE  /\ IsInjective(exited_list'[q])
               /\ Range(exited_list'[q]) = {d \in children_list'[q] : pstate'[d] = "ZOMBIE"}
    <3>1. /\ IsInjective(exited_list[q])
          /\ Range(exited_list[q]) = {d \in children_list[q] : pstate[d] = "ZOMBIE"}
          /\ children_list[q] \subseteq Pid /\ children_list'[q] \subseteq Pid
      BY <1>1, <1>10 DEF ZombiesKept, TypeOK
    <3>2. CASE q = 1
      <4>1. ASSUME NEW d \in children_list'[1] PROVE pstate'[d] # "ZOMBIE"
        <5>1. d \in children_list[1] /\ d \notin R /\ d \in Pid
          BY <1>6, <3>1, <3>2
        <5>2. d # 1 /\ pstate[d] # "ZOMBIE"
          BY <1>3, <5>1, ChildFacts
        <5> QED BY <1>5, <5>1, <5>2
      <4>2. IsInjective(<<>>) /\ Range(<<>>) = {}
        BY DEF IsInjective, Range
      <4> QED BY <1>6, <3>2, <4>1, <4>2
    <3>3. CASE q # 1
      <4>1. children_list'[q] = children_list[q] /\ exited_list'[q] = exited_list[q]
        BY <1>5, <3>3
      <4>2. ASSUME NEW d \in children_list[q] PROVE pstate'[d] = pstate[d]
        <5>1. d # 1 /\ parent[d] = q /\ d \in Pid
          BY ChildFacts
        <5>2. d \notin R
          BY <1>3, <3>3, <5>1
        <5> QED BY <1>5, <5>1, <5>2
      <4> QED BY <3>1, <4>1, <4>2
    <3> QED BY <3>2, <3>3
  <2>2. Range(pcb_freelist') = {q \in Pid : pstate'[q] = "FREE"}
    <3>1. Range(pcb_freelist) = {q \in Pid : pstate[q] = "FREE"}
      BY <1>1 DEF ZombiesKept
    <3>2. \A q \in Pid : pstate'[q] = "FREE" <=> q \in R \/ pstate[q] = "FREE"
      BY <1>5, <1>6
    <3> QED BY <1>3, <1>8, <3>1, <3>2
  <2> QED BY <1>8, <1>9, <2>1, <2>2 DEF ZombiesKept
<1>14. Acyclic'
  <2>1. SUFFICES ASSUME NEW S \in SUBSET {q \in Pid \ {0, 1} : pstate'[q] # "FREE"}, S # {}
                 PROVE  \E q \in S : parent'[q] \notin S
    BY DEF Acyclic
  <2>2. /\ S \in SUBSET {q \in Pid \ {0, 1} : pstate[q] # "FREE"}
        /\ \A q \in S : parent'[q] = parent[q]
    BY <1>5, <2>1
  <2>3. PICK q \in S : parent[q] \notin S
    BY <1>1, <2>1, <2>2 DEF Acyclic
  <2> QED BY <2>2, <2>3
<1>15. InitExitsLast'
  BY <1>5, <1>6, <1>11 DEF InitExitsLast
<1>16. CallsSound'
  <2>1. ChildStays'
    BY <1>1, <1>5 DEF ChildStays
  <2>2. ASSUME NEW q \in Pid
        PROVE  /\ pc'[q] # "none" <=> q \in User /\ pstate'[q] = "ALIVE"
               /\ pc'[q] = "any" => children_list'[q] # {}
               /\ pc'[q] = "exit" => q = 1
    <3>1. CASE q = 1
      BY <1>3, <1>5, <1>6, <3>1
    <3>2. CASE q # 1
      BY <1>1, <1>4, <1>5, <3>2 DEF ThreadsSound
    <3> QED BY <3>1, <3>2
  <2>3. /\ pstate'[0] = "ALIVE" /\ pstate'[1] # "FREE"
        /\ parent'[0] = Nil /\ parent'[1] = Nil
    BY <1>1, <1>3, <1>5 DEF ThreadsSound
  <2>4. ThreadsSound'
    BY <2>2, <2>3 DEF ThreadsSound
  <2> QED BY <2>1, <2>4 DEF CallsSound
<1>17. SleepersWait'
  <2>1. SUFFICES ASSUME NEW q \in Pid, asleep'[q]
        PROVE  \/ pc'[q] = "specific" /\ pstate'[cpid'[q]] = "ALIVE"
               \/ pc'[q] \in {"any", "exit"} /\ children_list'[q] # {} /\ exited_list'[q] = <<>>
    BY DEF SleepersWait
  <2>2. CASE q = 1
    BY <1>2, <1>5, <1>6, <2>1, <2>2
  <2>3. CASE q # 1
    <3>1. /\ asleep[q] /\ pc'[q] = pc[q] /\ cpid'[q] = cpid[q]
          /\ children_list'[q] = children_list[q] /\ exited_list'[q] = exited_list[q]
      BY <1>5, <2>1, <2>3
    <3>2. CASE pc[q] = "specific" /\ pstate[cpid[q]] = "ALIVE"
      <4>1. cpid[q] \in children_list[q]
        BY <1>1, <3>2 DEF ChildStays
      <4>2. cpid[q] \in Pid /\ cpid[q] # 1
        BY <4>1, ChildFacts
      <4>3. cpid[q] \notin R
        BY <1>4, <3>2
      <4> QED BY <1>5, <3>1, <3>2, <4>2, <4>3
    <3>3. CASE pc[q] \in {"any", "exit"} /\ children_list[q] # {} /\ exited_list[q] = <<>>
      BY <3>1, <3>3
    <3> QED BY <1>1, <3>1, <3>2, <3>3 DEF SleepersWait
  <2> QED BY <2>2, <2>3
<1> QED BY <1>10, <1>12, <1>13, <1>14, <1>15, <1>16, <1>17 DEF ProcessInv, TreeInv

----------------------------------------------------------------------------
\* ProcessInv is inductive.
LEMMA ProcessStep == ProcessInv /\ [Next]_vars => ProcessInv'
<1> SUFFICES ASSUME ProcessInv, [Next]_vars PROVE ProcessInv'
  OBVIOUS
<1>1. ASSUME NEW p \in User, NEW c \in User, sys_Exec(p, c) PROVE ProcessInv'
  BY <1>1, ExecInv
<1>2. ASSUME NEW p \in User, NEW c \in User, wait_for_specific_child(p, c) PROVE ProcessInv'
  BY <1>2, WaitSpecificInv
<1>3. ASSUME NEW p \in User, wait_for_any_child(p) PROVE ProcessInv'
  BY <1>3, WaitAnyInv
<1>4. ASSUME NEW p \in User, sys_Exit(p) PROVE ProcessInv'
  BY <1>4, ExitInv
<1>5. ASSUME NEW p \in User, sys_Exit_init(p) PROVE ProcessInv'
  BY <1>5, InitExitInv
<1>6. ASSUME NEW p \in User, StreamCall(p) PROVE ProcessInv'
  BY <1>6, UnchangedInv DEF StreamCall
<1>7. CASE Halted
  BY <1>7, UnchangedInv DEF Halted, vars
<1>8. CASE UNCHANGED vars
  BY <1>8, UnchangedInv DEF vars
<1> QED BY <1>1, <1>2, <1>3, <1>4, <1>5, <1>6, <1>7, <1>8 DEF Next

\* The process tree, the process table and the calls that wait are sound in
\* every reachable state (kernel_proc.c), for any size of the table.
THEOREM ProcessCorrect == Spec => []ProcessInv
BY InitProcess, ProcessStep, PTL DEF Spec

\* The process tree and the process table are sound.
THEOREM TreeCorrect == Spec => []TreeInv
<1>1. ProcessInv => TreeInv
  BY DEF ProcessInv
<1> QED BY <1>1, ProcessCorrect, PTL

\* What is waited for stays a child, and threads and tree agree.
THEOREM CallsCorrect == Spec => []CallsSound
<1>1. ProcessInv => CallsSound
  BY DEF ProcessInv
<1> QED BY <1>1, ProcessCorrect, PTL

\* No exit goes unnoticed by a thread that sleeps in WaitChild() or Exit().
THEOREM NoLostExit == Spec => []SleepersWait
<1>1. ProcessInv => SleepersWait
  BY DEF ProcessInv
<1> QED BY <1>1, ProcessCorrect, PTL
----------------------------------------------------------------------------
\* The streams of the processes, with what is proved about them.
FP == INSTANCE StreamsProofs WITH
  Proc <- User, init <- 1, live <- {p \in User : pstate[p] = "ALIVE"}

\* A step that frees zombies, or leaves the table alone, does not change
\* who is alive.
LEMMA LiveLemma ==
  ASSUME \A p \in User : pstate'[p] = "ALIVE" <=> pstate[p] = "ALIVE", UNCHANGED streams
  PROVE  UNCHANGED Files!vars
<1>1. {p \in User : pstate'[p] = "ALIVE"} = {p \in User : pstate[p] = "ALIVE"}
  OBVIOUS
<1> QED BY <1>1 DEF Files!vars, Files!table, streams

\* Every step of the processes is a step of Streams, or one that the streams
\* do not see.
LEMMA StreamsStepped ==
  ASSUME ProcessInv, [Next]_vars
  PROVE  [Files!Next]_(Files!vars)
<1> USE PidFacts
<1>1. pstate \in [Pid -> {"FREE", "ALIVE", "ZOMBIE"}]
  BY DEF ProcessInv, TreeInv, TypeOK
<1>2. ASSUME NEW p \in User, NEW c \in User, sys_Exec(p, c) PROVE Files!Next
  BY <1>2 DEF sys_Exec, Exec_files, Files!Next
<1>3. ASSUME NEW c \in User, pstate[c] = "ZOMBIE", cleanup_zombie(c), UNCHANGED streams
      PROVE  UNCHANGED Files!vars
  <2>1. pstate' = [pstate EXCEPT ![c] = "FREE"]
    BY <1>3 DEF cleanup_zombie, release_PCB
  <2>2. \A p \in User : pstate'[p] = "ALIVE" <=> pstate[p] = "ALIVE"
    BY <1>1, <1>3, <2>1
  <2> QED BY <1>3, <2>2, LiveLemma
<1>4. ASSUME UNCHANGED <<tree, streams>> PROVE UNCHANGED Files!vars
  BY <1>4, LiveLemma DEF tree
<1>5. ASSUME NEW p \in User, NEW c \in User, wait_for_specific_child(p, c)
      PROVE  UNCHANGED Files!vars
  <2>1. CASE pstate[c] = "ALIVE"
    BY <1>4, <1>5, <2>1 DEF wait_for_specific_child
  <2>2. CASE pstate[c] # "ALIVE"
    <3>1. pstate[c] # "FREE"
      <4>1. CASE LegalChild(p, c)
        BY <4>1 DEF LegalChild
      <4>2. CASE pc[p] = "specific" /\ cpid[p] = c
        <5>1. c \in children_list[p]
          BY <4>2 DEF ProcessInv, CallsSound, ChildStays
        <5> QED BY <5>1, ChildFacts
      <4> QED BY <1>5, <4>1, <4>2 DEF wait_for_specific_child
    <3>2. pstate[c] = "ZOMBIE"
      BY <1>1, <2>2, <3>1
    <3> QED BY <1>3, <1>5, <2>2, <3>2 DEF wait_for_specific_child
  <2> QED BY <2>1, <2>2
<1>6. ASSUME NEW p \in User, wait_for_any_child(p) PROVE UNCHANGED Files!vars
  <2>1. CASE exited_list[p] = <<>>
    BY <1>4, <1>6, <2>1 DEF wait_for_any_child
  <2>2. CASE exited_list[p] # <<>>
    <3> DEFINE c == Head(exited_list[p])
    <3>1. exited_list[p] \in Seq(Pid)
      BY ExitedFacts
    <3>2. c \in Range(exited_list[p])
      BY <2>2, <3>1, TailLemma
    <3>3. cleanup_zombie(c) /\ UNCHANGED streams
      BY <1>6, <2>2 DEF wait_for_any_child
    <3> HIDE DEF c
    <3>4. c \in children_list[p] /\ pstate[c] = "ZOMBIE"
      BY <3>2, ExitedFacts
    <3>5. c \in User
      BY <3>4, ChildFacts
    <3> QED BY <1>3, <3>3, <3>4, <3>5
  <2> QED BY <2>1, <2>2
<1>7. ASSUME NEW p \in User, sys_Exit(p) PROVE Files!Next
  BY <1>7 DEF sys_Exit, Files!Next
<1>8. ASSUME NEW p \in User, sys_Exit_init(p) PROVE [Files!Next]_(Files!vars)
  <2>1. CASE InitMayExit(p)
    BY <1>8, <2>1 DEF sys_Exit_init, Files!Next
  <2>2. CASE ~InitMayExit(p)
    <3>1. /\ pstate' = [c \in Pid |-> IF c \in Range(exited_list[p]) THEN "FREE" ELSE pstate[c]]
          /\ UNCHANGED streams
      BY <1>8, <2>2 DEF sys_Exit_init
    <3>2. \A c \in Range(exited_list[p]) : pstate[c] = "ZOMBIE"
      BY ExitedFacts
    <3>3. \A c \in User : pstate'[c] = "ALIVE" <=> pstate[c] = "ALIVE"
      BY <3>1, <3>2
    <3> QED BY <3>1, <3>3, LiveLemma
  <2> QED BY <2>1, <2>2
<1>9. ASSUME NEW p \in User, StreamCall(p) PROVE Files!Next
  BY <1>9 DEF StreamCall, Files!Next
<1>10. ASSUME UNCHANGED vars PROVE UNCHANGED Files!vars
  BY <1>4, <1>10 DEF vars
<1> QED BY <1>2, <1>5, <1>6, <1>7, <1>8, <1>9, <1>10 DEF Next, Halted

\* Exec() and Exit() handle the streams as Streams says.
THEOREM StreamsImplemented == Spec => ImplementsStreams
<1>1. Init => Files!Init
  BY DEF Init
<1>2. ProcessInv /\ [Next]_vars => [Files!Next]_(Files!vars)
  BY StreamsStepped
<1> QED BY <1>1, <1>2, ProcessCorrect, PTL DEF Spec, ImplementsStreams, Files!Spec

\* The constants of the streams of the processes are as Streams asks.
LEMMA FilesAssumption == FP!StreamsAssumption
<1>1. IsFiniteSet(User)
  <2>1. 0 \in Int /\ MAX_PROC - 1 \in Int
    BY ProcessAssumption
  <2>2. IsFiniteSet(0..(MAX_PROC - 1))
    BY <2>1, FS_Interval
  <2> QED BY <2>2, PidFacts, FS_Subset DEF Pid
<1> QED BY <1>1, ProcessAssumption, PidFacts
    DEF FP!StreamsAssumption, IsFiniteSet, FP!IsFiniteSet

\* FP and Files are the same instance, so their definitions agree.
LEMMA SameInit == Files!Init => FP!Init
BY DEF FP!Init, Files!Init, FP!FT, Files!FT,
       FP!Fid, Files!Fid, FP!NoFiles, Files!NoFiles, FP!Cardinality,
       Files!Cardinality, FP!IsInjective, Files!IsInjective

LEMMA SameNext == Files!Next => FP!Next
BY DEF FP!Next, Files!Next, FP!Fid, Files!Fid, FP!NoFiles, Files!NoFiles, FP!Ready,
       Files!Ready, FP!acquire_refcount, Files!acquire_refcount,
       FP!Unreferenced, Files!Unreferenced, FP!FCB_decref,
       Files!FCB_decref, FP!FCB_incref, Files!FCB_incref,
       FP!get_fcb, Files!get_fcb, FP!FCB_reserve, Files!FCB_reserve,
       FP!CanReserve, Files!CanReserve, FP!open_stream,
       Files!open_stream, FP!FCB_unreserve, Files!FCB_unreserve,
       FP!sys_Read, Files!sys_Read, FP!sys_Read_return,
       Files!sys_Read_return, FP!sys_Close, Files!sys_Close,
       FP!Dup2_replace, Files!Dup2_replace, FP!sys_Dup2,
       Files!sys_Dup2, FP!FidsOf, Files!FidsOf, FP!Exec_inherit,
       Files!Exec_inherit, FP!Exit_FIDT, Files!Exit_FIDT,
       FP!Exit_cleanup, Files!Exit_cleanup, FP!StreamCall,
       Files!StreamCall, FP!Min, Files!Min, FP!Max, Files!Max,
       FP!Cardinality, Files!Cardinality

LEMMA SameSpec == Files!Spec => FP!Spec
<1>1. [Files!Next]_(Files!vars) => [FP!Next]_(FP!vars)
  BY SameNext DEF FP!vars, Files!vars, FP!table, Files!table
<1> QED BY <1>1, SameInit, PTL DEF Files!Spec, FP!Spec

LEMMA SameInv == FP!StreamsInv => Files!StreamsInv
BY DEF FP!StreamsInv, Files!StreamsInv, FP!TypeOK, Files!TypeOK,
       FP!RefcountExact, Files!RefcountExact, FP!FreelistExact,
       Files!FreelistExact, FP!DeadHoldNothing,
       Files!DeadHoldNothing, FP!References, Files!References,
       FP!Place, Files!Place, FP!Holds, Files!Holds, FP!Fid,
       Files!Fid, FP!NoFiles, Files!NoFiles, FP!Range, Files!Range,
       FP!IsInjective, Files!IsInjective, FP!Cardinality,
       Files!Cardinality

\* The counters, the free list and the tables of the streams are exact, whatever
\* processes are executed, exit and are reaped.
THEOREM FilesCorrect == Spec => []StreamsSound
<1>1. FP!StreamsAssumption => (FP!Spec => []FP!StreamsInv)
  BY FP!StreamsCorrect
<1>2. FP!StreamsInv => StreamsSound
  BY SameInv DEF StreamsSound
<1> QED BY <1>1, <1>2, SameSpec, FilesAssumption, StreamsImplemented, PTL DEF ImplementsStreams

\* A file id goes on naming the same device until it is closed or replaced.
THEOREM DevicesStay == Spec => StreamStable
<1>1. FP!StreamsAssumption => (FP!Spec => FP!StreamStable)
  BY FP!DevicesStay
<1>2. FP!StreamStable => StreamStable
  <2>1. ASSUME [\A p \in User, fd \in FP!Fid :
                  FIDT[p][fd] # Nil /\ FIDT'[p][fd] = FIDT[p][fd] =>
                    streamobj'[FIDT[p][fd]] = streamobj[FIDT[p][fd]]]_(FP!vars)
        PROVE  [\A p \in User, fd \in Files!Fid :
                  FIDT[p][fd] # Nil /\ FIDT'[p][fd] = FIDT[p][fd] =>
                    streamobj'[FIDT[p][fd]] = streamobj[FIDT[p][fd]]]_(Files!vars)
    BY <2>1 DEF FP!vars, Files!vars, FP!table, Files!table, FP!Fid, Files!Fid
  <2> QED BY <2>1, PTL DEF FP!StreamStable, StreamStable, Files!StreamStable
<1> QED BY <1>1, <1>2, SameSpec, FilesAssumption, StreamsImplemented, PTL DEF ImplementsStreams
=============================================================================
