------------------------------ MODULE Process ------------------------------
(***************************************************************************)
(* The processes of TinyOS 3 (kernel_proc.c): the table of PCBs, the       *)
(* process tree, Exec(), Exit() and WaitChild(), together with the streams *)
(* of the processes (module Streams), which Exec() copies and Exit()       *)
(* closes.                                                                 *)
(*                                                                         *)
(* Every step runs with the kernel locked.  A system call is one step      *)
(* unless it waits: then the step ends at kernel_wait(), and another one   *)
(* goes on from there when the thread has been awakened and has locked the *)
(* kernel again.  Each process has one thread.  Exit values and arguments  *)
(* are left out.  A call that fails before it changes anything is not a    *)
(* step.                                                                   *)
(***************************************************************************)
EXTENDS Integers, Sequences, FiniteSets, Functions, SequencesExt, RList

CONSTANTS
  MAX_PROC,     \* size of the process table
  FCB, MAX_FILEID, Device,   \* see Streams
  Nil           \* the NULL pointer, and NOPROC

ASSUME ProcessAssumption ==
  /\ MAX_PROC \in Nat /\ MAX_PROC >= 2
  /\ MAX_FILEID \in Nat
  /\ IsFiniteSet(FCB)
  /\ Nil \notin Nat \cup FCB \cup Device

Pid == 0..(MAX_PROC - 1)
User == Pid \ {0}        \* the processes with a thread

VARIABLES
  pstate,         \* pcb->pstate
  parent,         \* pcb->parent of a PCB in use
  children_list,  \* the children, dead ones too; their order is never used
  exited_list,    \* the children that have exited
  pcb_freelist,   \* the free PCBs (linked through pcb->parent)
  process_count,
  pc,             \* what the thread of the process is doing
  cpid,           \* the child that the thread waits for, inside WaitChild()
  asleep,         \* does it sleep on pcb->child_exit?
  FIDT, refcount, streamobj, FCB_freelist, used   \* see Streams

streams == <<FIDT, refcount, streamobj, FCB_freelist, used>>
tree == <<pstate, parent, children_list, exited_list, pcb_freelist, process_count>>
threads == <<pc, cpid, asleep>>
vars == <<tree, threads, streams>>

(***************************************************************************)
(* Control points of the thread of a process:                              *)
(*   none      there is no thread                                          *)
(*   user      the program, or a call on a stream                          *)
(*   specific  in wait_for_specific_child()                                *)
(*   any       in wait_for_any_child()                                     *)
(*   exit      in the loop at the beginning of sys_Exit() of process 1     *)
(***************************************************************************)
Point == {"none", "user", "specific", "any", "exit"}

Files == INSTANCE Streams WITH
  Proc <- User, init <- 1, live <- {p \in User : pstate[p] = "ALIVE"}

\* initialize_processes() has made process 0, which has no thread, and the
\* boot task has been executed as process 1.
Init ==
  /\ pstate = [p \in Pid |-> IF p <= 1 THEN "ALIVE" ELSE "FREE"]
  /\ parent = [p \in Pid |-> Nil]
  /\ children_list = [p \in Pid |-> {}]
  /\ exited_list = [p \in Pid |-> <<>>]
  /\ pcb_freelist = [i \in 1..(MAX_PROC - 2) |-> i + 1]
  /\ process_count = 2
  /\ pc = [p \in Pid |-> IF p = 1 THEN "user" ELSE "none"]
  /\ cpid = [p \in Pid |-> Nil]
  /\ asleep = [p \in Pid |-> FALSE]
  /\ Files!Init

\* The program of p is about to make a system call.
Calling(p) == pc[p] = "user" /\ used[p] = Nil

----------------------------------------------------------------------------
\* acquire_PCB() takes the first free block.
acquire_PCB(c) ==
  /\ pcb_freelist # <<>>
  /\ c = Head(pcb_freelist)
  /\ pcb_freelist' = Tail(pcb_freelist)
  /\ pstate' = [pstate EXCEPT ![c] = "ALIVE"]
  /\ process_count' = process_count + 1

\* Mutant: the file ids are copied, but the streams are not told.
Exec_files_uncounted(p, c) ==
  /\ FIDT' = [FIDT EXCEPT ![c] = FIDT[p]]
  /\ UNCHANGED <<refcount, streamobj, FCB_freelist, used>>

\* The loop of sys_Exec() over the file ids.
Exec_files(p, c) == Files!Exec_inherit(p, c)

\* sys_Exec() of a process other than 0 and 1: c becomes a child of p, gets
\* its streams and starts to run.
sys_Exec(p, c) ==
  /\ Calling(p)
  /\ acquire_PCB(c)
  /\ parent' = [parent EXCEPT ![c] = p]
  /\ children_list' = [children_list EXCEPT ![p] = @ \cup {c}]
  /\ Exec_files(p, c)
  /\ pc' = [pc EXCEPT ![c] = "user"]
  /\ UNCHANGED <<exited_list, cpid, asleep>>

----------------------------------------------------------------------------
release_PCB(c) ==
  /\ pstate' = [pstate EXCEPT ![c] = "FREE"]
  /\ parent' = [parent EXCEPT ![c] = Nil]
  /\ pcb_freelist' = <<c>> \o pcb_freelist
  /\ process_count' = process_count - 1

\* Mutant: the child stays in the list of exited children.
unlink_exited_not(list, c) == list

unlink_exited(list, c) == rlist_remove(list, c)

\* cleanup_zombie(): unlink c from its parent and free its PCB.
cleanup_zombie(c) ==
  /\ children_list' = [p \in Pid |-> children_list[p] \ {c}]
  /\ exited_list' = [p \in Pid |-> unlink_exited(exited_list[p], c)]
  /\ release_PCB(c)

\* kernel_wait(& p->child_exit): sleep inside the call.
kernel_wait(p, call, c) ==
  /\ pc' = [pc EXCEPT ![p] = call]
  /\ cpid' = [cpid EXCEPT ![p] = c]
  /\ asleep' = [asleep EXCEPT ![p] = TRUE]

WaitReturns(p) ==
  /\ pc' = [pc EXCEPT ![p] = "user"]
  /\ cpid' = [cpid EXCEPT ![p] = Nil]
  /\ UNCHANGED asleep

\* Mutant: any process may be waited for.
LegalChild_any(p, c) == pstate[c] # "FREE"

\* The legality checks of wait_for_specific_child().
LegalChild(p, c) == pstate[c] # "FREE" /\ parent[c] = p

\* wait_for_specific_child(): from the call, or after a wakeup.
wait_for_specific_child(p, c) ==
  /\ \/ Calling(p) /\ LegalChild(p, c)
     \/ pc[p] = "specific" /\ cpid[p] = c /\ ~asleep[p]
  /\ IF pstate[c] = "ALIVE"
     THEN kernel_wait(p, "specific", c) /\ UNCHANGED tree
     ELSE cleanup_zombie(c) /\ WaitReturns(p)
  /\ UNCHANGED streams

\* wait_for_any_child(): from the call, or after a wakeup.
wait_for_any_child(p) ==
  /\ \/ Calling(p) /\ children_list[p] # {}
     \/ pc[p] = "any" /\ ~asleep[p]
  /\ IF exited_list[p] = <<>>
     THEN kernel_wait(p, "any", Nil) /\ UNCHANGED tree
     ELSE cleanup_zombie(Head(exited_list[p])) /\ WaitReturns(p)
  /\ UNCHANGED streams

----------------------------------------------------------------------------
\* Mutant: the children of an exiting process are left alone.
new_parent_self(p) == p

\* Who gets the children of the exiting process p: get_pcb(1).
new_parent(p) == 1

\* Mutants: init is not told of the exited children that it inherits; the
\* parent is not told.
broadcast_orphans_lost(p) == {parent[p]}
broadcast_parent_lost(p) == IF exited_list[p] = <<>> THEN {} ELSE {new_parent(p)}

\* The processes whose child_exit sys_Exit() broadcasts.
broadcast_exit(p) ==
  {parent[p]} \cup IF exited_list[p] = <<>> THEN {} ELSE {new_parent(p)}

\* Mutant: p does not enter the list of its parent.
exited_lists_unlinked(p) ==
  [q \in Pid |-> IF q = p THEN <<>>
                 ELSE IF q = new_parent(p) THEN exited_list[q] \o exited_list[p]
                 ELSE exited_list[q]]

\* Hand over the exited children of p, then enter the list of p's parent.
exited_lists(p) ==
  LET adopted == [exited_list EXCEPT ![p] = <<>>,
                                     ![new_parent(p)] = @ \o exited_list[p]]
  IN [q \in Pid |-> IF q = parent[p] THEN <<p>> \o adopted[q] ELSE adopted[q]]

\* sys_Exit() of a process other than 1.
sys_Exit(p) ==
  /\ Calling(p)
  /\ p # 1
  /\ pstate' = [pstate EXCEPT ![p] = "ZOMBIE"]
  /\ Files!Exit_cleanup(p)
  /\ parent' = [c \in Pid |-> IF c \in children_list[p] THEN new_parent(p) ELSE parent[c]]
  /\ children_list' = [children_list EXCEPT ![new_parent(p)] = @ \cup children_list[p],
                                            ![p] = {}]
  /\ exited_list' = exited_lists(p)
  /\ pc' = [pc EXCEPT ![p] = "none"]
  /\ asleep' = [q \in Pid |-> asleep[q] /\ q \notin broadcast_exit(p)]
  /\ UNCHANGED <<pcb_freelist, process_count, cpid>>

\* Mutant: if instead of while.
InitMayExit_once(p) == exited_list[p] # <<>> \/ children_list[p] = {}

\* Is the loop of sys_Exit() over when init has waited for all these?
InitMayExit(p) == children_list[p] \ Range(exited_list[p]) = {}

\* The loop at the beginning of sys_Exit(), in process 1: clean up every
\* child that has exited, and sleep while there are others; then exit.
\* From the call, or after a wakeup.
sys_Exit_init(p) ==
  LET reaped == Range(exited_list[p]) IN
  /\ p = 1
  /\ Calling(p) \/ (pc[p] = "exit" /\ ~asleep[p])
  /\ children_list' = [children_list EXCEPT ![p] = @ \ reaped]
  /\ exited_list' = [exited_list EXCEPT ![p] = <<>>]
  /\ parent' = [c \in Pid |-> IF c \in reaped THEN Nil ELSE parent[c]]
  /\ pcb_freelist' = Reverse(exited_list[p]) \o pcb_freelist
  /\ process_count' = process_count - Len(exited_list[p])
  /\ IF InitMayExit(p)
     THEN /\ pstate' = [c \in Pid |-> IF c \in reaped THEN "FREE"
                                      ELSE IF c = p THEN "ZOMBIE" ELSE pstate[c]]
          /\ Files!Exit_cleanup(p)
          /\ pc' = [pc EXCEPT ![p] = "none"]
          /\ UNCHANGED <<cpid, asleep>>
     ELSE /\ pstate' = [c \in Pid |-> IF c \in reaped THEN "FREE" ELSE pstate[c]]
          /\ kernel_wait(p, "exit", Nil)
          /\ UNCHANGED streams

----------------------------------------------------------------------------
\* A system call on a stream; other processes run while the driver waits.
StreamCall(p) ==
  /\ pc[p] = "user"
  /\ UNCHANGED <<tree, threads>>
  /\ Files!StreamCall(p)

\* The boot task has exited: only process 0 and the zombie of process 1 stay.
Halted ==
  /\ pstate[1] = "ZOMBIE"
  /\ UNCHANGED vars

\* The driver returns.
StreamReturn(p) == UNCHANGED <<tree, threads>> /\ Files!sys_Read_return(p)

\* The rest of a call that waits.
Resume(p) ==
  \/ StreamReturn(p)
  \/ pc[p] = "specific" /\ wait_for_specific_child(p, cpid[p])
  \/ pc[p] = "any" /\ wait_for_any_child(p)
  \/ pc[p] = "exit" /\ sys_Exit_init(p)

Exit(p) == sys_Exit(p) \/ sys_Exit_init(p)

Next ==
  \/ \E p \in User :
       \/ \E c \in User : sys_Exec(p, c) \/ wait_for_specific_child(p, c)
       \/ wait_for_any_child(p)
       \/ sys_Exit(p)
       \/ sys_Exit_init(p)
       \/ StreamCall(p)
  \/ Halted

Spec == Init /\ [][Next]_vars

----------------------------------------------------------------------------
TypeOK ==
  /\ pstate \in [Pid -> {"FREE", "ALIVE", "ZOMBIE"}]
  /\ parent \in [Pid -> Pid \cup {Nil}]
  /\ children_list \in [Pid -> SUBSET Pid]
  /\ exited_list \in [Pid -> Seq(Pid)]
  /\ pcb_freelist \in Seq(Pid)
  /\ process_count \in Nat
  /\ pc \in [Pid -> Point]
  /\ cpid \in [Pid -> Pid \cup {Nil}]
  /\ asleep \in [Pid -> BOOLEAN]

\* The list of children of a process is exactly the set of processes whose
\* parent it is, and every parent is alive: no process loses its parent
\* without getting a new one (sys_Exit()).
TreeSound ==
  /\ \A p, c \in Pid : c \in children_list[p] <=> pstate[c] # "FREE" /\ parent[c] = p
  /\ \A c \in Pid \ {0, 1} : pstate[c] # "FREE" =>
       parent[c] \in User /\ pstate[parent[c]] = "ALIVE"

\* The exited list of a process holds exactly its dead children, once each,
\* and the PCBs are free exactly when they are in the free list, once each:
\* every process that exits is freed once, by its parent or by init.
ZombiesKept ==
  /\ \A p \in Pid : /\ IsInjective(exited_list[p])
                    /\ Range(exited_list[p]) = {c \in children_list[p] : pstate[c] = "ZOMBIE"}
  /\ IsInjective(pcb_freelist)
  /\ Range(pcb_freelist) = {p \in Pid : pstate[p] = "FREE"}
  /\ process_count = MAX_PROC - Len(pcb_freelist)

\* A thread that sleeps in WaitChild() or in the Exit() of init has a reason
\* to: what it waits for has not happened yet.  No exit goes unnoticed.
SleepersWait ==
  \A p \in Pid : asleep[p] =>
    \/ pc[p] = "specific" /\ pstate[cpid[p]] = "ALIVE"
    \/ pc[p] \in {"any", "exit"} /\ children_list[p] # {} /\ exited_list[p] = <<>>

\* Inside wait_for_specific_child() the child stays a child of the caller,
\* alive or dead, and is not freed, nor its pid used again.
ChildStays ==
  \A p \in Pid : pc[p] = "specific" => cpid[p] \in children_list[p]

\* Exactly the processes that are alive have a thread, except process 0, which
\* has none; only init waits in Exit(), and who waits for any child has one.
\* Processes 0 and 1 stay, and have no parent.
ThreadsSound ==
  /\ \A p \in Pid : /\ pc[p] # "none" <=> p \in User /\ pstate[p] = "ALIVE"
                    /\ pc[p] = "any" => children_list[p] # {}
                    /\ pc[p] = "exit" => p = 1
  /\ pstate[0] = "ALIVE" /\ pstate[1] # "FREE"
  /\ parent[0] = Nil /\ parent[1] = Nil

\* Init exits last: when it is a zombie no process is left that could need it
\* as a parent (the loop at the beginning of sys_Exit()).
InitExitsLast ==
  pstate[1] = "ZOMBIE" => \A p \in Pid \ {0, 1} : pstate[p] = "FREE"

\* The process tree has no cycle: every set of processes has a member with a
\* parent outside of it.
Acyclic ==
  \A S \in SUBSET {p \in Pid \ {0, 1} : pstate[p] # "FREE"} :
    S # {} => \E p \in S : parent[p] \notin S

\* The process tree and the process table are sound, whatever processes are
\* created, orphaned, waited for and reused (kernel_proc.c).
TreeInv == TypeOK /\ TreeSound /\ ZombiesKept /\ Acyclic /\ InitExitsLast

\* What the threads do agrees with the tree: above all, a child that is waited
\* for stays a child, and its PCB is not used again (wait_for_specific_child()).
CallsSound == ChildStays /\ ThreadsSound

\* The inductive invariant of the processes.
ProcessInv == TreeInv /\ CallsSound /\ SleepersWait

\* The invariants of Streams: counters and free list of the FCBs agree with
\* the file ids and calls of all processes (kernel_streams.c).
StreamsSound == Files!StreamsInv

\* A file id goes on naming the same device as long as nobody closes or
\* replaces it, whatever other processes do with the stream (FCB_decref()).
StreamStable == Files!StreamStable

\* The processes use their streams as Streams says: Exec() and Exit() copy
\* and close the file ids of the right process, at the right time.
ImplementsStreams == Files!Spec

----------------------------------------------------------------------------
(***************************************************************************)
(* Fairness.  A thread that has been awakened goes on, and a driver        *)
(* returns (module Serial).  A program that gets its processor again and   *)
(* again exits some day; this is what is asked of the programs, not of the *)
(* kernel.                                                                 *)
(***************************************************************************)
Fairness == \A p \in User : WF_vars(Resume(p)) /\ SF_vars(Exit(p))

FairSpec == Spec /\ Fairness

\* If all programs terminate then every WaitChild() returns.
EveryWaitReturns ==
  \A p \in User : (pc[p] \in {"specific", "any"}) ~> (pc[p] = "user")

\* If all programs terminate, and from some moment on nobody executes a new
\* one, then init terminates, after all the others, so that the scheduler can
\* shut down.
InitExits ==
  <>[][\A p \in Pid : pstate[p] = "FREE" => pstate'[p] = "FREE"]_vars =>
    <>(pstate[1] = "ZOMBIE")
=============================================================================
