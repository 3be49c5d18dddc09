-------------------------- MODULE SchedulerProofs --------------------------
(***************************************************************************)
(* SchedulerInv is an inductive invariant of the scheduler, for any number *)
(* of threads and cores.                                                   *)
(***************************************************************************)
EXTENDS Scheduler, ListLemmas, FiniteSetTheorems

\* No state is changed: the stacks are those before the step.
LEMMA SameStacks ==
  ASSUME UNCHANGED <<current, prev>>,
         \A d \in Core : pc'[d] = "gain" <=> pc[d] = "gain"
  PROVE  /\ \A d \in Core : Stack(d)' = Stack(d) /\ Held(d)' = Held(d)
         /\ HeldTCB' = HeldTCB
<1>1. \A d \in Core : Stack(d)' = Stack(d)
  BY DEF Stack
<1>2. \A d \in Core : Held(d)' = Held(d)
  BY <1>1 DEF Held
<1> QED BY <1>1, <1>2 DEF HeldTCB

\* The initial states satisfy the invariant.
LEMMA InitInv == Init => SchedulerInv
<1> SUFFICES ASSUME Init PROVE SchedulerInv
  OBVIOUS
<1> USE SchedulerAssumption
<1>1. PICK init \in Thread :
        /\ state = [t \in TCB |-> IF t = init THEN "READY"
                                  ELSE IF t \in Core THEN "INIT" ELSE "NONE"]
        /\ SCHED = <<init>>
  BY DEF Init
<1>2. /\ phase = [t \in TCB |-> "CLEAN"]
      /\ wakeup_time = [t \in TCB |-> NO_TIMEOUT]
      /\ prev = [t \in TCB |-> Nil]
      /\ TIMEOUT_LIST = <<>>
      /\ sched_spinlock = Nil
      /\ curtime = 0
      /\ current_ready = FALSE
      /\ current = [c \in Core |-> c]
      /\ pc = [c \in Core |-> "boot"]
      /\ idle_pc = [c \in Core |-> "idle"]
      /\ halted_list = <<>>
      /\ active_threads = 1
      /\ clock = 0
  BY DEF Init
<1>3. TypeOK
  <2>1. SCHED \in Seq(Thread) /\ TIMEOUT_LIST \in Seq(Thread) /\ halted_list \in Seq(Core)
    BY <1>1, <1>2
  <2>2. state \in [TCB -> State] /\ phase \in [TCB -> {"CLEAN", "DIRTY"}]
    BY <1>1, <1>2 DEF TCB, State
  <2>3. wakeup_time \in [TCB -> Nat \cup {NO_TIMEOUT}] /\ prev \in [TCB -> TCB \cup {Nil}]
    BY <1>2 DEF NO_TIMEOUT
  <2>4. current \in [Core -> TCB] /\ pc \in [Core -> Point] /\ idle_pc \in [Core -> IdlePoint]
    BY <1>2 DEF TCB, Point, IdlePoint
  <2>5. curtime \in Nat /\ active_threads \in Int /\ clock \in Nat
    BY <1>2
  <2>6. sched_spinlock \in Core \cup {Nil} /\ current_ready \in BOOLEAN
    BY <1>2, Zenon
  <2> QED BY <2>1, <2>2, <2>3, <2>4, <2>5, <2>6 DEF TypeOK
<1>4. \A c \in Core : Stack(c) = c /\ Held(c) = {c}
  BY <1>2 DEF Stack, Held
<1>5. HeldTCB = Core
  BY <1>4 DEF HeldTCB
<1>6. \A c \in Core : CoreInv(c)
  BY <1>1, <1>2 DEF CoreInv, TCB, IdlePoint, Interruptible
<1>7. LockInv
  BY <1>2 DEF LockInv
<1>8. \A t \in Thread : ThreadInv(t)
  BY <1>1, <1>2, <1>4, <1>5 DEF ThreadInv, TCB
<1>9. OneCorePerThread
  BY <1>4 DEF OneCorePerThread
<1>10. Range(SCHED) = {init} /\ IsInjective(SCHED)
  BY <1>1 DEF Range, IsInjective
<1>11. ReadyNotLost /\ QueueSound
  BY <1>1, <1>2, <1>5, <1>10 DEF ReadyNotLost, QueueSound, TCB
<1>12. TimeoutListSound
  <2>1. Range(TIMEOUT_LIST) = {} /\ IsInjective(TIMEOUT_LIST)
    BY <1>2 DEF Range, IsInjective
  <2> QED BY <1>2, <2>1 DEF TimeoutListSound
<1> QED BY <1>3, <1>6, <1>7, <1>8, <1>9, <1>11, <1>12 DEF SchedulerInv

\* A step that moves a core between two points outside the scheduler, and
\* changes nothing that the invariant speaks of.
LEMMA MoveInv ==
  ASSUME SchedulerInv, TypeOK', NEW c \in Core, NEW q,
         pc' = [pc EXCEPT ![c] = q],
         \/ pc[c] \in IdlePoint \cup {"halted"} /\ q \in IdlePoint \cup {"halted", "left"}
         \/ pc[c] \in Interruptible /\ q = "yield",
         UNCHANGED <<state, phase, wakeup_time, prev, SCHED, TIMEOUT_LIST,
                     sched_spinlock, current_ready, current>>
  PROVE  SchedulerInv'
<1> USE DEF IdlePoint, Interruptible
<1>1. TypeOK /\ CoreInv(c) /\ pc \in [Core -> Point]
  BY DEF SchedulerInv, TypeOK
<1>2. \A d \in Core : pc'[d] = IF d = c THEN q ELSE pc[d]
  BY <1>1
<1>3. /\ \A d \in Core : Stack(d)' = Stack(d) /\ Held(d)' = Held(d)
      /\ HeldTCB' = HeldTCB
  BY <1>2, SameStacks
<1>4. \A d \in Core : CoreInv(d)'
  <2> SUFFICES ASSUME NEW d \in Core PROVE CoreInv(d)'
    OBVIOUS
  <2>1. CoreInv(d)
    BY DEF SchedulerInv
  <2> QED BY <1>1, <1>2, <2>1 DEF CoreInv
<1>5. LockInv'
  BY <1>2 DEF LockInv, SchedulerInv
<1>6. \A t \in Thread : ThreadInv(t)'
  BY <1>3 DEF ThreadInv, SchedulerInv
<1>7. OneCorePerThread'
  BY <1>3 DEF OneCorePerThread, SchedulerInv
<1>8. ReadyNotLost' /\ QueueSound'
  BY <1>3 DEF ReadyNotLost, QueueSound, SchedulerInv
<1>9. TimeoutListSound'
  BY DEF TimeoutListSound, SchedulerInv
<1> QED BY <1>4, <1>5, <1>6, <1>7, <1>8, <1>9 DEF SchedulerInv

----------------------------------------------------------------------------
\* What sched_queue_add() does to the queue and to the halted cores.
LEMMA QueueAdd ==
  ASSUME TypeOK, NEW t \in Thread, sched_queue_add(t)
  PROVE  /\ SCHED' \in Seq(Thread) /\ halted_list' \in Seq(Core)
         /\ Range(SCHED') = Range(SCHED) \cup {t}
         /\ IsInjective(SCHED) /\ t \notin Range(SCHED) => IsInjective(SCHED')
<1>1. SCHED \in Seq(Thread) /\ halted_list \in Seq(Core)
  BY DEF TypeOK
<1>2. SCHED' = Append(SCHED, t)
  BY DEF sched_queue_add
<1>3. halted_list' \in Seq(Core)
  <2>1. CASE halted_list = <<>>
    BY <1>1, <2>1 DEF sched_queue_add
  <2>2. CASE halted_list # <<>>
    BY <1>1, <2>2, TailLemma DEF sched_queue_add
  <2> QED BY <2>1, <2>2
<1> QED BY <1>1, <1>2, <1>3, AppendLemma

\* What sched_make_ready() does to the lists and to the thread.
LEMMA MakeReady ==
  ASSUME SchedulerInv, NEW t \in Thread, Asleep(t), sched_make_ready(t)
  PROVE  /\ TIMEOUT_LIST' \in Seq(Thread) /\ IsInjective(TIMEOUT_LIST')
         /\ Range(TIMEOUT_LIST') = Range(TIMEOUT_LIST) \ {t}
         /\ wakeup_time' = [wakeup_time EXCEPT ![t] = NO_TIMEOUT]
         /\ state' = [state EXCEPT ![t] = "READY"]
         /\ SCHED' \in Seq(Thread) /\ IsInjective(SCHED')
         /\ halted_list' \in Seq(Core)
         /\ Range(SCHED') = IF phase[t] = "CLEAN" THEN Range(SCHED) \cup {t}
                                                  ELSE Range(SCHED)
<1>1. /\ SCHED \in Seq(Thread) /\ IsInjective(SCHED) /\ halted_list \in Seq(Core)
      /\ TIMEOUT_LIST \in Seq(Thread) /\ IsInjective(TIMEOUT_LIST)
      /\ TypeOK
  BY DEF SchedulerInv, TypeOK, QueueSound, TimeoutListSound
<1>2. wakeup_time[t] # NO_TIMEOUT <=> t \in Range(TIMEOUT_LIST)
  BY DEF SchedulerInv, TimeoutListSound, TCB
<1>3. t \notin Range(SCHED)
  BY DEF SchedulerInv, QueueSound, Asleep
<1>4. /\ TIMEOUT_LIST' \in Seq(Thread) /\ IsInjective(TIMEOUT_LIST')
      /\ Range(TIMEOUT_LIST') = Range(TIMEOUT_LIST) \ {t}
  <2>1. CASE wakeup_time[t] = NO_TIMEOUT
    BY <1>1, <1>2, <2>1 DEF sched_make_ready
  <2>2. CASE wakeup_time[t] # NO_TIMEOUT
    BY <1>1, <1>2, <2>2, RListRemove DEF sched_make_ready
  <2> QED BY <2>1, <2>2
<1>5. /\ SCHED' \in Seq(Thread) /\ IsInjective(SCHED') /\ halted_list' \in Seq(Core)
      /\ Range(SCHED') = IF phase[t] = "CLEAN" THEN Range(SCHED) \cup {t}
                                               ELSE Range(SCHED)
  <2>1. CASE phase[t] = "CLEAN"
    BY <1>1, <1>3, <2>1, QueueAdd DEF sched_make_ready
  <2>2. CASE phase[t] # "CLEAN"
    BY <1>1, <2>2 DEF sched_make_ready
  <2> QED BY <2>1, <2>2
<1> QED BY <1>4, <1>5 DEF sched_make_ready

----------------------------------------------------------------------------
\* A core that the invariant allows to have t as its current thread.
LEMMA CurrentIsDirty ==
  ASSUME SchedulerInv, NEW t \in Thread, Asleep(t), phase[t] = "CLEAN"
  PROVE  t \notin HeldTCB
<1> SUFFICES ASSUME NEW c \in Core, t \in Held(c) PROVE FALSE
  BY DEF HeldTCB
<1>1. Stack(c) # t
  BY DEF SchedulerInv, ThreadInv
<1>2. current[c] = t
  BY <1>1 DEF Held
<1>3. pc[c] = "gain"
  BY <1>1, <1>2 DEF Stack
<1>4. state[t] = "READY"
  BY <1>2, <1>3 DEF SchedulerInv, CoreInv
<1> QED BY <1>4 DEF Asleep

\* A thread is made READY: wakeup(), and the loop of sched_queue_select().
LEMMA ReadyInv ==
  ASSUME SchedulerInv, NEW t \in Thread, Asleep(t), sched_make_ready(t),
         UNCHANGED <<phase, prev, sched_spinlock, locals, current, pc, idle_pc,
                     active_threads, clock>>
  PROVE  SchedulerInv'
<1>1. /\ TIMEOUT_LIST' \in Seq(Thread) /\ IsInjective(TIMEOUT_LIST')
      /\ Range(TIMEOUT_LIST') = Range(TIMEOUT_LIST) \ {t}
      /\ wakeup_time' = [wakeup_time EXCEPT ![t] = NO_TIMEOUT]
      /\ state' = [state EXCEPT ![t] = "READY"]
      /\ SCHED' \in Seq(Thread) /\ IsInjective(SCHED')
      /\ halted_list' \in Seq(Core)
      /\ Range(SCHED') = IF phase[t] = "CLEAN" THEN Range(SCHED) \cup {t}
                                               ELSE Range(SCHED)
  BY MakeReady
<1>2. TypeOK
  BY DEF SchedulerInv
<1>3. TypeOK'
  BY <1>1, <1>2 DEF TypeOK, TCB, State, locals
<1>4. \A u \in TCB : /\ state'[u] = IF u = t THEN "READY" ELSE state[u]
                     /\ wakeup_time'[u] = IF u = t THEN NO_TIMEOUT ELSE wakeup_time[u]
  BY <1>1, <1>2 DEF TypeOK, TCB
<1>5. /\ \A d \in Core : Stack(d)' = Stack(d) /\ Held(d)' = Held(d)
      /\ HeldTCB' = HeldTCB
  BY SameStacks
<1>6. \A d \in Core : CoreInv(d)'
  <2> SUFFICES ASSUME NEW d \in Core PROVE CoreInv(d)'
    OBVIOUS
  <2>1. CoreInv(d) /\ current[d] \in TCB /\ d \in TCB /\ d # t
    BY <1>2, SchedulerAssumption DEF SchedulerInv, TypeOK, TCB
  <2> QED BY <1>4, <2>1 DEF CoreInv, Asleep, locals, Interruptible, IdlePoint
<1>7. LockInv'
  BY DEF LockInv, SchedulerInv
<1>8. OneCorePerThread'
  BY <1>5 DEF OneCorePerThread, SchedulerInv
<1>9. \A u \in Thread : ThreadInv(u)'
  <2> SUFFICES ASSUME NEW u \in Thread PROVE ThreadInv(u)'
    OBVIOUS
  <2>1. ThreadInv(u) /\ u \in TCB
    BY DEF SchedulerInv, TCB
  <2> QED BY <1>4, <1>5, <2>1 DEF ThreadInv
<1>10. phase[t] = "DIRTY" => t \in HeldTCB
  BY DEF SchedulerInv, ThreadInv, HeldTCB, Held
<1>11. phase[t] = "CLEAN" \/ phase[t] = "DIRTY"
  BY <1>2 DEF TypeOK, TCB
<1>12. ReadyNotLost'
  <2> SUFFICES ASSUME NEW u \in Thread, state'[u] = "READY"
               PROVE  u \in Range(SCHED') \cup HeldTCB
    BY <1>5 DEF ReadyNotLost
  <2>1. CASE u = t
    BY <1>1, <1>10, <1>11, <2>1
  <2>2. CASE u # t
    BY <1>1, <1>4, <2>2 DEF SchedulerInv, ReadyNotLost, TCB
  <2> QED BY <2>1, <2>2
<1>13. QueueSound'
  <2> SUFFICES ASSUME NEW u \in Range(SCHED')
               PROVE  state'[u] = "READY" /\ phase[u] = "CLEAN" /\ u \notin HeldTCB
    BY <1>1, <1>5 DEF QueueSound
  <2>1. CASE u = t
    <3>1. phase[t] = "CLEAN"
      BY <1>1, <2>1 DEF SchedulerInv, QueueSound, Asleep
    <3> QED BY <1>4, <2>1, <3>1, CurrentIsDirty DEF TCB
  <2>2. CASE u # t
    <3>1. u \in Range(SCHED)
      BY <1>1, <2>2
    <3>2. u \in TCB
      BY <1>2, <3>1, RangeType DEF TypeOK, TCB
    <3> QED BY <1>4, <2>2, <3>1, <3>2 DEF SchedulerInv, QueueSound
  <2> QED BY <2>1, <2>2
<1>14. TimeoutListSound'
  <2>1. \A u \in TCB : wakeup_time'[u] # NO_TIMEOUT <=> u \in Range(TIMEOUT_LIST')
    BY <1>1, <1>4 DEF SchedulerInv, TimeoutListSound
  <2>2. \A u \in Range(TIMEOUT_LIST') : u \in TCB /\ u # t /\ state[u] = "STOPPED"
    <3>1. Range(TIMEOUT_LIST) \subseteq Thread
      BY <1>2, RangeType DEF TypeOK
    <3> QED BY <1>1, <3>1 DEF SchedulerInv, TimeoutListSound, TCB
  <2> QED BY <1>1, <1>4, <2>1, <2>2 DEF TimeoutListSound
<1> QED BY <1>3, <1>6, <1>7, <1>8, <1>9, <1>12, <1>13, <1>14 DEF SchedulerInv

----------------------------------------------------------------------------
\* spawn_thread() allocates a block that nobody uses.
LEMMA SpawnInv ==
  ASSUME SchedulerInv, NEW c \in Core, NEW t \in Thread, spawn_thread(c, t)
  PROVE  SchedulerInv'
<1>1. /\ state[t] = "NONE"
      /\ state' = [state EXCEPT ![t] = "INIT"]
      /\ phase' = [phase EXCEPT ![t] = "CLEAN"]
      /\ wakeup_time' = [wakeup_time EXCEPT ![t] = NO_TIMEOUT]
      /\ active_threads' = active_threads + 1
      /\ UNCHANGED <<prev, SCHED, TIMEOUT_LIST, halted_list, sched_spinlock,
                     curtime, current_ready, current, pc, idle_pc, clock>>
  BY DEF spawn_thread, queues, locals
<1>2. TypeOK
  BY DEF SchedulerInv
<1>3. TypeOK'
  BY <1>1, <1>2 DEF TypeOK, TCB, State
<1>4. \A u \in TCB : /\ state'[u] = IF u = t THEN "INIT" ELSE state[u]
                     /\ phase'[u] = IF u = t THEN "CLEAN" ELSE phase[u]
                     /\ wakeup_time'[u] = IF u = t THEN NO_TIMEOUT ELSE wakeup_time[u]
  BY <1>1, <1>2 DEF TypeOK, TCB
<1>5. /\ \A d \in Core : Stack(d)' = Stack(d) /\ Held(d)' = Held(d)
      /\ HeldTCB' = HeldTCB
  BY <1>1, SameStacks
<1>6. \A d \in Core : CoreInv(d)'
  <2> SUFFICES ASSUME NEW d \in Core PROVE CoreInv(d)'
    OBVIOUS
  <2>1. CoreInv(d) /\ current[d] \in TCB /\ d \in TCB /\ d # t
    BY <1>2, SchedulerAssumption DEF SchedulerInv, TypeOK, TCB
  <2> QED BY <1>1, <1>4, <2>1 DEF CoreInv, Interruptible, IdlePoint
<1>7. LockInv'
  BY <1>1 DEF LockInv, SchedulerInv
<1>8. OneCorePerThread'
  BY <1>5 DEF OneCorePerThread, SchedulerInv
<1>9. t \notin HeldTCB
  BY <1>1 DEF SchedulerInv, ThreadInv
<1>10. \A u \in Thread : ThreadInv(u)'
  <2> SUFFICES ASSUME NEW u \in Thread PROVE ThreadInv(u)'
    OBVIOUS
  <2>1. ThreadInv(u) /\ u \in TCB
    BY DEF SchedulerInv, TCB
  <2>2. \A d \in Core : Stack(d) # t
    BY <1>9 DEF HeldTCB, Held
  <2> QED BY <1>4, <1>5, <1>9, <2>1, <2>2 DEF ThreadInv
<1>11. ReadyNotLost'
  BY <1>1, <1>4, <1>5 DEF ReadyNotLost, SchedulerInv, TCB
<1>12. Range(SCHED) \subseteq Thread /\ Range(TIMEOUT_LIST) \subseteq Thread
  BY <1>2, RangeType DEF TypeOK
<1>13. QueueSound'
  BY <1>1, <1>4, <1>5, <1>12 DEF QueueSound, SchedulerInv, TCB
<1>14. TimeoutListSound'
  BY <1>1, <1>4, <1>12 DEF TimeoutListSound, SchedulerInv, TCB
<1> QED BY <1>3, <1>6, <1>7, <1>8, <1>10, <1>11, <1>13, <1>14 DEF SchedulerInv

\* What sched_register_timeout() does to the list, for a running thread.
LEMMA RegisterTimeout ==
  ASSUME SchedulerInv, NEW t \in Thread, state[t] = "RUNNING",
         NEW timeout \in Timeouts \cup {NO_TIMEOUT},
         sched_register_timeout(t, timeout)
  PROVE  /\ TIMEOUT_LIST' \in Seq(Thread) /\ IsInjective(TIMEOUT_LIST')
         /\ wakeup_time' \in [TCB -> Nat \cup {NO_TIMEOUT}]
         /\ \A u \in TCB : u # t => wakeup_time'[u] = wakeup_time[u]
         /\ wakeup_time'[t] # NO_TIMEOUT => Range(TIMEOUT_LIST') = Range(TIMEOUT_LIST) \cup {t}
         /\ wakeup_time'[t] = NO_TIMEOUT => Range(TIMEOUT_LIST') = Range(TIMEOUT_LIST)
         /\ t \notin Range(TIMEOUT_LIST)
<1>1. /\ TIMEOUT_LIST \in Seq(Thread) /\ IsInjective(TIMEOUT_LIST)
      /\ wakeup_time \in [TCB -> Nat \cup {NO_TIMEOUT}]
      /\ clock \in Nat
      /\ t \notin Range(TIMEOUT_LIST) /\ wakeup_time[t] = NO_TIMEOUT
      /\ t \in TCB
  BY DEF SchedulerInv, TypeOK, TimeoutListSound, TCB
<1>2. CASE timeout = NO_TIMEOUT
  BY <1>1, <1>2 DEF sched_register_timeout
<1>3. CASE timeout # NO_TIMEOUT
  <2>1. clock + timeout \in Nat /\ clock + timeout # NO_TIMEOUT
    BY <1>1, <1>3, SchedulerAssumption DEF NO_TIMEOUT
  <2>2. /\ wakeup_time' = [wakeup_time EXCEPT ![t] = clock + timeout]
        /\ sched_insert_timeout(t, clock + timeout)
    BY <1>3 DEF sched_register_timeout
  <2>3. PICK n \in 1..(Len(TIMEOUT_LIST) + 1) : TIMEOUT_LIST' = InsertAt(TIMEOUT_LIST, n, t)
    BY <2>2 DEF sched_insert_timeout
  <2>4. /\ TIMEOUT_LIST' \in Seq(Thread) /\ IsInjective(TIMEOUT_LIST')
        /\ Range(TIMEOUT_LIST') = Range(TIMEOUT_LIST) \cup {t}
    BY <1>1, <2>3, InsertAtLemma
  <2> QED BY <1>1, <2>1, <2>2, <2>4
<1> QED BY <1>2, <1>3

\* sleep_releasing(): the thread stays on its core until gain().
LEMMA SleepInv ==
  ASSUME SchedulerInv, NEW c \in Core, NEW s \in {"STOPPED", "EXITED"},
         NEW timeout \in Timeouts \cup {NO_TIMEOUT},
         sleep_releasing(c, s, timeout)
  PROVE  SchedulerInv'
<1> DEFINE t == current[c]
<1>0. TypeOK /\ CoreInv(c)
  BY DEF SchedulerInv
<1>1. /\ pc[c] = "run"
      /\ state' = [state EXCEPT ![t] = s]
      /\ IF s = "EXITED" THEN UNCHANGED <<wakeup_time, TIMEOUT_LIST>>
                         ELSE sched_register_timeout(t, timeout)
      /\ pc' = [pc EXCEPT ![c] = "yield"]
      /\ UNCHANGED <<phase, prev, SCHED, halted_list, sched_spinlock, curtime,
                     current_ready, current, idle_pc, active_threads, clock>>
  BY DEF sleep_releasing, locals
<1>2. t \in Thread /\ state[t] = "RUNNING" /\ t \in TCB
  BY <1>0, <1>1 DEF CoreInv, Interruptible, TCB
<1>3. /\ TIMEOUT_LIST' \in Seq(Thread) /\ IsInjective(TIMEOUT_LIST')
      /\ wakeup_time' \in [TCB -> Nat \cup {NO_TIMEOUT}]
      /\ \A u \in TCB : u # t => wakeup_time'[u] = wakeup_time[u]
      /\ wakeup_time'[t] # NO_TIMEOUT => Range(TIMEOUT_LIST') = Range(TIMEOUT_LIST) \cup {t}
      /\ wakeup_time'[t] = NO_TIMEOUT => Range(TIMEOUT_LIST') = Range(TIMEOUT_LIST)
      /\ t \notin Range(TIMEOUT_LIST)
      /\ s = "EXITED" => wakeup_time'[t] = NO_TIMEOUT
  <2>1. CASE s = "EXITED"
    BY <1>0, <1>1, <1>2, <2>1 DEF SchedulerInv, TypeOK, TimeoutListSound
  <2>2. CASE s # "EXITED"
    <3> HIDE DEF t
    <3>1. sched_register_timeout(t, timeout)
      BY <1>1, <2>2
    <3> QED BY <1>2, <2>2, <3>1, RegisterTimeout
  <2> QED BY <2>1, <2>2
<1> HIDE DEF t
<1>4. TypeOK'
  BY <1>0, <1>1, <1>2, <1>3 DEF TypeOK, State, Point
<1>5. /\ \A u \in TCB : state'[u] = IF u = t THEN s ELSE state[u]
      /\ \A d \in Core : pc'[d] = IF d = c THEN "yield" ELSE pc[d]
  BY <1>0, <1>1, <1>2 DEF TypeOK
<1>6. /\ \A d \in Core : Stack(d)' = Stack(d) /\ Held(d)' = Held(d)
      /\ HeldTCB' = HeldTCB
  BY <1>1, <1>5, SameStacks
<1>7. Stack(c) = t /\ t \in Held(c)
  BY <1>1 DEF Stack, Held, t
<1>8. \A d \in Core : CoreInv(d)'
  <2> SUFFICES ASSUME NEW d \in Core PROVE CoreInv(d)'
    OBVIOUS
  <2>1. CoreInv(d) /\ current[d] \in TCB /\ d \in TCB /\ d # t
    BY <1>0, <1>2, SchedulerAssumption DEF SchedulerInv, TypeOK, TCB
  <2>2. CASE d = c
    BY <1>1, <1>2, <1>5, <2>1, <2>2 DEF CoreInv, t, Interruptible, IdlePoint
  <2>3. CASE d # c
    <3>1. t \notin Held(d)
      BY <1>7, <2>3 DEF SchedulerInv, OneCorePerThread
    <3>2. current[d] # t /\ (pc[d] = "gain" => prev[current[d]] # t)
      BY <3>1 DEF Held, Stack
    <3> QED BY <1>1, <1>5, <2>1, <2>3, <3>2 DEF CoreInv, Interruptible, IdlePoint
  <2> QED BY <2>2, <2>3
<1>9. LockInv'
  BY <1>1, <1>5 DEF LockInv, SchedulerInv
<1>10. OneCorePerThread'
  BY <1>6 DEF OneCorePerThread, SchedulerInv
<1>11. t \in HeldTCB
  BY <1>7 DEF HeldTCB
<1>12. \A u \in Thread : ThreadInv(u)'
  <2> SUFFICES ASSUME NEW u \in Thread PROVE ThreadInv(u)'
    OBVIOUS
  <2>1. ThreadInv(u) /\ u \in TCB
    BY DEF SchedulerInv, TCB
  <2> QED BY <1>1, <1>5, <1>6, <1>11, <2>1 DEF ThreadInv
<1>13. Range(SCHED) \subseteq Thread /\ Range(TIMEOUT_LIST) \subseteq Thread
  BY <1>0, RangeType DEF TypeOK
<1>14. ReadyNotLost' /\ QueueSound'
  BY <1>1, <1>5, <1>6, <1>11, <1>13 DEF ReadyNotLost, QueueSound, SchedulerInv, TCB
<1>15. TimeoutListSound'
  <2>1. \A u \in TCB : wakeup_time'[u] # NO_TIMEOUT <=> u \in Range(TIMEOUT_LIST')
    BY <1>3 DEF SchedulerInv, TimeoutListSound
  <2>2. \A u \in Range(TIMEOUT_LIST') : state'[u] = "STOPPED"
    <3> SUFFICES ASSUME NEW u \in Range(TIMEOUT_LIST') PROVE state'[u] = "STOPPED"
      OBVIOUS
    <3>1. CASE u = t
      BY <1>2, <1>3, <1>5, <3>1
    <3>2. CASE u # t
      BY <1>3, <1>5, <1>13, <3>2 DEF SchedulerInv, TimeoutListSound, TCB
    <3> QED BY <3>1, <3>2
  <2> QED BY <1>3, <2>1, <2>2 DEF TimeoutListSound
<1> QED BY <1>4, <1>8, <1>9, <1>10, <1>12, <1>14, <1>15 DEF SchedulerInv

----------------------------------------------------------------------------
\* run_scheduler() starts the idle thread of the core.
LEMMA RunSchedulerInv ==
  ASSUME SchedulerInv, NEW c \in Core, run_scheduler(c)
  PROVE  SchedulerInv'
<1>0. TypeOK /\ CoreInv(c) /\ c \in TCB /\ c \notin Thread
  BY SchedulerAssumption DEF SchedulerInv, TCB
<1>1. /\ pc[c] = "boot"
      /\ current' = [current EXCEPT ![c] = c]
      /\ state' = [state EXCEPT ![c] = "RUNNING"]
      /\ phase' = [phase EXCEPT ![c] = "DIRTY"]
      /\ wakeup_time' = [wakeup_time EXCEPT ![c] = NO_TIMEOUT]
      /\ pc' = [pc EXCEPT ![c] = "idle_yield"]
      /\ UNCHANGED <<prev, SCHED, TIMEOUT_LIST, halted_list, sched_spinlock, curtime,
                     current_ready, idle_pc, active_threads, clock>>
  BY DEF run_scheduler, queues, locals
<1>2. current[c] = c /\ current' = current
  BY <1>0, <1>1 DEF CoreInv, TypeOK
<1>3. TypeOK'
  BY <1>0, <1>1, <1>2 DEF TypeOK, TCB, State, Point, IdlePoint
<1>4. /\ \A u \in TCB : u # c => /\ state'[u] = state[u]
                                 /\ phase'[u] = phase[u]
                                 /\ wakeup_time'[u] = wakeup_time[u]
      /\ state'[c] = "RUNNING" /\ wakeup_time'[c] = NO_TIMEOUT
      /\ \A d \in Core : pc'[d] = IF d = c THEN "idle_yield" ELSE pc[d]
  BY <1>0, <1>1 DEF TypeOK
<1>5. /\ \A d \in Core : Stack(d)' = Stack(d) /\ Held(d)' = Held(d)
      /\ HeldTCB' = HeldTCB
  BY <1>1, <1>2, <1>4, SameStacks
<1>6. \A d \in Core : CoreInv(d)'
  <2> SUFFICES ASSUME NEW d \in Core PROVE CoreInv(d)'
    OBVIOUS
  <2>1. CoreInv(d) /\ current[d] \in TCB /\ d \in TCB
    BY <1>0 DEF SchedulerInv, TypeOK, TCB
  <2>2. CASE d = c
    BY <1>1, <1>2, <1>4, <2>1, <2>2 DEF CoreInv, Interruptible, IdlePoint
  <2>3. CASE d # c
    <3>1. c \notin Held(d)
      BY <1>0, <2>3 DEF SchedulerInv, OneCorePerThread
    <3>2. current[d] # c /\ (pc[d] = "gain" => prev[current[d]] # c)
      BY <3>1 DEF Held, Stack
    <3> QED BY <1>1, <1>2, <1>4, <2>1, <2>3, <3>2 DEF CoreInv, Interruptible, IdlePoint
  <2> QED BY <2>2, <2>3
<1>7. LockInv'
  BY <1>1, <1>4 DEF LockInv, SchedulerInv
<1>8. OneCorePerThread'
  BY <1>5 DEF OneCorePerThread, SchedulerInv
<1>9. Range(SCHED) \subseteq Thread /\ Range(TIMEOUT_LIST) \subseteq Thread
  BY <1>0, RangeType DEF TypeOK
<1>10. \A u \in Thread : u \in TCB /\ u # c
  BY <1>0 DEF TCB
<1>11. \A u \in Thread : ThreadInv(u)'
  BY <1>4, <1>5, <1>10 DEF ThreadInv, SchedulerInv
<1>12. ReadyNotLost' /\ QueueSound'
  BY <1>1, <1>4, <1>5, <1>9, <1>10 DEF ReadyNotLost, QueueSound, SchedulerInv
<1>13. TimeoutListSound'
  BY <1>0, <1>1, <1>4, <1>9, <1>10 DEF TimeoutListSound, SchedulerInv
<1> QED BY <1>3, <1>6, <1>7, <1>8, <1>11, <1>12, <1>13 DEF SchedulerInv

\* yield() takes the spinlock.
LEMMA YieldInv ==
  ASSUME SchedulerInv, NEW c \in Core, yield(c)
  PROVE  SchedulerInv'
<1> DEFINE t == current[c]
<1>0. TypeOK /\ CoreInv(c) /\ t \in TCB
  BY DEF SchedulerInv, TypeOK
<1>1. /\ pc[c] = "yield"
      /\ sched_spinlock = Nil
      /\ state[t] \in {"RUNNING", "READY", "STOPPED", "EXITED"}
      /\ sched_spinlock' = c
      /\ state' = [state EXCEPT ![t] = yield_state(@)]
      /\ curtime' = clock
      /\ pc' = [pc EXCEPT ![c] = "select"]
      /\ UNCHANGED <<phase, wakeup_time, prev, SCHED, TIMEOUT_LIST, halted_list, current,
                     idle_pc, active_threads, clock>>
  BY DEF yield, queues, Unlocked
<1>2. current_ready' = (state[t] \in {"RUNNING", "READY"})
  BY DEF yield
<1>3. current_ready' \in BOOLEAN
  BY <1>2
<1>4. current_ready' => state[t] \in {"RUNNING", "READY"}
  BY <1>2, Zenon
<1> HIDE DEF t
<1>5. TypeOK'
  BY <1>0, <1>1, <1>3 DEF TypeOK, State, Point, yield_state
<1>6. /\ \A u \in TCB : state'[u] = IF u = t THEN yield_state(state[u]) ELSE state[u]
      /\ \A d \in Core : pc'[d] = IF d = c THEN "select" ELSE pc[d]
  BY <1>0, <1>1 DEF TypeOK
<1>7. /\ \A d \in Core : Stack(d)' = Stack(d) /\ Held(d)' = Held(d)
      /\ HeldTCB' = HeldTCB
  BY <1>1, <1>6, SameStacks
<1>8. Stack(c) = t /\ t \in Held(c) /\ t \in HeldTCB
  BY <1>1 DEF Stack, Held, HeldTCB, t
<1>9. \A d \in Core : pc[d] # "select"
  BY <1>1, SchedulerAssumption DEF LockInv, SchedulerInv
<1>10. \A d \in Core : CoreInv(d)'
  <2> SUFFICES ASSUME NEW d \in Core PROVE CoreInv(d)'
    OBVIOUS
  <2>1. CoreInv(d) /\ current[d] \in TCB /\ d \in TCB
    BY <1>0 DEF SchedulerInv, TypeOK, TCB
  <2>2. CASE d = c
    BY <1>1, <1>4, <1>6, <2>1, <2>2 DEF CoreInv, t, yield_state, Interruptible, IdlePoint
  <2>3. CASE d # c
    <3>1. t \notin Held(d)
      BY <1>8, <2>3 DEF SchedulerInv, OneCorePerThread
    <3>2. current[d] # t /\ (pc[d] = "gain" => prev[current[d]] # t)
      BY <3>1 DEF Held, Stack
    <3>3. d # t
      BY <1>8, <2>3, SchedulerAssumption DEF SchedulerInv, OneCorePerThread
    <3> QED BY <1>1, <1>6, <1>9, <2>1, <2>3, <3>2, <3>3 DEF CoreInv, Interruptible, IdlePoint
  <2> QED BY <2>2, <2>3
<1>11. LockInv'
  BY <1>1, <1>6, <1>9 DEF LockInv, SchedulerInv
<1>12. OneCorePerThread'
  BY <1>7 DEF OneCorePerThread, SchedulerInv
<1>13. Range(SCHED) \subseteq TCB /\ Range(TIMEOUT_LIST) \subseteq TCB
  BY <1>0, RangeType DEF TypeOK, TCB
<1>14. \A u \in Thread : ThreadInv(u)'
  <2> SUFFICES ASSUME NEW u \in Thread PROVE ThreadInv(u)'
    OBVIOUS
  <2>1. ThreadInv(u) /\ u \in TCB
    BY DEF SchedulerInv, TCB
  <2> QED BY <1>1, <1>6, <1>7, <1>8, <2>1 DEF ThreadInv, yield_state
<1>15. ReadyNotLost' /\ QueueSound'
  BY <1>1, <1>6, <1>7, <1>8, <1>13 DEF ReadyNotLost, QueueSound, SchedulerInv, TCB
<1>16. TimeoutListSound'
  BY <1>1, <1>6, <1>13 DEF TimeoutListSound, SchedulerInv, yield_state
<1> QED BY <1>5, <1>10, <1>11, <1>12, <1>14, <1>15, <1>16 DEF SchedulerInv

\* sched_queue_select(): the core switches to the thread it has chosen.
LEMMA SelectInv ==
  ASSUME SchedulerInv, NEW c \in Core, sched_queue_select(c)
  PROVE  SchedulerInv'
<1> DEFINE t == current[c]
           n == NextThread(c)
<1>0. TypeOK /\ CoreInv(c) /\ t \in TCB /\ c \in TCB /\ c \notin Thread
  BY SchedulerAssumption DEF SchedulerInv, TypeOK, TCB
<1>1. /\ pc[c] = "select"
      /\ SCHED' = IF SCHED = <<>> THEN SCHED ELSE Tail(SCHED)
      /\ prev' = [prev EXCEPT ![n] = t]
      /\ current' = [current EXCEPT ![c] = n]
      /\ sched_spinlock' = Nil
      /\ curtime' = 0
      /\ current_ready' = FALSE
      /\ pc' = [pc EXCEPT ![c] = "gain"]
      /\ UNCHANGED <<state, phase, wakeup_time, TIMEOUT_LIST, halted_list, idle_pc,
                     active_threads, clock>>
  BY DEF sched_queue_select
<1>2. /\ SCHED' \in Seq(Thread) /\ IsInjective(SCHED')
      /\ Range(SCHED') \subseteq Range(SCHED) /\ n \notin Range(SCHED')
      /\ Range(SCHED) \subseteq Range(SCHED') \cup {n}
      /\ n \in TCB /\ state[n] = "READY"
      /\ n \in Range(SCHED) \/ n = t \/ n = c
      /\ n \in Thread \cup {c}
  <2>1. SCHED \in Seq(Thread) /\ IsInjective(SCHED) /\ Range(SCHED) \subseteq Thread
    BY <1>0, RangeType DEF TypeOK, SchedulerInv, QueueSound
  <2>2. CASE SCHED # <<>>
    <3>1. n = Head(SCHED) /\ SCHED' = Tail(SCHED)
      BY <1>1, <2>2 DEF NextThread
    <3>2. n \in Range(SCHED)
      BY <2>1, <2>2, <3>1, TailLemma
    <3>3. state[n] = "READY"
      BY <3>2 DEF SchedulerInv, QueueSound
    <3> QED BY <2>1, <2>2, <3>1, <3>2, <3>3, TailLemma DEF TCB
  <2>3. CASE SCHED = <<>>
    <3>1. SCHED' = SCHED /\ Range(SCHED) = {}
      BY <1>1, <2>3 DEF Range
    <3>2. n = IF current_ready THEN t ELSE c
      BY <2>3 DEF NextThread
    <3>3. state[n] = "READY" /\ n \in {t, c}
      BY <1>0, <1>1, <3>2 DEF CoreInv
    <3>4. t \in Thread \cup {c}
      BY DEF SchedulerInv, OneCorePerThread, Held
    <3> QED BY <1>0, <2>1, <3>1, <3>3, <3>4
  <2> QED BY <2>2, <2>3
<1>3. Stack(c) = t /\ t \in Held(c) /\ t \in HeldTCB /\ Held(c) = {t}
  BY <1>1 DEF Stack, Held, HeldTCB
<1> HIDE DEF t, n
<1>4. TypeOK'
  <2>1. current_ready' \in BOOLEAN
    BY <1>1, Zenon
  <2>2. prev' \in [TCB -> TCB \cup {Nil}] /\ current' \in [Core -> TCB]
    BY <1>0, <1>1, <1>2 DEF TypeOK
  <2>3. pc' \in [Core -> Point] /\ sched_spinlock' \in Core \cup {Nil}
    BY <1>0, <1>1 DEF TypeOK, Point
  <2> QED BY <1>0, <1>1, <1>2, <2>1, <2>2, <2>3 DEF TypeOK
<1>5. /\ \A d \in Core : pc'[d] = IF d = c THEN "gain" ELSE pc[d]
      /\ \A d \in Core : current'[d] = IF d = c THEN n ELSE current[d]
      /\ \A u \in TCB : prev'[u] = IF u = n THEN t ELSE prev[u]
  BY <1>0, <1>1, <1>2 DEF TypeOK
<1>6. \A d \in Core : d # c => n \notin Held(d) /\ t \notin Held(d) /\ c \notin Held(d)
  <2> SUFFICES ASSUME NEW d \in Core, d # c
               PROVE  n \notin Held(d) /\ t \notin Held(d) /\ c \notin Held(d)
    OBVIOUS
  <2>1. t \notin Held(d)
    BY <1>3 DEF SchedulerInv, OneCorePerThread
  <2>2. c \notin Held(d)
    BY <1>0 DEF SchedulerInv, OneCorePerThread
  <2>3. n \in Range(SCHED) => n \notin Held(d)
    BY DEF SchedulerInv, QueueSound, HeldTCB
  <2> QED BY <1>2, <2>1, <2>2, <2>3
<1>7. \A d \in Core : d # c => Stack(d)' = Stack(d) /\ Held(d)' = Held(d)
  <2> SUFFICES ASSUME NEW d \in Core, d # c
               PROVE  Stack(d)' = Stack(d) /\ Held(d)' = Held(d)
    OBVIOUS
  <2>1. current[d] # n /\ current[d] \in TCB
    BY <1>0, <1>6 DEF Held, TypeOK
  <2>2. Stack(d)' = Stack(d)
    BY <1>5, <2>1 DEF Stack
  <2> QED BY <1>5, <2>2 DEF Held
<1>8. Stack(c)' = t /\ Held(c)' = {n, t}
  <2>1. Stack(c)' = t
    BY <1>2, <1>5 DEF Stack
  <2> QED BY <1>5, <2>1 DEF Held
<1>9. \A u : u \in HeldTCB' <=> u \in HeldTCB \/ u = n
  <2>1. \A u : u \in HeldTCB <=> \E d \in Core : u \in Held(d)
    BY DEF HeldTCB
  <2>2. \A u : u \in HeldTCB' <=> \E d \in Core : u \in Held(d)'
    BY DEF HeldTCB
  <2>3. \A u : u \in HeldTCB' => u \in HeldTCB \/ u = n
    BY <1>3, <1>7, <1>8, <2>1, <2>2
  <2>4. \A u : u \in HeldTCB \/ u = n => u \in HeldTCB'
    BY <1>3, <1>7, <1>8, <2>1, <2>2
  <2> QED BY <2>3, <2>4
<1>10. \A d \in Core : CoreInv(d)'
  <2> SUFFICES ASSUME NEW d \in Core PROVE CoreInv(d)'
    OBVIOUS
  <2>1. CoreInv(d) /\ current[d] \in TCB /\ d \in TCB
    BY <1>0 DEF SchedulerInv, TypeOK, TCB
  <2>2. CASE d = c
    <3>1. state[c] = "READY"
      BY <1>0, <1>1 DEF CoreInv
    <3>2. state[t] \in {"READY", "STOPPED", "EXITED"}
      BY <1>0, <1>1 DEF CoreInv, t
    <3> QED BY <1>0, <1>1, <1>2, <1>5, <2>2, <3>1, <3>2 DEF CoreInv, Interruptible, IdlePoint
  <2>3. CASE d # c
    <3>1. current[d] # n
      BY <1>6, <2>3 DEF Held
    <3>2. pc[d] # "select"
      BY <1>1, <2>3 DEF SchedulerInv, LockInv
    <3> QED BY <1>1, <1>5, <2>1, <2>3, <3>1, <3>2 DEF CoreInv, Interruptible, IdlePoint
  <2> QED BY <2>2, <2>3
<1>11. LockInv'
  <2>1. \A d \in Core : pc'[d] # "select"
    BY <1>1, <1>5 DEF LockInv, SchedulerInv
  <2> QED BY <1>1, <2>1, SchedulerAssumption DEF LockInv
<1>12. OneCorePerThread'
  <2>1. \A d \in Core : Held(d)' \subseteq Thread \cup {d}
    <3>1. t \in Thread \cup {c}
      BY <1>3 DEF SchedulerInv, OneCorePerThread
    <3> QED BY <1>2, <1>7, <1>8, <3>1 DEF SchedulerInv, OneCorePerThread
  <2>2. \A d, e \in Core : d # e => Held(d)' \cap Held(e)' = {}
    <3> SUFFICES ASSUME NEW d \in Core, NEW e \in Core, d # e, d # c
                 PROVE Held(d)' \cap Held(e)' = {}
      OBVIOUS
    <3>1. CASE e = c
      BY <1>6, <1>7, <1>8, <3>1
    <3>2. CASE e # c
      BY <1>7, <3>2 DEF SchedulerInv, OneCorePerThread
    <3> QED BY <3>1, <3>2
  <2> QED BY <2>1, <2>2 DEF OneCorePerThread
<1>13. \A u \in Thread : ThreadInv(u)'
  <2> SUFFICES ASSUME NEW u \in Thread PROVE ThreadInv(u)'
    OBVIOUS
  <2>1. ThreadInv(u)
    BY DEF SchedulerInv
  <2>2. \A d \in Core : Stack(d)' = Stack(d)
    BY <1>3, <1>7, <1>8
  <2> QED BY <1>1, <1>2, <1>9, <2>1, <2>2 DEF ThreadInv
<1>14. ReadyNotLost'
  BY <1>1, <1>2, <1>9 DEF ReadyNotLost, SchedulerInv
<1>15. QueueSound'
  BY <1>1, <1>2, <1>9 DEF QueueSound, SchedulerInv
<1>16. TimeoutListSound'
  BY <1>1 DEF TimeoutListSound, SchedulerInv
<1> QED BY <1>4, <1>10, <1>11, <1>12, <1>13, <1>14, <1>15, <1>16 DEF SchedulerInv

\* gain(): the previous thread has left its stack.
LEMMA GainInv ==
  ASSUME SchedulerInv, NEW c \in Core, gain(c)
  PROVE  SchedulerInv'
<1> DEFINE t == current[c]
           p == prev[t]
           released == p # t /\ state[p] = "EXITED"
           requeued == p # t /\ state[p] = "READY" /\ p \notin Core
<1>0. TypeOK /\ CoreInv(c) /\ t \in TCB /\ c \in TCB /\ c \notin Thread /\ pc[c] = "gain"
  BY SchedulerAssumption DEF SchedulerInv, TypeOK, TCB, gain
<1>1. /\ state' = [state EXCEPT ![p] = IF released THEN "NONE" ELSE @, ![t] = "RUNNING"]
      /\ phase' = [phase EXCEPT ![p] = "CLEAN", ![t] = "DIRTY"]
      /\ prev' = [prev EXCEPT ![t] = Nil]
      /\ gain_prev(t, p)
      /\ active_threads' = IF released THEN active_threads - 1 ELSE active_threads
      /\ pc' = [pc EXCEPT ![c] = IF t \in Core THEN idle_pc[c] ELSE "run"]
      /\ UNCHANGED <<wakeup_time, TIMEOUT_LIST, sched_spinlock, curtime, current_ready,
                     current, idle_pc, clock>>
  BY DEF gain, locals
<1>2. /\ state[t] = "READY" /\ p \in TCB /\ state[p] \in {"READY", "STOPPED", "EXITED"}
      /\ Stack(c) = p /\ Held(c) = {t, p} /\ t \in Thread \cup {c} /\ p \in Thread \cup {c}
  <2>1. state[t] = "READY" /\ p \in TCB /\ state[p] \in {"READY", "STOPPED", "EXITED"}
    BY <1>0 DEF CoreInv
  <2>2. Stack(c) = p /\ Held(c) = {t, p}
    BY <1>0 DEF Stack, Held
  <2> QED BY <2>1, <2>2 DEF SchedulerInv, OneCorePerThread
<1>3. t \notin Range(SCHED) /\ p \notin Range(SCHED) /\ t \in HeldTCB /\ p \in HeldTCB
  BY <1>2 DEF SchedulerInv, QueueSound, HeldTCB
<1> HIDE DEF t, p
<1>4. /\ SCHED' \in Seq(Thread) /\ IsInjective(SCHED') /\ halted_list' \in Seq(Core)
      /\ Range(SCHED') = IF requeued THEN Range(SCHED) \cup {p} ELSE Range(SCHED)
  <2>1. SCHED \in Seq(Thread) /\ IsInjective(SCHED) /\ halted_list \in Seq(Core)
    BY <1>0 DEF TypeOK, SchedulerInv, QueueSound
  <2>2. CASE requeued
    <3>1. sched_queue_add(p) /\ p \in Thread
      BY <1>1, <1>2, <2>2 DEF gain_prev, TCB
    <3> QED BY <1>0, <1>3, <2>1, <2>2, <3>1, QueueAdd
  <2>3. CASE ~requeued
    BY <1>1, <2>1, <2>3 DEF gain_prev
  <2> QED BY <2>2, <2>3
<1>5. /\ \A u \in TCB : state'[u] = IF u = t THEN "RUNNING"
                                    ELSE IF u = p /\ released THEN "NONE" ELSE state[u]
      /\ \A u \in TCB : phase'[u] = IF u = t THEN "DIRTY"
                                    ELSE IF u = p THEN "CLEAN" ELSE phase[u]
      /\ \A u \in TCB : prev'[u] = IF u = t THEN Nil ELSE prev[u]
      /\ \A d \in Core : d # c => pc'[d] = pc[d]
      /\ pc'[c] = IF t \in Core THEN idle_pc[c] ELSE "run"
      /\ pc'[c] \in Interruptible
  <2>1. \A u \in TCB : state'[u] = IF u = t THEN "RUNNING"
                                   ELSE IF u = p /\ released THEN "NONE" ELSE state[u]
    BY <1>0, <1>1, <1>2 DEF TypeOK
  <2>2. \A u \in TCB : phase'[u] = IF u = t THEN "DIRTY"
                                   ELSE IF u = p THEN "CLEAN" ELSE phase[u]
    BY <1>0, <1>1, <1>2 DEF TypeOK
  <2>3. pc'[c] = (IF t \in Core THEN idle_pc[c] ELSE "run") /\ \A d \in Core : d # c => pc'[d] = pc[d]
    BY <1>0, <1>1 DEF TypeOK
  <2>4. idle_pc[c] \in IdlePoint
    BY <1>0 DEF TypeOK
  <2>5. pc'[c] \in Interruptible
    BY <2>3, <2>4 DEF Interruptible
  <2>6. \A u \in TCB : prev'[u] = IF u = t THEN Nil ELSE prev[u]
    BY <1>0, <1>1 DEF TypeOK
  <2> QED BY <2>1, <2>2, <2>3, <2>5, <2>6
<1>6. TypeOK'
  <2>1. state' \in [TCB -> State] /\ phase' \in [TCB -> {"CLEAN", "DIRTY"}]
    BY <1>0, <1>1, <1>2 DEF TypeOK, State
  <2>2. pc' \in [Core -> Point] /\ prev' \in [TCB -> TCB \cup {Nil}]
    BY <1>0, <1>1 DEF TypeOK, Point
  <2>3. active_threads' \in Int
    BY <1>0, <1>1 DEF TypeOK
  <2> QED BY <1>0, <1>1, <1>4, <2>1, <2>2, <2>3 DEF TypeOK
<1>7. \A d \in Core : d # c => t \notin Held(d) /\ p \notin Held(d) /\ c \notin Held(d)
  BY <1>0, <1>2 DEF SchedulerInv, OneCorePerThread
<1>8. \A d \in Core : d # c => Stack(d)' = Stack(d) /\ Held(d)' = Held(d)
  <2> SUFFICES ASSUME NEW d \in Core, d # c
               PROVE  Stack(d)' = Stack(d) /\ Held(d)' = Held(d)
    OBVIOUS
  <2>1. current[d] # t /\ current[d] \in TCB
    BY <1>0, <1>7 DEF Held, TypeOK
  <2>2. Stack(d)' = Stack(d)
    BY <1>1, <1>5, <2>1 DEF Stack
  <2> QED BY <1>1, <2>2 DEF Held
<1>9. Stack(c)' = t /\ Held(c)' = {t}
  <2>1. pc'[c] # "gain"
    BY <1>5 DEF Interruptible, IdlePoint
  <2>2. Stack(c)' = t
    BY <1>1, <2>1 DEF Stack, t
  <2> QED BY <1>1, <2>2 DEF Held, t
<1>10. \A u : u \in HeldTCB' <=> u \in HeldTCB /\ (u = p => u = t)
  <2>1. \A u : u \in HeldTCB <=> \E d \in Core : u \in Held(d)
    BY DEF HeldTCB
  <2>2. \A u : u \in HeldTCB' <=> \E d \in Core : u \in Held(d)'
    BY DEF HeldTCB
  <2>3. ASSUME NEW u, u \in HeldTCB' PROVE u \in HeldTCB /\ (u = p => u = t)
    BY <1>2, <1>7, <1>8, <1>9, <2>1, <2>2, <2>3
  <2>4. ASSUME NEW u, u \in HeldTCB, u = p => u = t PROVE u \in HeldTCB'
    BY <1>2, <1>8, <1>9, <2>1, <2>2, <2>4
  <2> QED BY <2>3, <2>4
<1>11. \A d \in Core : CoreInv(d)'
  <2> SUFFICES ASSUME NEW d \in Core PROVE CoreInv(d)'
    OBVIOUS
  <2>1. CoreInv(d) /\ current[d] \in TCB /\ d \in TCB
    BY <1>0 DEF SchedulerInv, TypeOK, TCB
  <2>2. CASE d = c
    <3>1. state'[t] = "RUNNING" /\ current'[c] = t
      BY <1>0, <1>1, <1>5 DEF t
    <3>2. pc'[c] = "run" => t \in Thread
      <4>1. t \in Core => idle_pc[c] \in IdlePoint
        BY <1>0 DEF TypeOK
      <4> QED BY <1>0, <1>5, <4>1 DEF TCB, IdlePoint
    <3>3. pc'[c] # "run" => t = c
      BY <1>2, <1>5, SchedulerAssumption
    <3>4. t # c => state'[c] = "READY"
      <4>1. t # c => state[c] = "READY"
        BY <1>0 DEF CoreInv, t
      <4> QED BY <1>0, <1>5, <4>1
    <3> QED BY <1>5, <2>2, <3>1, <3>2, <3>3, <3>4 DEF CoreInv, Interruptible, IdlePoint
  <2>3. CASE d # c
    <3>1. current[d] # t /\ current[d] # p /\ (pc[d] = "gain" => prev[current[d]] \notin {t, p})
      BY <1>7, <2>3 DEF Held, Stack
    <3>2. d # t /\ d # p
      BY <1>2, <2>3, SchedulerAssumption
    <3>3. /\ pc'[d] = pc[d] /\ current'[d] = current[d] /\ current_ready' = current_ready
          /\ prev'[current[d]] = prev[current[d]]
          /\ state'[current[d]] = state[current[d]] /\ state'[d] = state[d]
      BY <1>1, <1>5, <2>1, <2>3, <3>1, <3>2
    <3>4. pc[d] = "gain" => state'[prev[current[d]]] = state[prev[current[d]]]
      <4>1. pc[d] = "gain" => prev[current[d]] \in TCB
        BY <2>1 DEF CoreInv
      <4> QED BY <1>5, <3>1, <4>1
    <3> QED BY <2>1, <3>3, <3>4 DEF CoreInv
  <2> QED BY <2>2, <2>3
<1>12. LockInv'
  <2>1. sched_spinlock # c
    BY <1>0 DEF SchedulerInv, LockInv
  <2>2. pc'[c] # "select"
    BY <1>5 DEF Interruptible, IdlePoint
  <2> QED BY <1>1, <1>5, <2>1, <2>2 DEF SchedulerInv, LockInv
<1>13. OneCorePerThread'
  <2>1. \A d \in Core : Held(d)' \subseteq Held(d)
    BY <1>2, <1>8, <1>9
  <2> QED BY <2>1 DEF SchedulerInv, OneCorePerThread
<1>14. \A u \in Thread : ThreadInv(u)'
  <2> SUFFICES ASSUME NEW u \in Thread PROVE ThreadInv(u)'
    OBVIOUS
  <2>1. ThreadInv(u) /\ u \in TCB
    BY DEF SchedulerInv, TCB
  <2>2. state'[u] \in {"NONE", "INIT"} => u \notin HeldTCB'
    BY <1>5, <1>10, <2>1 DEF ThreadInv
  <2>3. state'[u] \in {"RUNNING", "EXITED"} => u \in HeldTCB'
    BY <1>2, <1>3, <1>5, <1>10, <2>1 DEF ThreadInv
  <2>4. phase'[u] = "DIRTY" <=> \E d \in Core : Stack(d)' = u
    <3>1. CASE u = t
      BY <1>5, <1>9, <2>1, <3>1
    <3>2. CASE u = p /\ u # t
      <4>1. \A d \in Core : d # c => Stack(d) # p
        BY <1>7 DEF Held
      <4> QED BY <1>5, <1>8, <1>9, <2>1, <3>2, <4>1
    <3>3. CASE u # p /\ u # t
      BY <1>2, <1>5, <1>8, <1>9, <2>1, <3>3 DEF ThreadInv
    <3> QED BY <3>1, <3>2, <3>3
  <2> QED BY <2>2, <2>3, <2>4 DEF ThreadInv
<1>15. ReadyNotLost'
  <2> SUFFICES ASSUME NEW u \in Thread, state'[u] = "READY"
               PROVE  u \in Range(SCHED') \cup HeldTCB'
    BY DEF ReadyNotLost
  <2>1. u # t /\ state[u] = "READY" /\ u \notin Core
    BY <1>5, SchedulerAssumption DEF TCB
  <2>2. u \in Range(SCHED) \cup HeldTCB
    BY <2>1 DEF SchedulerInv, ReadyNotLost
  <2> QED BY <1>4, <1>10, <2>1, <2>2
<1>16. QueueSound'
  <2> SUFFICES ASSUME NEW u \in Range(SCHED')
               PROVE  state'[u] = "READY" /\ phase'[u] = "CLEAN" /\ u \notin HeldTCB'
    BY <1>4 DEF QueueSound
  <2>1. CASE u = p /\ requeued
    BY <1>2, <1>5, <1>10, <2>1
  <2>2. CASE ~(u = p /\ requeued)
    <3>1. u \in Range(SCHED)
      BY <1>4, <2>2
    <3>2. u # t /\ u # p
      BY <1>3, <3>1
    <3>3. u \in TCB
      BY <1>0, <3>1, RangeType DEF TypeOK, TCB
    <3> QED BY <1>5, <1>10, <3>1, <3>2, <3>3 DEF SchedulerInv, QueueSound
  <2> QED BY <2>1, <2>2
<1>17. TimeoutListSound'
  <2>1. \A u \in Range(TIMEOUT_LIST) : u \in TCB /\ u # t /\ ~(u = p /\ released)
    <3>1. Range(TIMEOUT_LIST) \subseteq TCB
      BY <1>0, RangeType DEF TypeOK, TCB
    <3> QED BY <1>2, <3>1 DEF SchedulerInv, TimeoutListSound
  <2> QED BY <1>1, <1>5, <2>1 DEF SchedulerInv, TimeoutListSound
<1> QED BY <1>6, <1>11, <1>12, <1>13, <1>14, <1>15, <1>16, <1>17 DEF SchedulerInv

----------------------------------------------------------------------------
\* The steps that change nothing the invariant speaks of but its types.
LEMMA QuietInv ==
  ASSUME SchedulerInv, TypeOK',
         UNCHANGED <<state, phase, wakeup_time, prev, SCHED, TIMEOUT_LIST,
                     sched_spinlock, current_ready, current, pc>>
  PROVE  SchedulerInv'
<1>1. /\ \A d \in Core : Stack(d)' = Stack(d) /\ Held(d)' = Held(d)
      /\ HeldTCB' = HeldTCB
  BY SameStacks
<1>2. (\A d \in Core : CoreInv(d)') /\ LockInv'
  BY DEF CoreInv, LockInv, SchedulerInv
<1>3. \A t \in Thread : ThreadInv(t)'
  BY <1>1 DEF ThreadInv, SchedulerInv
<1>4. OneCorePerThread' /\ ReadyNotLost' /\ QueueSound' /\ TimeoutListSound'
  BY <1>1 DEF OneCorePerThread, ReadyNotLost, QueueSound, TimeoutListSound, SchedulerInv
<1> QED BY <1>2, <1>3, <1>4 DEF SchedulerInv

\* Every step preserves the invariant.
LEMMA StepInv == SchedulerInv /\ [Next]_vars => SchedulerInv'
<1> SUFFICES ASSUME SchedulerInv, [Next]_vars PROVE SchedulerInv'
  OBVIOUS
<1>0. TypeOK
  BY DEF SchedulerInv
<1>1. ASSUME NEW c \in Core, CoreStep(c) PROVE SchedulerInv'
  <2>1. CASE run_scheduler(c)
    BY <2>1, RunSchedulerInv
  <2>2. CASE idle_yield(c)
    <3>1. TypeOK'
      BY <1>0, <2>2 DEF idle_yield, TypeOK, Point, IdlePoint, queues, locals
    <3> QED BY <2>2, <3>1, MoveInv DEF idle_yield, Interruptible, IdlePoint, queues, locals
  <2>3. CASE idle_thread(c)
    <3>1. /\ pc[c] = "idle"
          /\ \E q \in {"halt", "left"} : pc' = [pc EXCEPT ![c] = q]
          /\ halted_list' = halted_list \/ halted_list' = <<>>
          /\ UNCHANGED <<state, phase, wakeup_time, prev, SCHED, TIMEOUT_LIST, sched_spinlock,
                         curtime, current_ready, current, idle_pc, active_threads, clock>>
      BY <2>3 DEF idle_thread, locals
    <3>2. halted_list' \in Seq(Core)
      <4>1. <<>> \in Seq(Core) /\ halted_list \in Seq(Core)
        BY <1>0 DEF TypeOK
      <4> QED BY <3>1, <4>1
    <3>3. TypeOK'
      BY <1>0, <3>1, <3>2 DEF TypeOK, Point, IdlePoint
    <3> QED BY <3>1, <3>3, MoveInv DEF IdlePoint
  <2>4. CASE cpu_core_halt(c)
    <3>1. halted_list' \in Seq(Core)
      <4>1. <<c>> \in Seq(Core) /\ halted_list \in Seq(Core)
        BY <1>0 DEF TypeOK
      <4> QED BY <2>4, <4>1, ConcatLemma DEF cpu_core_halt
    <3>2. TypeOK'
      BY <1>0, <2>4, <3>1 DEF cpu_core_halt, TypeOK, Point, IdlePoint, locals
    <3> QED BY <2>4, <3>2, MoveInv DEF cpu_core_halt, IdlePoint, locals
  <2>5. CASE core_resume(c)
    <3>1. TypeOK'
      BY <1>0, <2>5 DEF core_resume, TypeOK, Point, IdlePoint, queues, locals
    <3> QED BY <2>5, <3>1, MoveInv DEF core_resume, IdlePoint, queues, locals
  <2>6. CASE yield(c)
    BY <2>6, YieldInv
  <2>7. CASE sched_wakeup_expired(c)
    <3>1. TIMEOUT_LIST \in Seq(Thread) /\ TIMEOUT_LIST # <<>>
      BY <1>0, <2>7 DEF TypeOK, sched_wakeup_expired, TimeoutExpired
    <3>2. Head(TIMEOUT_LIST) \in Thread /\ Head(TIMEOUT_LIST) \in Range(TIMEOUT_LIST)
      BY <3>1, TailLemma
    <3>3. Asleep(Head(TIMEOUT_LIST))
      BY <3>2 DEF SchedulerInv, TimeoutListSound, Asleep
    <3> QED BY <2>7, <3>2, <3>3, ReadyInv DEF sched_wakeup_expired
  <2>8. CASE sched_queue_select(c)
    BY <2>8, SelectInv
  <2>9. CASE gain(c)
    BY <2>9, GainInv
  <2> QED BY <1>1, <2>1, <2>2, <2>3, <2>4, <2>5, <2>6, <2>7, <2>8, <2>9 DEF CoreStep
<1>2. ASSUME NEW c \in Core, yield_handler(c) PROVE SchedulerInv'
  <2>1. TypeOK'
    BY <1>0, <1>2 DEF yield_handler, TypeOK, Point, IdlePoint, Interruptible, queues, locals
  <2> QED BY <1>2, <2>1, MoveInv DEF yield_handler, queues, locals
<1>3. ASSUME NEW c \in Core, cpu_core_restart(c) PROVE SchedulerInv'
  <2>1. halted_list' \in Seq(Core)
    <3>1. halted_list \in Seq(Core)
      BY <1>0 DEF TypeOK
    <3> QED BY <1>3, <3>1, RListRemove DEF cpu_core_restart
  <2>2. TypeOK'
    BY <1>0, <1>3, <2>1 DEF cpu_core_restart, TypeOK, locals
  <2> QED BY <1>3, <2>2, QuietInv DEF cpu_core_restart, locals
<1>4. ASSUME NEW c \in Core, NEW t \in Thread, spawn_thread(c, t) PROVE SchedulerInv'
  BY <1>4, SpawnInv
<1>5. ASSUME NEW c \in Core, NEW t \in Thread, wakeup(c, t) PROVE SchedulerInv'
  BY <1>5, ReadyInv DEF wakeup
<1>6. ASSUME NEW c \in Core, NEW timeout \in Timeouts \cup {NO_TIMEOUT},
             sleep_releasing(c, "STOPPED", timeout)
      PROVE  SchedulerInv'
  BY <1>6, SleepInv
<1>7. ASSUME NEW c \in Core, sleep_releasing(c, "EXITED", NO_TIMEOUT) PROVE SchedulerInv'
  BY <1>7, SleepInv
<1>8. ASSUME system_clock PROVE SchedulerInv'
  <2>1. TypeOK'
    BY <1>0, <1>8 DEF system_clock, TypeOK, queues, locals
  <2> QED BY <1>8, <2>1, QuietInv DEF system_clock, queues, locals
<1>9. ASSUME UNCHANGED vars PROVE SchedulerInv'
  <2>1. TypeOK'
    BY <1>0, <1>9 DEF TypeOK, vars
  <2> QED BY <1>9, <2>1, QuietInv DEF vars
<1> QED BY <1>1, <1>2, <1>3, <1>4, <1>5, <1>6, <1>7, <1>8, <1>9 DEF Next, Shutdown

\* The scheduler satisfies its inductive invariant, for any threads and cores.
THEOREM SchedulerCorrect == Spec => []SchedulerInv
BY InitInv, StepInv, PTL DEF Spec

\* sched_make_ready() takes at most one thread out of TIMEOUT_LIST.
LEMMA ReadySorted ==
  ASSUME SchedulerInv, TimeoutsSorted, NEW t \in Thread, sched_make_ready(t)
  PROVE  TimeoutsSorted'
<1>1. /\ TIMEOUT_LIST \in Seq(Thread) /\ IsInjective(TIMEOUT_LIST)
      /\ wakeup_time \in [TCB -> Nat \cup {NO_TIMEOUT}] /\ t \in TCB
      /\ wakeup_time[t] # NO_TIMEOUT <=> t \in Range(TIMEOUT_LIST)
  BY DEF SchedulerInv, TypeOK, TimeoutListSound, TCB
<1>2. /\ wakeup_time' = [wakeup_time EXCEPT ![t] = NO_TIMEOUT]
      /\ TIMEOUT_LIST' = rlist_remove(TIMEOUT_LIST, t)
  BY <1>1 DEF sched_make_ready, rlist_remove
<1>3. Range(TIMEOUT_LIST') = Range(TIMEOUT_LIST) \ {t} /\ Range(TIMEOUT_LIST) \subseteq Thread
  BY <1>1, <1>2, RListRemove, RangeType
<1>4. \A u \in Range(TIMEOUT_LIST') : wakeup_time'[u] = wakeup_time[u]
  BY <1>1, <1>2, <1>3 DEF TCB
<1> SUFFICES ASSUME NEW i \in DOMAIN TIMEOUT_LIST', NEW j \in DOMAIN TIMEOUT_LIST', i < j
             PROVE  wakeup_time'[TIMEOUT_LIST'[i]] <= wakeup_time'[TIMEOUT_LIST'[j]]
  BY DEF TimeoutsSorted
<1>5. PICK k, l \in DOMAIN TIMEOUT_LIST :
             k < l /\ TIMEOUT_LIST[k] = TIMEOUT_LIST'[i] /\ TIMEOUT_LIST[l] = TIMEOUT_LIST'[j]
  BY <1>1, <1>2, RListRemoveOrder
<1>6. TIMEOUT_LIST'[i] \in Range(TIMEOUT_LIST') /\ TIMEOUT_LIST'[j] \in Range(TIMEOUT_LIST')
  BY DEF Range
<1> QED BY <1>4, <1>5, <1>6 DEF TimeoutsSorted

\* sched_register_timeout() inserts a thread before the first one that wakes
\* up later.
LEMMA RegisterSorted ==
  ASSUME SchedulerInv, TimeoutsSorted, NEW t \in Thread, state[t] = "RUNNING",
         NEW timeout \in Timeouts \cup {NO_TIMEOUT}, sched_register_timeout(t, timeout)
  PROVE  TimeoutsSorted'
<1>1. CASE timeout = NO_TIMEOUT
  BY <1>1 DEF sched_register_timeout, TimeoutsSorted
<1>2. CASE timeout # NO_TIMEOUT
  <2> DEFINE L == TIMEOUT_LIST
             w == clock + timeout
  <2>1. /\ L \in Seq(Thread) /\ Len(L) \in Nat /\ DOMAIN L = 1..Len(L)
        /\ wakeup_time \in [TCB -> Nat \cup {NO_TIMEOUT}]
        /\ t \notin Range(L) /\ t \in TCB /\ w \in Nat
        /\ \A u \in Range(L) : u \in TCB /\ wakeup_time[u] \in Nat
    <3>1. L \in Seq(Thread) /\ t \in TCB /\ wakeup_time \in [TCB -> Nat \cup {NO_TIMEOUT}]
      BY DEF SchedulerInv, TypeOK, TCB
    <3>2. Len(L) \in Nat /\ DOMAIN L = 1..Len(L) /\ Range(L) \subseteq Thread
      BY <3>1, LenProperties, RangeType
    <3>3. w \in Nat
      BY <1>2, SchedulerAssumption DEF SchedulerInv, TypeOK
    <3>4. t \notin Range(L)
      BY DEF SchedulerInv, TimeoutListSound
    <3>5. \A u \in Range(L) : u \in TCB /\ wakeup_time[u] \in Nat
      BY <3>1, <3>2 DEF SchedulerInv, TimeoutListSound, TCB
    <3> QED BY <3>1, <3>2, <3>3, <3>4, <3>5
  <2>2. wakeup_time' = [wakeup_time EXCEPT ![t] = w]
    BY <1>2 DEF sched_register_timeout
  <2>3. PICK n \in 1..(Len(L) + 1) :
          /\ \A i \in 1..(n - 1) : wakeup_time[L[i]] <= w
          /\ n <= Len(L) => w < wakeup_time[L[n]]
          /\ L' = InsertAt(L, n, t)
    BY <1>2 DEF sched_register_timeout, sched_insert_timeout
  <2>4. /\ DOMAIN L' = 1..(Len(L) + 1)
        /\ \A i \in 1..(Len(L) + 1) : L'[i] = IF i < n THEN L[i] ELSE IF i = n THEN t ELSE L[i - 1]
    <3> HIDE DEF L
    <3> QED BY <2>1, <2>3, InsertAtElements
  <2>5. \A i \in 1..Len(L) : L[i] # t /\ L[i] \in TCB /\ wakeup_time[L[i]] \in Nat
    BY <2>1 DEF Range
  <2>6. \A i, j \in 1..Len(L) : i < j => wakeup_time[L[i]] <= wakeup_time[L[j]]
    BY <2>1 DEF TimeoutsSorted
  <2> DEFINE v(i) == IF i < n THEN wakeup_time[L[i]] ELSE IF i = n THEN w
                     ELSE wakeup_time[L[i - 1]]
  <2>7. \A i \in 1..(Len(L) + 1) : wakeup_time'[L'[i]] = v(i)
    <3> SUFFICES ASSUME NEW i \in 1..(Len(L) + 1) PROVE wakeup_time'[L'[i]] = v(i)
      OBVIOUS
    <3>1. CASE i < n
      BY <2>1, <2>2, <2>3, <2>4, <2>5, <3>1
    <3>2. CASE i = n
      BY <2>1, <2>2, <2>3, <2>4, <3>2
    <3>3. CASE i > n
      <4>1. i - 1 \in 1..Len(L)
        BY <2>1, <2>3, <3>3
      <4> QED BY <2>1, <2>2, <2>3, <2>4, <2>5, <3>3, <4>1
    <3> QED BY <2>1, <3>1, <3>2, <3>3
  <2>8. \A i \in 1..Len(L) : i >= n => w < wakeup_time[L[i]]
    BY <2>1, <2>3, <2>5, <2>6
  <2>9. \A i, j \in 1..(Len(L) + 1) : i < j => v(i) <= v(j)
    BY <2>1, <2>3, <2>5, <2>6, <2>8
  <2> HIDE DEF v
  <2> QED BY <2>4, <2>7, <2>9 DEF TimeoutsSorted
<1> QED BY <1>1, <1>2

LEMMA SortedStep == SchedulerInv /\ TimeoutsSorted /\ [Next]_vars => TimeoutsSorted'
<1> SUFFICES ASSUME SchedulerInv, TimeoutsSorted, [Next]_vars PROVE TimeoutsSorted'
  OBVIOUS
<1> USE DEF queues, locals
<1>0. /\ TypeOK /\ TIMEOUT_LIST \in Seq(Thread) /\ Thread \subseteq TCB /\ Core \subseteq TCB
      /\ \A u \in Range(TIMEOUT_LIST) : u \in Thread /\ state[u] = "STOPPED"
  <2>1. TypeOK /\ TIMEOUT_LIST \in Seq(Thread)
    BY DEF SchedulerInv, TypeOK
  <2> QED BY <2>1, RangeType DEF SchedulerInv, TimeoutListSound, TCB
<1>1. ASSUME TIMEOUT_LIST' = TIMEOUT_LIST,
             \A u \in Range(TIMEOUT_LIST) : wakeup_time'[u] = wakeup_time[u]
      PROVE  TimeoutsSorted'
  BY <1>1 DEF TimeoutsSorted, Range
<1>2. ASSUME NEW c \in Core, run_scheduler(c) PROVE TimeoutsSorted'
  BY <1>0, <1>1, <1>2, SchedulerAssumption DEF run_scheduler, TypeOK
<1>3. ASSUME NEW c \in Core, sched_wakeup_expired(c) PROVE TimeoutsSorted'
  <2>1. TIMEOUT_LIST # <<>> /\ sched_make_ready(Head(TIMEOUT_LIST))
    BY <1>3 DEF sched_wakeup_expired, TimeoutExpired
  <2>2. Head(TIMEOUT_LIST) \in Thread
    BY <1>0, <2>1, TailLemma
  <2> QED BY <2>1, <2>2, ReadySorted
<1>4. ASSUME NEW c \in Core, NEW t \in Thread, spawn_thread(c, t) PROVE TimeoutsSorted'
  BY <1>0, <1>1, <1>4 DEF spawn_thread, TypeOK
<1>5. ASSUME NEW c \in Core, NEW t \in Thread, wakeup(c, t) PROVE TimeoutsSorted'
  BY <1>5, ReadySorted DEF wakeup
<1>6. ASSUME NEW c \in Core, NEW timeout \in Timeouts \cup {NO_TIMEOUT},
             sleep_releasing(c, "STOPPED", timeout)
      PROVE  TimeoutsSorted'
  <2>1. pc[c] = "run" /\ sched_register_timeout(current[c], timeout)
    BY <1>6 DEF sleep_releasing
  <2>2. current[c] \in Thread /\ state[current[c]] = "RUNNING"
    BY <2>1 DEF SchedulerInv, CoreInv, Interruptible
  <2> QED BY <2>1, <2>2, RegisterSorted
<1>7. ASSUME NEW c \in Core, sleep_releasing(c, "EXITED", NO_TIMEOUT) PROVE TimeoutsSorted'
  BY <1>1, <1>7 DEF sleep_releasing
<1>8. ASSUME NEW c \in Core,
             idle_yield(c) \/ idle_thread(c) \/ cpu_core_halt(c) \/ core_resume(c) \/ yield(c)
             \/ sched_queue_select(c) \/ gain(c) \/ yield_handler(c) \/ cpu_core_restart(c)
      PROVE  TimeoutsSorted'
  BY <1>1, <1>8 DEF idle_yield, idle_thread, cpu_core_halt, core_resume, yield,
     sched_queue_select, gain, yield_handler, cpu_core_restart
<1>9. CASE system_clock \/ UNCHANGED vars
  BY <1>1, <1>9 DEF system_clock, vars
<1> QED BY <1>2, <1>3, <1>4, <1>5, <1>6, <1>7, <1>8, <1>9 DEF Next, CoreStep, Shutdown

LEMMA SortedInit == Init => TimeoutsSorted
BY DEF Init, TimeoutsSorted

\* Consequences, each one a property of yield(), gain() and sched_make_ready():
\* one core per thread, no READY thread lost, a sound queue and a sorted list
\* of timeouts, no assertion fails and no TCB is freed while it is used.
THEOREM SchedulerSafe == Spec => []SchedulerSafety
<1>1. SchedulerInv => OneCorePerThread /\ ReadyNotLost /\ QueueSound /\ TimeoutListSound
  BY DEF SchedulerInv
<1>2. SchedulerInv => AssertionsHold
  BY DEF SchedulerInv, CoreInv, AssertionsHold
<1>3. SchedulerInv => NoUseAfterFree
  BY DEF SchedulerInv, ThreadInv, QueueSound, TimeoutListSound, NoUseAfterFree
<1>4. SchedulerInv /\ TimeoutsSorted => SchedulerSafety
  BY <1>1, <1>2, <1>3 DEF SchedulerSafety
<1>5. Spec => []TimeoutsSorted
  BY SortedInit, SortedStep, SchedulerCorrect, PTL DEF Spec
<1> QED BY <1>4, <1>5, SchedulerCorrect, PTL

\* When sched_queue_select() has found the next thread, nobody is asleep whose
\* time has come: the loop may stop at the first entry in the future.
THEOREM NobodyOversleeps == Spec => SelectWakesExpired
<1> DEFINE Step == \A c \in Core :
                     pc[c] = "select" /\ pc'[c] = "gain" =>
                       \A t \in Thread : wakeup_time[t] # NO_TIMEOUT => wakeup_time[t] > curtime
<1>1. ASSUME SchedulerInv, TimeoutsSorted, [Next]_vars PROVE Step
  <2> SUFFICES ASSUME NEW c \in Core, pc[c] = "select", pc'[c] = "gain",
                      NEW t \in Thread, wakeup_time[t] # NO_TIMEOUT
               PROVE  wakeup_time[t] > curtime
    OBVIOUS
  <2>1. /\ TIMEOUT_LIST \in Seq(Thread) /\ t \in TCB /\ curtime \in Nat
        /\ \A u \in TCB : wakeup_time[u] \in Nat \cup {NO_TIMEOUT}
        /\ pc \in [Core -> Point]
    BY <1>1 DEF SchedulerInv, TypeOK, TCB
  <2>2. t \in Range(TIMEOUT_LIST)
    BY <1>1, <2>1 DEF SchedulerInv, TimeoutListSound
  <2>3. sched_queue_select(c)
    <3>1. pc' # pc
      BY Zenon
    <3>2. PICK d \in Core : \/ CoreStep(d) \/ yield_handler(d)
                            \/ \E newstate \in {"STOPPED", "EXITED"},
                                  timeout \in Timeouts \cup {NO_TIMEOUT} :
                                 sleep_releasing(d, newstate, timeout)
      BY <1>1, <3>1 DEF Next, cpu_core_restart, spawn_thread, wakeup, system_clock, Shutdown, vars
    <3>3. d = c \/ \A l : pc' = [pc EXCEPT ![d] = l] => FALSE
      BY <2>1
    <3>4. \E l : pc' = [pc EXCEPT ![d] = l]
      BY <3>1, <3>2 DEF CoreStep, run_scheduler, idle_yield, idle_thread, cpu_core_halt, core_resume,
         yield, sched_wakeup_expired, sched_queue_select, gain, yield_handler, sleep_releasing
    <3>5. pc[d] = "select"
      BY <3>3, <3>4
    <3>6. sched_wakeup_expired(d) \/ sched_queue_select(d)
      BY <3>2, <3>5 DEF CoreStep, run_scheduler, idle_yield, idle_thread, cpu_core_halt, core_resume,
         yield, gain, yield_handler, sleep_releasing, Interruptible, IdlePoint
    <3> QED BY <3>1, <3>3, <3>4, <3>6 DEF sched_wakeup_expired
  <2>4. ~TimeoutExpired
    BY <2>3 DEF sched_queue_select
  <2>5. PICK i \in DOMAIN TIMEOUT_LIST : TIMEOUT_LIST[i] = t
    BY <2>2 DEF Range
  <2>6. /\ DOMAIN TIMEOUT_LIST = 1..Len(TIMEOUT_LIST) /\ Len(TIMEOUT_LIST) \in Nat
        /\ TIMEOUT_LIST # <<>> /\ Head(TIMEOUT_LIST) = TIMEOUT_LIST[1]
    BY <2>1, <2>5, LenProperties
  <2>7. /\ TIMEOUT_LIST[1] \in Thread /\ 1 \in DOMAIN TIMEOUT_LIST
        /\ TIMEOUT_LIST[1] \in Range(TIMEOUT_LIST)
    BY <2>1, <2>5, <2>6 DEF Range
  <2>8. wakeup_time[TIMEOUT_LIST[1]] \in Nat /\ wakeup_time[t] \in Nat
    BY <1>1, <2>1, <2>7 DEF SchedulerInv, TimeoutListSound, TCB
  <2>9. wakeup_time[TIMEOUT_LIST[1]] > curtime
    BY <2>1, <2>4, <2>6, <2>8 DEF TimeoutExpired
  <2>10. wakeup_time[TIMEOUT_LIST[1]] <= wakeup_time[t]
    <3>1. i = 1 \/ 1 < i
      BY <2>5, <2>6
    <3> QED BY <1>1, <2>5, <2>7, <2>8, <3>1 DEF TimeoutsSorted
  <2> QED BY <2>1, <2>8, <2>9, <2>10
<1>2. Spec => []TimeoutsSorted
  BY SortedInit, SortedStep, SchedulerCorrect, PTL DEF Spec
<1> QED BY <1>1, <1>2, SchedulerCorrect, PTL DEF Spec, SelectWakesExpired

----------------------------------------------------------------------------
(***************************************************************************)
(* The number of threads, and the shutdown.                                *)
(***************************************************************************)
Existing == {t \in Thread : state[t] # "NONE"}

\* A step that neither creates nor frees a thread, and lets no core leave.
LEMMA SameThreads ==
  ASSUME ShutdownSound, UNCHANGED active_threads,
         \A t \in Thread : state'[t] = "NONE" <=> state[t] = "NONE",
         \A c \in Core : pc'[c] = "left" => pc[c] = "left"
  PROVE  ShutdownSound'
<1>1. {t \in Thread : state'[t] # "NONE"} = {t \in Thread : state[t] # "NONE"}
  OBVIOUS
<1>2. active_threads' = Cardinality({t \in Thread : state'[t] # "NONE"})
  BY <1>1 DEF ShutdownSound
<1>3. (\E c \in Core : pc'[c] = "left") => \A t \in Thread : state'[t] = "NONE"
  BY DEF ShutdownSound
<1> QED BY <1>2, <1>3 DEF ShutdownSound

\* The thread that gain() frees is a normal one, which has exited.
LEMMA GainFrees ==
  ASSUME SchedulerInv, NEW c \in Core, pc[c] = "gain", state[prev[current[c]]] = "EXITED"
  PROVE  prev[current[c]] \in Thread /\ prev[current[c]] # current[c]
<1>1. /\ CoreInv(c) /\ Held(c) \subseteq Thread \cup {c}
  BY DEF SchedulerInv, OneCorePerThread
<1>2. prev[current[c]] \in Held(c) /\ current[c] \in Held(c)
  BY DEF Held, Stack
<1>3. prev[current[c]] # current[c]
  BY <1>1 DEF CoreInv
<1>4. prev[current[c]] # c
  BY <1>1, <1>3 DEF CoreInv
<1> QED BY <1>1, <1>2, <1>3, <1>4

\* active_threads is exact, and nobody leaves before it is 0.
LEMMA ShutdownStep ==
  ASSUME SchedulerInv, ShutdownSound, [Next]_vars
  PROVE  ShutdownSound'
<1> USE DEF queues, locals
<1>0. TypeOK /\ (\A c \in Core : CoreInv(c)) /\ IsFiniteSet(Existing)
  <2>1. Existing \subseteq Thread /\ IsFiniteSet(Thread)
    BY SchedulerAssumption DEF Existing
  <2>2. IsFiniteSet(Existing)
    BY <2>1, FS_Subset
  <2> QED BY <2>2 DEF SchedulerInv
<1>1. ASSUME NEW c \in Core, idle_thread(c) PROVE ShutdownSound'
  <2>1. state' = state /\ active_threads' = active_threads
    BY <1>1 DEF idle_thread
  <2>2. CASE SchedulerBusy
    BY <1>0, <1>1, <2>1, <2>2, SameThreads DEF idle_thread, TypeOK
  <2>3. CASE ~SchedulerBusy
    <3>1. active_threads = Cardinality(Existing) /\ ~(active_threads > 0)
      BY <2>3 DEF ShutdownSound, Existing, SchedulerBusy
    <3>2. Cardinality(Existing) = 0
      BY <1>0, <3>1, FS_CardinalityType
    <3>3. Existing = {}
      BY <1>0, <3>2, FS_EmptySet
    <3>4. \A t \in Thread : state[t] = "NONE"
      BY <3>3 DEF Existing
    <3> QED BY <2>1, <3>4 DEF ShutdownSound
  <2> QED BY <2>2, <2>3
<1>2. ASSUME NEW c \in Core, gain(c) PROVE ShutdownSound'
  <2> DEFINE t == current[c]
             p == prev[t]
  <2>1. /\ pc[c] = "gain" /\ p \in TCB /\ t \in TCB /\ state[t] = "READY"
        /\ state' = [state EXCEPT ![p] = IF p # t /\ state[p] = "EXITED" THEN "NONE" ELSE @,
                                  ![t] = "RUNNING"]
        /\ active_threads' = IF p # t /\ state[p] = "EXITED" THEN active_threads - 1
                                                             ELSE active_threads
        /\ pc' = [pc EXCEPT ![c] = IF t \in Core THEN idle_pc[c] ELSE "run"]
    BY <1>0, <1>2 DEF gain, CoreInv, TypeOK
  <2>2. \A d \in Core : pc'[d] = "left" => pc[d] = "left"
    BY <1>0, <2>1 DEF TypeOK, IdlePoint
  <2>3. CASE ~(p # t /\ state[p] = "EXITED")
    <3>1. state' = [state EXCEPT ![p] = @, ![t] = "RUNNING"] /\ active_threads' = active_threads
      BY <2>1, <2>3
    <3> HIDE DEF p
    <3>2. \A u \in TCB : state'[u] = IF u = t THEN "RUNNING" ELSE state[u]
      BY <1>0, <2>1, <3>1 DEF TypeOK
    <3>3. state[t] = "READY"
      BY <2>1
    <3> HIDE DEF t
    <3>4. \A u \in Thread : state'[u] = "NONE" <=> state[u] = "NONE"
      BY <3>2, <3>3 DEF TCB
    <3> QED BY <2>2, <3>1, <3>4, SameThreads
  <2>4. CASE p # t /\ state[p] = "EXITED"
    <3>1. p \in Thread /\ p \in Existing
      BY <2>1, <2>4, GainFrees DEF Existing
    <3>2. \A u \in Thread : state'[u] = "NONE" <=> state[u] = "NONE" \/ u = p
      BY <1>0, <2>1, <2>4 DEF TypeOK, TCB
    <3>3. {u \in Thread : state'[u] # "NONE"} = Existing \ {p}
      BY <3>2 DEF Existing
    <3> HIDE DEF p
    <3>4. Cardinality(Existing \ {p}) = Cardinality(Existing) - 1
      BY <1>0, <3>1, FS_RemoveElement
    <3>5. active_threads = Cardinality(Existing) /\ active_threads' = active_threads - 1
      BY <2>1, <2>4 DEF ShutdownSound, Existing
    <3>6. active_threads' = Cardinality({u \in Thread : state'[u] # "NONE"})
      BY <3>3, <3>4, <3>5
    <3>7. (\E d \in Core : pc'[d] = "left") => \A u \in Thread : state'[u] = "NONE"
      BY <2>2, <3>2 DEF ShutdownSound
    <3> QED BY <3>6, <3>7 DEF ShutdownSound
  <2> QED BY <2>3, <2>4
<1>3. ASSUME NEW c \in Core, NEW t \in Thread, spawn_thread(c, t) PROVE ShutdownSound'
  <2>1. /\ pc[c] = "run" /\ state[t] = "NONE" /\ state' = [state EXCEPT ![t] = "INIT"]
        /\ active_threads' = active_threads + 1 /\ pc' = pc
    BY <1>3 DEF spawn_thread
  <2>2. current[c] \in Thread /\ state[current[c]] = "RUNNING"
    BY <1>0, <2>1 DEF CoreInv, Interruptible
  <2>3. \A d \in Core : pc[d] # "left"
    BY <2>2 DEF ShutdownSound
  <2>4. {u \in Thread : state'[u] # "NONE"} = Existing \cup {t}
    BY <1>0, <2>1 DEF TypeOK, TCB, Existing
  <2>5. t \notin Existing
    BY <2>1 DEF Existing
  <2>6. Cardinality(Existing \cup {t}) = Cardinality(Existing) + 1
    BY <1>0, <2>5, FS_AddElement
  <2>7. active_threads = Cardinality(Existing)
    BY DEF ShutdownSound, Existing
  <2>8. active_threads' = Cardinality({u \in Thread : state'[u] # "NONE"})
    BY <2>1, <2>4, <2>6, <2>7
  <2> QED BY <2>1, <2>3, <2>8 DEF ShutdownSound
<1>4. ASSUME NEW t \in Thread, Asleep(t), sched_make_ready(t), UNCHANGED <<pc, active_threads>>
      PROVE  ShutdownSound'
  <2>1. state' = [state EXCEPT ![t] = "READY"] /\ state[t] # "NONE"
    BY <1>4 DEF sched_make_ready, Asleep
  <2>2. \A u \in Thread : state'[u] = "NONE" <=> state[u] = "NONE"
    BY <1>0, <2>1 DEF TypeOK, TCB
  <2> QED BY <1>4, <2>2, SameThreads
<1>5. ASSUME NEW c \in Core, sched_wakeup_expired(c) PROVE ShutdownSound'
  <2> DEFINE t == Head(TIMEOUT_LIST)
  <2>1. TIMEOUT_LIST \in Seq(Thread) /\ TIMEOUT_LIST # <<>>
    BY <1>0, <1>5 DEF sched_wakeup_expired, TimeoutExpired, TypeOK
  <2>2. t \in Thread /\ t \in Range(TIMEOUT_LIST)
    BY <2>1, TailLemma
  <2>3. Asleep(t)
    BY <2>2 DEF SchedulerInv, TimeoutListSound, Asleep
  <2>4. sched_make_ready(t) /\ UNCHANGED <<pc, active_threads>>
    BY <1>5 DEF sched_wakeup_expired
  <2> QED BY <1>4, <2>2, <2>3, <2>4
<1>6. ASSUME NEW c \in Core, NEW t \in Thread, wakeup(c, t) PROVE ShutdownSound'
  BY <1>4, <1>6 DEF wakeup
<1>7. ASSUME NEW c \in Core, NEW s \in {"STOPPED", "EXITED"}, NEW timeout,
             sleep_releasing(c, s, timeout)
      PROVE  ShutdownSound'
  <2>1. /\ pc[c] = "run" /\ state' = [state EXCEPT ![current[c]] = s]
        /\ pc' = [pc EXCEPT ![c] = "yield"] /\ active_threads' = active_threads
    BY <1>7 DEF sleep_releasing
  <2>2. state[current[c]] = "RUNNING"
    BY <1>0, <2>1 DEF CoreInv, Interruptible
  <2>3. \A u \in Thread : state'[u] = "NONE" <=> state[u] = "NONE"
    BY <1>0, <2>1, <2>2 DEF TypeOK, TCB
  <2>4. \A d \in Core : pc'[d] = "left" => pc[d] = "left"
    BY <1>0, <2>1 DEF TypeOK
  <2> QED BY <2>1, <2>3, <2>4, SameThreads
<1>8. ASSUME NEW c \in Core, yield(c) \/ run_scheduler(c) PROVE ShutdownSound'
  <2>1. /\ \A d \in Core : pc'[d] = "left" => pc[d] = "left"
        /\ active_threads' = active_threads
    BY <1>0, <1>8 DEF TypeOK, yield, run_scheduler
  <2>2. \A u \in Thread : state'[u] = "NONE" <=> state[u] = "NONE"
    <3>1. CASE yield(c)
      BY <1>0, <3>1 DEF TypeOK, TCB, yield, yield_state
    <3>2. CASE run_scheduler(c)
      BY <1>0, <3>2, SchedulerAssumption DEF TypeOK, TCB, run_scheduler
    <3> QED BY <1>8, <3>1, <3>2
  <2> QED BY <2>1, <2>2, SameThreads
<1>9. ASSUME NEW c \in Core,
             \/ idle_yield(c) \/ cpu_core_halt(c) \/ core_resume(c) \/ sched_queue_select(c)
             \/ yield_handler(c) \/ cpu_core_restart(c)
      PROVE  ShutdownSound'
  <2>1. state' = state /\ active_threads' = active_threads
    BY <1>9 DEF idle_yield, cpu_core_halt, core_resume, sched_queue_select, yield_handler,
       cpu_core_restart
  <2>2. \A d \in Core : pc'[d] = "left" => pc[d] = "left"
    BY <1>0, <1>9 DEF TypeOK, idle_yield, cpu_core_halt, core_resume, sched_queue_select,
       yield_handler, cpu_core_restart
  <2> QED BY <2>1, <2>2, SameThreads
<1>10. ASSUME system_clock \/ UNCHANGED vars PROVE ShutdownSound'
  <2>1. state' = state /\ active_threads' = active_threads /\ pc' = pc
    BY <1>10 DEF system_clock, vars
  <2> QED BY <2>1, SameThreads
<1>11. ASSUME NEW c \in Core, CoreStep(c) PROVE ShutdownSound'
  BY <1>1, <1>2, <1>5, <1>8, <1>9, <1>11 DEF CoreStep
<1> QED BY <1>3, <1>6, <1>7, <1>9, <1>10, <1>11 DEF Next, Shutdown

\* active_threads counts the threads that exist, and a core leaves
\* run_scheduler() only when there are none (spawn_thread(), gain(),
\* idle_thread()).
THEOREM ShutdownCorrect == Spec => []ShutdownSound
<1>1. Init => ShutdownSound
  <2>1. SUFFICES ASSUME Init PROVE ShutdownSound
    OBVIOUS
  <2>2. PICK init \in Thread :
          state = [t \in TCB |-> IF t = init THEN "READY" ELSE IF t \in Core THEN "INIT" ELSE "NONE"]
    BY <2>1 DEF Init
  <2>3. {t \in Thread : state[t] # "NONE"} = {init}
    BY <2>2, SchedulerAssumption DEF TCB
  <2>4. Cardinality({init}) = 1
    BY FS_Singleton
  <2>5. active_threads = 1 /\ \A c \in Core : pc[c] # "left"
    BY <2>1 DEF Init
  <2> QED BY <2>3, <2>4, <2>5 DEF ShutdownSound
<1>2. SchedulerInv /\ ShutdownSound /\ [Next]_vars => ShutdownSound'
  BY ShutdownStep
<1> QED BY <1>1, <1>2, SchedulerCorrect, PTL DEF Spec

----------------------------------------------------------------------------
(***************************************************************************)
(* The scheduler implements ThreadService.                                 *)
(***************************************************************************)
status == [t \in Thread |-> Status(state[t])]
cpu == [c \in Core |-> IF pc[c] = "run" THEN current[c] ELSE Nil]
off == {c \in Core : pc[c] = "left"}

LEMMA StatusValues ==
  /\ Status("NONE") = "none" /\ Status("EXITED") = "exited"
  /\ Status("INIT") = "blocked" /\ Status("STOPPED") = "blocked"
  /\ Status("READY") = "runnable" /\ Status("RUNNING") = "runnable"
BY DEF Status

\* A step that ThreadService does not see.
LEMMA UnseenStep ==
  ASSUME status' = status, cpu' = cpu, off' = off
  PROVE  UNCHANGED Service!svars
BY DEF Service!svars, status, cpu, off

\* A core moves between points at which it executes no normal thread.
LEMMA MoveStep ==
  ASSUME TypeOK, NEW c \in Core, NEW q, pc' = [pc EXCEPT ![c] = q],
         pc[c] \notin {"run", "left"}, q \notin {"run", "left"},
         \A d \in Core : d # c => current'[d] = current[d]
  PROVE  cpu' = cpu /\ off' = off
<1>1. \A d \in Core : pc'[d] = IF d = c THEN q ELSE pc[d]
  BY DEF TypeOK
<1> QED BY <1>1 DEF cpu, off

\* wakeup(), and the loop of sched_queue_select(): a blocked thread is awakened.
LEMMA WakeStep ==
  ASSUME TypeOK, NEW t \in Thread, Asleep(t), sched_make_ready(t), UNCHANGED <<pc, current>>
  PROVE  Service!SNext
<1>1. state' = [state EXCEPT ![t] = "READY"] /\ Status(state[t]) = "blocked"
  BY StatusValues DEF sched_make_ready, Asleep
<1>2. status' = [status EXCEPT ![t] = "runnable"] /\ status[t] = "blocked"
  BY <1>1, StatusValues DEF status, TypeOK, TCB
<1>3. cpu' = cpu /\ off' = off
  BY DEF cpu, off
<1>4. Service!Wake(t)
  BY <1>2, <1>3 DEF Service!Wake, status, cpu, off
<1> QED BY <1>4 DEF Service!SNext

\* A normal thread that a core uses in gain() is executed by no core.
LEMMA NotExecuting ==
  ASSUME SchedulerInv, NEW c \in Core, pc[c] = "gain", NEW t \in Held(c) \cap Thread
  PROVE  ~Service!Executing(t)
<1>1. SUFFICES ASSUME NEW d \in Core, (IF pc[d] = "run" THEN current[d] ELSE Nil) = t
               PROVE  FALSE
  BY DEF Service!Executing
<1>2. pc[d] = "run" /\ current[d] = t /\ d # c
  BY <1>1, SchedulerAssumption
<1>3. t \in Held(d)
  BY <1>2 DEF Held
<1> QED BY <1>2, <1>3 DEF SchedulerInv, OneCorePerThread

\* gain() starts a thread, and may free the one that ran before.
LEMMA GainStep ==
  ASSUME SchedulerInv, NEW c \in Core, gain(c)
  PROVE  [Service!SNext]_(Service!svars)
<1> DEFINE t == current[c]
           p == prev[t]
           released == p # t /\ state[p] = "EXITED"
<1>0. TypeOK /\ CoreInv(c)
  BY DEF SchedulerInv
<1>1. /\ pc[c] = "gain" /\ p \in TCB /\ t \in TCB /\ state[t] = "READY"
      /\ state' = [state EXCEPT ![p] = IF released THEN "NONE" ELSE @, ![t] = "RUNNING"]
      /\ pc' = [pc EXCEPT ![c] = IF t \in Core THEN idle_pc[c] ELSE "run"]
      /\ current' = current
  BY <1>0 DEF gain, CoreInv, TypeOK
<1>2. off' = off /\ c \notin off
  BY <1>0, <1>1 DEF off, TypeOK, IdlePoint
<1>3. cpu[c] = Nil /\ cpu' = IF t \in Core THEN cpu ELSE [cpu EXCEPT ![c] = t]
  BY <1>0, <1>1 DEF cpu, TypeOK, IdlePoint
<1>4. t \in Held(c) /\ p \in Held(c)
  BY <1>1 DEF Held, Stack
<1>5. t \in Thread => status[t] = "runnable" /\ ~Service!Executing(t)
  BY <1>1, <1>4, NotExecuting, StatusValues DEF status
<1>6. CASE ~released
  <2>1. state' = [state EXCEPT ![p] = @, ![t] = "RUNNING"]
    BY <1>1, <1>6
  <2>2. \A u \in TCB : state'[u] = IF u = t THEN "RUNNING" ELSE state[u]
    <3> HIDE DEF p
    <3> QED BY <1>0, <1>1, <2>1 DEF TypeOK
  <2>3. state[t] = "READY" /\ Thread \subseteq TCB
    BY <1>1 DEF TCB
  <2>4. \A u \in Thread : Status(state'[u]) = Status(state[u])
    <3> HIDE DEF t
    <3> QED BY <2>2, <2>3, StatusValues
  <2>5. status' = status
    BY <2>4 DEF status
  <2>6. CASE t \in Core
    BY <1>2, <1>3, <2>5, <2>6, UnseenStep
  <2>7. CASE t \notin Core
    <3>1. t \in Thread
      BY <1>1, <2>7 DEF TCB
    <3>2. PICK u \in Thread : u = t
      BY <3>1
    <3>3. Service!Dispatch(c, u)
      BY <1>2, <1>3, <1>5, <2>5, <2>7, <3>2 DEF Service!Dispatch, status, cpu, off
    <3> QED BY <3>3 DEF Service!SNext
  <2> QED BY <2>6, <2>7
<1>7. CASE released
  <2>1. p \in Thread /\ p # t /\ state[p] = "EXITED"
    BY <1>1, <1>7, GainFrees
  <2>2. \A u \in TCB : state'[u] = IF u = t THEN "RUNNING" ELSE IF u = p THEN "NONE" ELSE state[u]
    <3>1. state' = [state EXCEPT ![p] = "NONE", ![t] = "RUNNING"]
      BY <1>1, <1>7
    <3> HIDE DEF p, t
    <3> QED BY <1>0, <1>1, <2>1, <3>1 DEF TypeOK
  <2>3. state[t] = "READY" /\ Thread \subseteq TCB
    BY <1>1 DEF TCB
  <2>4. \A u \in Thread : Status(state'[u]) = IF u = p THEN "none" ELSE Status(state[u])
    <3> HIDE DEF p, t
    <3> QED BY <2>1, <2>2, <2>3, StatusValues
  <2>5. status' = [status EXCEPT ![p] = "none"] /\ status[p] = "exited"
    <3>1. status[p] = "exited"
      BY <2>1, StatusValues DEF status
    <3> HIDE DEF p, t
    <3> QED BY <2>1, <2>4, <3>1 DEF status
  <2>6. ~Service!Executing(p)
    BY <1>1, <1>4, <2>1, NotExecuting
  <2>7. cpu' = cpu \/ \E d \in Core, u \in Thread :
                         /\ cpu[d] = Nil /\ d \notin off /\ status[u] = "runnable"
                         /\ ~Service!Executing(u) /\ cpu' = [cpu EXCEPT ![d] = u]
    <3>1. CASE t \in Core
      BY <1>3, <3>1
    <3>2. CASE t \notin Core
      <4>1. t \in Thread
        BY <1>1, <3>2 DEF TCB
      <4> QED BY <1>2, <1>3, <1>5, <3>2, <4>1
    <3> QED BY <3>1, <3>2
  <2>8. PICK w \in Thread : w = p
    BY <2>1
  <2>9. Service!Reap(w)
    <3> HIDE DEF p, t
    <3> QED BY <1>2, <2>5, <2>6, <2>7, <2>8 DEF Service!Reap, status, cpu, off
  <2>10. Service!SNext
    BY <2>9 DEF Service!SNext
  <2> QED BY <2>10
<1> QED BY <1>6, <1>7

LEMMA ServiceStep ==
  ASSUME SchedulerInv, ShutdownSound, [Next]_vars
  PROVE  [Service!SNext]_(Service!svars)
<1> USE DEF queues, locals
<1>0. TypeOK /\ (\A c \in Core : CoreInv(c)) /\ Thread \subseteq TCB
  BY DEF SchedulerInv, TCB
<1>1. ASSUME NEW c \in Core, NEW t \in Thread, spawn_thread(c, t) PROVE Service!SNext
  <2>1. /\ pc[c] = "run" /\ state[t] = "NONE" /\ state' = [state EXCEPT ![t] = "INIT"]
        /\ pc' = pc /\ current' = current
    BY <1>1 DEF spawn_thread
  <2>2. current[c] \in Thread
    BY <1>0, <2>1 DEF CoreInv
  <2>3. Service!Executing(current[c])
    BY <2>1 DEF Service!Executing
  <2>4. status[t] = "none" /\ status' = [status EXCEPT ![t] = "blocked"]
    BY <1>0, <2>1, StatusValues DEF status, TypeOK
  <2>5. cpu' = cpu /\ off' = off
    BY <2>1 DEF cpu, off
  <2>6. Service!Create(t)
    BY <2>2, <2>3, <2>4, <2>5 DEF Service!Create, status, cpu, off
  <2> QED BY <2>6 DEF Service!SNext
<1>2. ASSUME NEW c \in Core, NEW t \in Thread, wakeup(c, t) PROVE Service!SNext
  BY <1>0, <1>2, WakeStep DEF wakeup
<1>3. ASSUME NEW c \in Core, sched_wakeup_expired(c) PROVE Service!SNext
  <2> DEFINE t == Head(TIMEOUT_LIST)
  <2>1. TIMEOUT_LIST \in Seq(Thread) /\ TIMEOUT_LIST # <<>>
    BY <1>0, <1>3 DEF sched_wakeup_expired, TimeoutExpired, TypeOK
  <2>2. t \in Thread /\ t \in Range(TIMEOUT_LIST)
    BY <2>1, TailLemma
  <2>3. Asleep(t)
    BY <2>2 DEF SchedulerInv, TimeoutListSound, Asleep
  <2>4. sched_make_ready(t) /\ UNCHANGED <<pc, current>>
    BY <1>3 DEF sched_wakeup_expired
  <2> QED BY <1>0, <2>2, <2>3, <2>4, WakeStep
<1>4. ASSUME NEW c \in Core, NEW s \in {"STOPPED", "EXITED"}, NEW timeout,
             sleep_releasing(c, s, timeout)
      PROVE  Service!SNext
  <2>1. /\ pc[c] = "run" /\ state' = [state EXCEPT ![current[c]] = s]
        /\ pc' = [pc EXCEPT ![c] = "yield"] /\ current' = current
    BY <1>4 DEF sleep_releasing
  <2>2. current[c] \in Thread /\ cpu[c] = current[c]
    BY <1>0, <2>1 DEF CoreInv, cpu
  <2>3. status' = [status EXCEPT ![current[c]] = Status(s)]
    BY <1>0, <2>1, <2>2 DEF status, TypeOK
  <2>4. Status(s) \in {"blocked", "exited"}
    BY StatusValues
  <2>5. cpu' = [cpu EXCEPT ![c] = Nil] /\ off' = off
    BY <1>0, <2>1 DEF TypeOK, cpu, off
  <2>6. Service!Stop(c, Status(s))
    BY <2>2, <2>3, <2>5 DEF Service!Stop, status, cpu, off
  <2> QED BY <2>4, <2>6 DEF Service!SNext
<1>5. ASSUME NEW c \in Core, yield_handler(c) PROVE [Service!SNext]_(Service!svars)
  <2>1. /\ pc[c] \in Interruptible /\ pc' = [pc EXCEPT ![c] = "yield"]
        /\ state' = state /\ current' = current
    BY <1>5 DEF yield_handler
  <2>2. status' = status
    BY <2>1 DEF status
  <2>3. CASE pc[c] = "run"
    <3>1. current[c] \in Thread /\ cpu[c] = current[c]
      BY <1>0, <2>3 DEF CoreInv, cpu
    <3>2. cpu' = [cpu EXCEPT ![c] = Nil] /\ off' = off
      BY <1>0, <2>1, <2>3 DEF TypeOK, cpu, off
    <3>3. Service!Preempt(c)
      BY <2>2, <3>1, <3>2 DEF Service!Preempt, status, cpu, off
    <3> QED BY <3>3 DEF Service!SNext
  <2>4. CASE pc[c] # "run"
    <3>1. pc[c] \notin {"run", "left"}
      BY <2>1, <2>4 DEF Interruptible, IdlePoint
    <3>2. cpu' = cpu /\ off' = off
      BY <1>0, <2>1, <3>1, MoveStep
    <3> QED BY <2>2, <3>2, UnseenStep
  <2> QED BY <2>3, <2>4
<1>6. ASSUME NEW c \in Core, idle_thread(c) PROVE [Service!SNext]_(Service!svars)
  <2>1. pc[c] = "idle" /\ state' = state /\ current' = current
    BY <1>6 DEF idle_thread
  <2>2. status' = status
    BY <2>1 DEF status
  <2>3. CASE SchedulerBusy
    <3>1. pc' = [pc EXCEPT ![c] = "halt"]
      BY <1>6, <2>3 DEF idle_thread
    <3>2. cpu' = cpu /\ off' = off
      BY <1>0, <2>1, <3>1, MoveStep
    <3> QED BY <2>2, <3>2, UnseenStep
  <2>4. CASE ~SchedulerBusy
    <3>1. pc' = [pc EXCEPT ![c] = "left"]
      BY <1>6, <2>4 DEF idle_thread
    <3>2. cpu' = cpu /\ off' = off \cup {c}
      BY <1>0, <2>1, <3>1 DEF TypeOK, cpu, off
    <3>3. \A t \in Thread : state[t] = "NONE"
      <4>1. ShutdownSound'
        BY ShutdownStep
      <4>2. pc'[c] = "left"
        BY <1>0, <3>1 DEF TypeOK
      <4> QED BY <2>1, <4>1, <4>2 DEF ShutdownSound
    <3>4. \A t \in Thread : status[t] = "none"
      BY <3>3, StatusValues DEF status
    <3>5. Service!PowerOff(c)
      BY <2>2, <3>2, <3>4 DEF Service!PowerOff, status, cpu, off
    <3> QED BY <3>5 DEF Service!SNext
  <2> QED BY <2>3, <2>4
<1>7. ASSUME NEW c \in Core, yield(c) \/ run_scheduler(c) PROVE UNCHANGED Service!svars
  <2>1. \A t \in Thread : Status(state'[t]) = Status(state[t])
    <3>1. CASE yield(c)
      <4>1. state' = [state EXCEPT ![current[c]] = yield_state(@)]
        BY <3>1 DEF yield
      <4> QED BY <1>0, <4>1, StatusValues DEF TypeOK, yield_state
    <3>2. CASE run_scheduler(c)
      BY <1>0, <3>2, SchedulerAssumption DEF TypeOK, TCB, run_scheduler
    <3> QED BY <1>7, <3>1, <3>2
  <2>2. status' = status
    BY <2>1 DEF status
  <2>3. /\ pc[c] \in {"yield", "boot"} /\ \A d \in Core : d # c => current'[d] = current[d]
        /\ pc' = [pc EXCEPT ![c] = "select"] \/ pc' = [pc EXCEPT ![c] = "idle_yield"]
    BY <1>0, <1>7 DEF TypeOK, yield, run_scheduler
  <2>4. cpu' = cpu /\ off' = off
    BY <1>0, <2>3, MoveStep
  <2> QED BY <2>2, <2>4, UnseenStep
<1>8. ASSUME NEW c \in Core,
             idle_yield(c) \/ cpu_core_halt(c) \/ core_resume(c) \/ sched_queue_select(c)
      PROVE  UNCHANGED Service!svars
  <2>1. /\ state' = state /\ pc[c] \notin {"run", "left"}
        /\ \E q : pc' = [pc EXCEPT ![c] = q] /\ q \notin {"run", "left"}
        /\ \A d \in Core : d # c => current'[d] = current[d]
    BY <1>0, <1>8 DEF TypeOK, idle_yield, cpu_core_halt, core_resume, sched_queue_select
  <2>2. cpu' = cpu /\ off' = off
    BY <1>0, <2>1, MoveStep
  <2> QED BY <2>1, <2>2, UnseenStep DEF status
<1>9. ASSUME (\E c \in Core : cpu_core_restart(c)) \/ system_clock \/ UNCHANGED vars
      PROVE  UNCHANGED Service!svars
  <2>1. state' = state /\ pc' = pc /\ current' = current
    BY <1>9 DEF cpu_core_restart, system_clock, vars
  <2> QED BY <2>1, UnseenStep DEF status, cpu, off
<1>10. ASSUME NEW c \in Core, CoreStep(c) PROVE [Service!SNext]_(Service!svars)
  BY <1>3, <1>6, <1>7, <1>8, <1>10, GainStep DEF CoreStep
<1> QED BY <1>1, <1>2, <1>4, <1>5, <1>9, <1>10 DEF Next, Shutdown

\* The scheduler implements ThreadService: a thread is executed only when it is
\* runnable, by one core, an exited one is freed once, after it has left its
\* core, and cores are switched off when no thread exists.
THEOREM SchedulerServes == Spec => ImplementsThreadService
<1>1. Init => Service!SInit
  <2>1. SUFFICES ASSUME Init PROVE Service!SInit
    OBVIOUS
  <2>2. PICK init \in Thread :
          state = [t \in TCB |-> IF t = init THEN "READY" ELSE IF t \in Core THEN "INIT" ELSE "NONE"]
    BY <2>1 DEF Init
  <2>3. status = [t \in Thread |-> IF t = init THEN "runnable" ELSE "none"]
    BY <2>2, SchedulerAssumption, StatusValues DEF status, TCB
  <2>4. pc = [c \in Core |-> "boot"]
    BY <2>1 DEF Init
  <2>5. cpu = [c \in Core |-> Nil] /\ off = {}
    BY <2>4 DEF cpu, off
  <2> QED BY <2>3, <2>5 DEF Service!SInit, status, cpu, off
<1>2. SchedulerInv /\ ShutdownSound /\ [Next]_vars => [Service!SNext]_(Service!svars)
  BY ServiceStep
<1> QED BY <1>1, <1>2, SchedulerCorrect, ShutdownCorrect, PTL
    DEF Spec, ImplementsThreadService, Service!SSpec
=============================================================================
