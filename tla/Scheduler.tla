----------------------------- MODULE Scheduler -----------------------------
(***************************************************************************)
(* The multicore preemptive scheduler of TinyOS 3 (kernel_sched.c).        *)
(*                                                                         *)
(* Each core runs one thread at a time.  A core is either executing the    *)
(* code of its current thread, or walking through the scheduler:           *)
(* yield() -> sched_queue_select() -> context switch -> gain().  All the   *)
(* shared scheduler data is protected by sched_spinlock; a step below is   *)
(* a critical section of that lock, or one iteration of the loop in        *)
(* sched_queue_select() while the lock stays held.  Between two steps the  *)
(* other cores run freely: this is where a thread can be awakened after it *)
(* decided to sleep and before it left its core.                           *)
(*                                                                         *)
(* A TCB is named by an element of Thread (normal threads; an element is a *)
(* memory block that may be freed and allocated again) or by an element of *)
(* Core (the idle_thread embedded in the core's CCB).                      *)
(***************************************************************************)
EXTENDS Integers, Sequences, FiniteSets, Functions, SequencesExt, RList

CONSTANTS
  Thread,     \* memory blocks for the TCBs of normal threads
  Core,       \* the cores; core c also names the idle thread of c
  Timeouts,   \* the timeouts that sleepers may ask for, in clock units
  MaxClock,   \* bound on the clock
  Nil         \* the NULL pointer

ASSUME SchedulerAssumption ==
  /\ Thread \cap Core = {}
  /\ Nil \notin Thread \cup Core
  /\ Timeouts \subseteq Nat
  /\ MaxClock \in Nat
  /\ IsFiniteSet(Thread)

TCB == Thread \cup Core

\* (TimerDuration)-1 in the code: larger than every clock value.
NO_TIMEOUT == -1

VARIABLES
  state,          \* tcb->state; "NONE" for a block that is not allocated
  phase,          \* tcb->phase
  wakeup_time,    \* tcb->wakeup_time
  prev,           \* tcb->prev, from yield() to gain(); Nil when it is dead
  SCHED,          \* the scheduler queue
  TIMEOUT_LIST,   \* the sleeping threads with a timeout
  sched_spinlock, \* the core holding the spinlock between two steps, or Nil
  curtime,        \* local of sched_queue_select(), for the lock holder
  current_ready,  \* local of yield(), for the lock holder
  current,        \* CURTHREAD of each core
  pc,             \* where each core is
  idle_pc,        \* where the idle thread of each core resumes after yield()
  halted_list,    \* the halted cores, most recent first
  active_threads, \* number of existing normal threads
  clock           \* bios_clock()

queues == <<SCHED, TIMEOUT_LIST, halted_list>>
locals == <<curtime, current_ready>>
vars == <<state, phase, wakeup_time, prev, SCHED, TIMEOUT_LIST, sched_spinlock,
          curtime, current_ready, current, pc, idle_pc, halted_list,
          active_threads, clock>>

State == {"NONE", "INIT", "READY", "RUNNING", "STOPPED", "EXITED"}

(***************************************************************************)
(* Control points of a core:                                               *)
(*   boot       before run_scheduler()                                     *)
(*   run        executing its current, normal, thread                      *)
(*   idle_yield the idle thread is at one of its calls yield(SCHED_IDLE)   *)
(*   idle       the idle thread is at the test of its loop                 *)
(*   halt       the idle thread is about to call cpu_core_halt()           *)
(*   halted     inside cpu_core_halt(), waiting on core->halt_cond         *)
(*   yield      inside yield(), before the spinlock                        *)
(*   select     inside sched_queue_select(), holding the spinlock          *)
(*   gain       the context has been switched, before gain()'s spinlock    *)
(*   left       run_scheduler() has returned                               *)
(***************************************************************************)
IdlePoint == {"idle_yield", "idle", "halt"}
Point == IdlePoint \cup {"boot", "run", "halted", "yield", "select", "gain", "left"}

\* Interrupts are enabled at these points: the core may run a handler there.
Interruptible == IdlePoint \cup {"run"}

Unlocked == sched_spinlock = Nil

----------------------------------------------------------------------------
(***************************************************************************)
(* boot_tinyos_kernel(): core 0 has executed the boot task's Exec, which   *)
(* spawned and awakened the main thread of process 1, and every core has   *)
(* passed the barrier that precedes run_scheduler().                       *)
(***************************************************************************)
Init ==
  \E init \in Thread :
    /\ state = [t \in TCB |-> IF t = init THEN "READY"
                              ELSE IF t \in Core THEN "INIT" ELSE "NONE"]
    /\ phase = [t \in TCB |-> "CLEAN"]
    /\ wakeup_time = [t \in TCB |-> NO_TIMEOUT]
    /\ prev = [t \in TCB |-> Nil]
    /\ SCHED = <<init>>
    /\ TIMEOUT_LIST = <<>>
    /\ sched_spinlock = Nil
    /\ curtime = 0
    /\ current_ready = FALSE
    /\ current = [c \in Core |-> c]
    /\ pc = [c \in Core |-> "boot"]
    /\ idle_pc = [c \in Core |-> "idle"]
    /\ halted_list = <<>>
    /\ active_threads = 1
    /\ clock = 0

\* run_scheduler(): set up the CCB and enter idle_thread().
run_scheduler(c) ==
  /\ pc[c] = "boot"
  /\ current' = [current EXCEPT ![c] = c]
  /\ state' = [state EXCEPT ![c] = "RUNNING"]
  /\ phase' = [phase EXCEPT ![c] = "DIRTY"]
  /\ wakeup_time' = [wakeup_time EXCEPT ![c] = NO_TIMEOUT]
  /\ pc' = [pc EXCEPT ![c] = "idle_yield"]
  /\ UNCHANGED <<prev, queues, sched_spinlock, locals, idle_pc, active_threads, clock>>

----------------------------------------------------------------------------
(***************************************************************************)
(* Helpers that the code calls with sched_spinlock held.                   *)
(***************************************************************************)

\* Append to the queue and restart one halted core, if any.
sched_queue_add(t) ==
  /\ SCHED' = Append(SCHED, t)
  /\ halted_list' = IF halted_list = <<>> THEN <<>> ELSE Tail(halted_list)

\* Mutant: the list is not kept sorted.
sched_insert_timeout_unsorted(t, w) == TIMEOUT_LIST' = Append(TIMEOUT_LIST, t)

\* Insert t before the first entry with a later wakeup time w.
sched_insert_timeout(t, w) ==
  \E n \in 1..(Len(TIMEOUT_LIST) + 1) :
    /\ \A i \in 1..(n - 1) : wakeup_time[TIMEOUT_LIST[i]] <= w
    /\ n <= Len(TIMEOUT_LIST) => w < wakeup_time[TIMEOUT_LIST[n]]
    /\ TIMEOUT_LIST' = InsertAt(TIMEOUT_LIST, n, t)

sched_register_timeout(t, timeout) ==
  IF timeout = NO_TIMEOUT
  THEN UNCHANGED <<wakeup_time, TIMEOUT_LIST>>
  ELSE /\ wakeup_time' = [wakeup_time EXCEPT ![t] = clock + timeout]
       /\ sched_insert_timeout(t, clock + timeout)

\* Mutant: a thread that has not left its core yet is queued.
sched_make_ready_dirty(t) ==
  /\ TIMEOUT_LIST' = IF wakeup_time[t] = NO_TIMEOUT THEN TIMEOUT_LIST
                     ELSE rlist_remove(TIMEOUT_LIST, t)
  /\ wakeup_time' = [wakeup_time EXCEPT ![t] = NO_TIMEOUT]
  /\ state' = [state EXCEPT ![t] = "READY"]
  /\ sched_queue_add(t)

\* Mutant: the thread stays in TIMEOUT_LIST.
sched_make_ready_timed(t) ==
  /\ state' = [state EXCEPT ![t] = "READY"]
  /\ IF phase[t] = "CLEAN" THEN sched_queue_add(t)
                           ELSE UNCHANGED <<SCHED, halted_list>>
  /\ UNCHANGED <<wakeup_time, TIMEOUT_LIST>>

\* A thread whose context is dirty is still on its core: gain() queues it.
sched_make_ready(t) ==
  /\ TIMEOUT_LIST' = IF wakeup_time[t] = NO_TIMEOUT THEN TIMEOUT_LIST
                     ELSE rlist_remove(TIMEOUT_LIST, t)
  /\ wakeup_time' = [wakeup_time EXCEPT ![t] = NO_TIMEOUT]
  /\ state' = [state EXCEPT ![t] = "READY"]
  /\ IF phase[t] = "CLEAN" THEN sched_queue_add(t)
                           ELSE UNCHANGED <<SCHED, halted_list>>

----------------------------------------------------------------------------
(***************************************************************************)
(* What the code running on a core asks of the scheduler.                  *)
(***************************************************************************)

\* spawn_thread(): a running thread creates another one.
spawn_thread(c, t) ==
  /\ pc[c] = "run"
  /\ state[t] = "NONE"
  /\ state' = [state EXCEPT ![t] = "INIT"]
  /\ phase' = [phase EXCEPT ![t] = "CLEAN"]
  /\ wakeup_time' = [wakeup_time EXCEPT ![t] = NO_TIMEOUT]
  /\ active_threads' = active_threads + 1
  /\ UNCHANGED <<prev, queues, sched_spinlock, locals, current, pc, idle_pc, clock>>

\* Mutant: a thread that has exited is awakened.
Asleep_exited(t) == state[t] \in {"STOPPED", "INIT", "EXITED"}

Asleep(t) == state[t] \in {"STOPPED", "INIT"}

\* wakeup(): called by a thread, or by an interrupt handler on any core.
\* Otherwise it returns 0 and changes nothing.
wakeup(c, t) ==
  /\ pc[c] \in Interruptible
  /\ Unlocked
  /\ Asleep(t)
  /\ sched_make_ready(t)
  /\ UNCHANGED <<phase, prev, sched_spinlock, locals, current, pc, idle_pc,
                 active_threads, clock>>

\* sleep_releasing(), up to its call of yield().
sleep_releasing(c, newstate, timeout) ==
  LET t == current[c] IN
  /\ pc[c] = "run"
  /\ Unlocked
  /\ timeout # NO_TIMEOUT => clock + timeout <= MaxClock
  /\ state' = [state EXCEPT ![t] = newstate]
  /\ IF newstate = "EXITED" THEN UNCHANGED <<wakeup_time, TIMEOUT_LIST>>
                            ELSE sched_register_timeout(t, timeout)
  /\ pc' = [pc EXCEPT ![c] = "yield"]
  /\ UNCHANGED <<phase, prev, SCHED, halted_list, sched_spinlock, locals, current,
                 idle_pc, active_threads, clock>>

\* A thread calls yield(), or yield_handler() does on an ALARM interrupt,
\* which may also hit the idle thread; that one resumes where it was.
yield_handler(c) ==
  /\ pc[c] \in Interruptible
  /\ pc' = [pc EXCEPT ![c] = "yield"]
  /\ idle_pc' = [idle_pc EXCEPT ![c] = IF pc[c] = "run" THEN @ ELSE pc[c]]
  /\ UNCHANGED <<state, phase, wakeup_time, prev, queues, sched_spinlock, locals,
                 current, active_threads, clock>>

----------------------------------------------------------------------------
(***************************************************************************)
(* The way through the scheduler.                                          *)
(***************************************************************************)

\* Mutants: the thread is not marked READY; its TCB is freed too early.
yield_state_unmarked(s) == s
yield_state_freed(s) == IF s = "RUNNING" THEN "READY"
                        ELSE IF s = "EXITED" THEN "NONE" ELSE s

\* The switch of yield(): what becomes of the state s of the current thread.
yield_state(s) == IF s = "RUNNING" THEN "READY" ELSE s

\* yield(): take the spinlock and see whether the current thread stays ready.
yield(c) ==
  LET t == current[c] IN
  /\ pc[c] = "yield"
  /\ Unlocked
  /\ state[t] \in {"RUNNING", "READY", "STOPPED", "EXITED"}
  /\ sched_spinlock' = c
  /\ state' = [state EXCEPT ![t] = yield_state(@)]
  /\ current_ready' = (state[t] \in {"RUNNING", "READY"})
  /\ curtime' = clock
  /\ pc' = [pc EXCEPT ![c] = "select"]
  /\ UNCHANGED <<phase, wakeup_time, prev, queues, current, idle_pc,
                 active_threads, clock>>

\* Mutant: a timeout has expired only when the clock has passed it.
TimeoutExpired_strict ==
  /\ TIMEOUT_LIST # <<>>
  /\ wakeup_time[Head(TIMEOUT_LIST)] < curtime

TimeoutExpired ==
  /\ TIMEOUT_LIST # <<>>
  /\ wakeup_time[Head(TIMEOUT_LIST)] <= curtime

\* sched_queue_select(), one iteration of the loop over TIMEOUT_LIST.
sched_wakeup_expired(c) ==
  /\ pc[c] = "select"
  /\ TimeoutExpired
  /\ sched_make_ready(Head(TIMEOUT_LIST))
  /\ UNCHANGED <<phase, prev, sched_spinlock, locals, current, pc, idle_pc,
                 active_threads, clock>>

\* The thread yield() switches to.
NextThread(c) ==
  IF SCHED # <<>> THEN Head(SCHED)
  ELSE IF current_ready THEN current[c] ELSE c

\* The end of sched_queue_select() and of yield(), up to gain().
sched_queue_select(c) ==
  LET next == NextThread(c) IN
  /\ pc[c] = "select"
  /\ ~TimeoutExpired
  /\ SCHED' = IF SCHED = <<>> THEN SCHED ELSE Tail(SCHED)
  /\ prev' = [prev EXCEPT ![next] = current[c]]
  /\ current' = [current EXCEPT ![c] = next]
  /\ sched_spinlock' = Nil
  /\ curtime' = 0
  /\ current_ready' = FALSE
  /\ pc' = [pc EXCEPT ![c] = "gain"]
  /\ UNCHANGED <<state, phase, wakeup_time, TIMEOUT_LIST, halted_list, idle_pc,
                 active_threads, clock>>

\* Mutants: a READY thread is not queued; a thread that goes on is queued.
gain_prev_dropped(t, p) == UNCHANGED <<SCHED, halted_list>>
gain_prev_always(t, p) ==
  IF state[p] = "READY" /\ p \notin Core
  THEN sched_queue_add(p) ELSE UNCHANGED <<SCHED, halted_list>>

\* The READY case of gain(): t runs, p was preempted or awakened meanwhile.
gain_prev(t, p) ==
  IF p # t /\ state[p] = "READY" /\ p \notin Core
  THEN sched_queue_add(p) ELSE UNCHANGED <<SCHED, halted_list>>

\* gain(): start the time slice, and take care of the previous thread p,
\* which has left its stack only now.
gain(c) ==
  LET t == current[c]
      p == prev[t]
      released == p # t /\ state[p] = "EXITED"
  IN
  /\ pc[c] = "gain"
  /\ Unlocked
  /\ state' = [state EXCEPT ![p] = IF released THEN "NONE" ELSE @, ![t] = "RUNNING"]
  /\ phase' = [phase EXCEPT ![p] = "CLEAN", ![t] = "DIRTY"]
  /\ prev' = [prev EXCEPT ![t] = Nil]
  /\ gain_prev(t, p)
  /\ active_threads' = IF released THEN active_threads - 1 ELSE active_threads
  /\ pc' = [pc EXCEPT ![c] = IF t \in Core THEN idle_pc[c] ELSE "run"]
  /\ UNCHANGED <<wakeup_time, TIMEOUT_LIST, sched_spinlock, locals, current, idle_pc, clock>>

----------------------------------------------------------------------------
(***************************************************************************)
(* The idle thread.                                                        *)
(***************************************************************************)

\* A call yield(SCHED_IDLE) of idle_thread().
idle_yield(c) ==
  /\ pc[c] = "idle_yield"
  /\ pc' = [pc EXCEPT ![c] = "yield"]
  /\ idle_pc' = [idle_pc EXCEPT ![c] = "idle"]
  /\ UNCHANGED <<state, phase, wakeup_time, prev, queues, sched_spinlock, locals,
                 current, active_threads, clock>>

\* Mutants: off by one, in both directions.
SchedulerBusy_early == active_threads > 1
SchedulerBusy_late == active_threads >= 0

SchedulerBusy == active_threads > 0

\* The test of the loop of idle_thread(); a core that leaves restarts the others.
idle_thread(c) ==
  /\ pc[c] = "idle"
  /\ IF SchedulerBusy
     THEN /\ pc' = [pc EXCEPT ![c] = "halt"]
          /\ UNCHANGED halted_list
     ELSE /\ pc' = [pc EXCEPT ![c] = "left"]
          /\ halted_list' = <<>>
  /\ UNCHANGED <<state, phase, wakeup_time, prev, SCHED, TIMEOUT_LIST, sched_spinlock,
                 locals, current, idle_pc, active_threads, clock>>

cpu_core_halt(c) ==
  /\ pc[c] = "halt"
  /\ pc' = [pc EXCEPT ![c] = "halted"]
  /\ halted_list' = <<c>> \o halted_list
  /\ UNCHANGED <<state, phase, wakeup_time, prev, SCHED, TIMEOUT_LIST, sched_spinlock,
                 locals, current, idle_pc, active_threads, clock>>

\* cpu_core_halt() returns once the core is not in halted_list any more.
core_resume(c) ==
  /\ pc[c] = "halted"
  /\ c \notin Range(halted_list)
  /\ pc' = [pc EXCEPT ![c] = "idle_yield"]
  /\ UNCHANGED <<state, phase, wakeup_time, prev, queues, sched_spinlock, locals,
                 current, idle_pc, active_threads, clock>>

----------------------------------------------------------------------------
(***************************************************************************)
(* The machine: the PIC restarts a halted core with an interrupt (at least *)
(* the ALARM that gain() has armed), and time passes.                      *)
(***************************************************************************)
cpu_core_restart(c) ==
  /\ c \in Range(halted_list)
  /\ halted_list' = rlist_remove(halted_list, c)
  /\ UNCHANGED <<state, phase, wakeup_time, prev, SCHED, TIMEOUT_LIST, sched_spinlock,
                 locals, current, pc, idle_pc, active_threads, clock>>

system_clock ==
  /\ clock < MaxClock
  /\ clock' = clock + 1
  /\ UNCHANGED <<state, phase, wakeup_time, prev, queues, sched_spinlock, locals,
                 current, pc, idle_pc, active_threads>>

\* Every core has left the scheduler: boot() returns.
Shutdown ==
  /\ \A c \in Core : pc[c] = "left"
  /\ UNCHANGED vars

CoreStep(c) ==
  \/ run_scheduler(c)
  \/ idle_yield(c)
  \/ idle_thread(c)
  \/ cpu_core_halt(c)
  \/ core_resume(c)
  \/ yield(c)
  \/ sched_wakeup_expired(c)
  \/ sched_queue_select(c)
  \/ gain(c)

Next ==
  \/ \E c \in Core :
       \/ CoreStep(c)
       \/ yield_handler(c)
       \/ cpu_core_restart(c)
       \/ \E t \in Thread : spawn_thread(c, t) \/ wakeup(c, t)
       \/ \E timeout \in Timeouts \cup {NO_TIMEOUT} :
            sleep_releasing(c, "STOPPED", timeout)
       \/ sleep_releasing(c, "EXITED", NO_TIMEOUT)
  \/ system_clock
  \/ Shutdown

Spec == Init /\ [][Next]_vars

----------------------------------------------------------------------------
(***************************************************************************)
(* The stacks.  Core c executes on the stack of Stack(c); from the switch  *)
(* of contexts until gain() has run, the previous thread counts as being   *)
(* on its stack still.  Held(c) are the TCBs that c is using.              *)
(***************************************************************************)
Stack(c) == IF pc[c] = "gain" THEN prev[current[c]] ELSE current[c]
Held(c) == {current[c], Stack(c)}
HeldTCB == UNION {Held(c) : c \in Core}

TypeOK ==
  /\ state \in [TCB -> State]
  /\ phase \in [TCB -> {"CLEAN", "DIRTY"}]
  /\ wakeup_time \in [TCB -> Nat \cup {NO_TIMEOUT}]
  /\ prev \in [TCB -> TCB \cup {Nil}]
  /\ SCHED \in Seq(Thread)
  /\ TIMEOUT_LIST \in Seq(Thread)
  /\ sched_spinlock \in Core \cup {Nil}
  /\ curtime \in Nat
  /\ current_ready \in BOOLEAN
  /\ current \in [Core -> TCB]
  /\ pc \in [Core -> Point]
  /\ idle_pc \in [Core -> IdlePoint]
  /\ halted_list \in Seq(Core)
  /\ active_threads \in Int
  /\ clock \in Nat

\* No TCB is used by two cores, not even during a context switch, and the
\* idle thread of a core never runs on another core: two cores never run on
\* one stack (yield(), gain()).
OneCorePerThread ==
  /\ \A c \in Core : Held(c) \subseteq Thread \cup {c}
  /\ \A c, d \in Core : c # d => Held(c) \cap Held(d) = {}

\* A READY thread is never lost: it is in the scheduler queue, or a core is
\* still using it and will look at its state in yield() or in gain().  This
\* is what the phase test of sched_make_ready() and the READY case of gain()
\* achieve together.
ReadyNotLost ==
  \A t \in Thread : state[t] = "READY" => t \in Range(SCHED) \cup HeldTCB

\* A queued thread is READY, has a clean context, is used by no core and is
\* queued once: a core may switch to it at once (sched_queue_add()).
QueueSound ==
  /\ IsInjective(SCHED)
  /\ \A t \in Range(SCHED) :
       state[t] = "READY" /\ phase[t] = "CLEAN" /\ t \notin HeldTCB

\* TIMEOUT_LIST holds exactly the threads with a wakeup time, once each, and
\* all of them sleep: the shared list node of a TCB is never in two lists
\* (sched_register_timeout(), sched_make_ready()).
TimeoutListSound ==
  /\ IsInjective(TIMEOUT_LIST)
  /\ \A t \in TCB : wakeup_time[t] # NO_TIMEOUT <=> t \in Range(TIMEOUT_LIST)
  /\ \A t \in Range(TIMEOUT_LIST) : state[t] = "STOPPED"

\* TIMEOUT_LIST is in the order of the wakeup times (sched_register_timeout()).
TimeoutsSorted ==
  \A i, j \in DOMAIN TIMEOUT_LIST :
    i < j => wakeup_time[TIMEOUT_LIST[i]] <= wakeup_time[TIMEOUT_LIST[j]]

\* The assertions of yield(), gain(), run_scheduler() and sched_make_ready().
AssertionsHold ==
  \A c \in Core :
    /\ pc[c] = "yield" =>
         state[current[c]] \in {"RUNNING", "READY", "STOPPED", "EXITED"}
    /\ pc[c] = "gain" /\ prev[current[c]] # current[c] =>
         state[prev[current[c]]] \in {"READY", "STOPPED", "EXITED"}
    /\ pc[c] = "left" => current[c] = c

\* A core uses, and the queues hold, allocated TCBs only: release_TCB() in
\* gain() is never early.
NoUseAfterFree ==
  \A t \in Thread :
    state[t] = "NONE" =>
      t \notin HeldTCB \cup Range(SCHED) \cup Range(TIMEOUT_LIST)

\* What yield(), gain() and sched_make_ready() keep together on all cores: one
\* core per thread, no READY thread lost, sound lists, no assertion fails and
\* no TCB is freed while it is used.
SchedulerSafety ==
  /\ OneCorePerThread
  /\ ReadyNotLost
  /\ QueueSound
  /\ TimeoutListSound
  /\ TimeoutsSorted
  /\ AssertionsHold
  /\ NoUseAfterFree

\* active_threads counts the existing normal threads, so that a core leaves
\* run_scheduler() only when there is nothing left to run (idle_thread()).
ShutdownSound ==
  /\ active_threads = Cardinality({t \in Thread : state[t] # "NONE"})
  /\ (\E c \in Core : pc[c] = "left") => \A t \in Thread : state[t] = "NONE"

(***************************************************************************)
(* The strengthening that makes these invariants inductive: what each core *)
(* knows of its current thread at each point, who holds the spinlock, and  *)
(* which threads are on a core.                                            *)
(***************************************************************************)
CoreInv(c) ==
  /\ pc[c] \in IdlePoint \cup {"boot", "halted", "left"} => current[c] = c
  /\ pc[c] = "run" => current[c] \in Thread
  /\ pc[c] \in Interruptible \cup {"halted", "left"} => state[current[c]] = "RUNNING"
  /\ pc[c] = "yield" => state[current[c]] \in {"RUNNING", "READY", "STOPPED", "EXITED"}
  /\ pc[c] = "yield" /\ current[c] = c => state[c] = "RUNNING"
  /\ pc[c] = "select" => state[current[c]] \in {"READY", "STOPPED", "EXITED"}
  /\ pc[c] = "select" /\ (current_ready \/ current[c] = c) => state[current[c]] = "READY"
  /\ pc[c] = "gain" => /\ state[current[c]] = "READY"
                       /\ prev[current[c]] \in TCB
                       /\ state[prev[current[c]]] \in {"READY", "STOPPED", "EXITED"}
  /\ pc[c] # "boot" /\ current[c] # c => state[c] = "READY"

LockInv == \A c \in Core : sched_spinlock = c <=> pc[c] = "select"

ThreadInv(t) ==
  /\ state[t] \in {"NONE", "INIT"} => t \notin HeldTCB
  /\ state[t] \in {"RUNNING", "EXITED"} => t \in HeldTCB
  /\ phase[t] = "DIRTY" <=> \E c \in Core : Stack(c) = t

\* The inductive invariant of the scheduler.
SchedulerInv ==
  /\ TypeOK
  /\ \A c \in Core : CoreInv(c)
  /\ LockInv
  /\ \A t \in Thread : ThreadInv(t)
  /\ OneCorePerThread
  /\ ReadyNotLost
  /\ QueueSound
  /\ TimeoutListSound

\* TIMEOUT_LIST is sorted well enough that the loop of sched_queue_select()
\* may stop at the first entry that has not expired: nobody oversleeps the
\* scheduling decision.
SelectWakesExpired ==
  [][\A c \in Core :
       pc[c] = "select" /\ pc'[c] = "gain" =>
         \A t \in Thread : wakeup_time[t] # NO_TIMEOUT => wakeup_time[t] > curtime]_vars

----------------------------------------------------------------------------
(***************************************************************************)
(* The scheduler implements ThreadService: a core executes its thread when *)
(* it is outside the scheduler.                                            *)
(***************************************************************************)
Status(s) ==
  CASE s = "NONE" -> "none"
    [] s \in {"INIT", "STOPPED"} -> "blocked"
    [] s \in {"READY", "RUNNING"} -> "runnable"
    [] s = "EXITED" -> "exited"

Service == INSTANCE ThreadService WITH
  status <- [t \in Thread |-> Status(state[t])],
  cpu <- [c \in Core |-> IF pc[c] = "run" THEN current[c] ELSE Nil],
  off <- {c \in Core : pc[c] = "left"}

\* Every step of the scheduler is a step that ThreadService allows: threads
\* are executed only when runnable and by one core, nothing revives a thread
\* that has exited, and its TCB is freed once, after it has left its core.
ImplementsThreadService == Service!SSpec

----------------------------------------------------------------------------
(***************************************************************************)
(* Fairness.  A core that is not waiting takes its next step.  A core that *)
(* wants the spinlock gets it if the lock is free again and again: this is *)
(* what the spinning of Mutex_Lock() relies on.  gain() has armed the      *)
(* timer, so a running thread gets its ALARM, and so does a halted core;   *)
(* but ALARMs are a QUANTUM apart, so that the idle thread gets something  *)
(* done between two of them.                                               *)
(***************************************************************************)
Fairness ==
  /\ \A c \in Core :
       /\ WF_vars(\/ CoreStep(c)
                  \/ pc[c] = "run" /\ yield_handler(c)
                  \/ cpu_core_restart(c))
       /\ SF_vars(yield(c) \/ gain(c))
       /\ SF_vars(idle_yield(c) \/ idle_thread(c) \/ cpu_core_halt(c))
  /\ WF_vars(system_clock)

FairSpec == Spec /\ Fairness

\* Every READY thread gets a core, whatever the others do.
EveryReadyThreadRuns ==
  \A t \in Thread : state[t] = "READY" ~> state[t] = "RUNNING"

\* Every sleeper with a timeout is awakened, by somebody or by its timeout.
EverySleeperWakes ==
  \A t \in Thread : wakeup_time[t] # NO_TIMEOUT ~> wakeup_time[t] = NO_TIMEOUT

\* Once the last thread is gone every core leaves run_scheduler(), the halted
\* ones too, so that boot() returns.
ShutdownCompletes ==
  (active_threads = 0) ~> (\A c \in Core : pc[c] = "left")

=============================================================================
