----------------------------- MODULE Preemption -----------------------------
(***************************************************************************)
(* Preemption (kernel_cc.c, set_core_preemption() and Mutex_Lock()) and    *)
(* what the code does while it is on: a thread that reads a property of    *)
(* its core, CURTHREAD or curr_core(), can be moved to another core before *)
(* it uses what it read; a thread that holds a Mutex can be preempted      *)
(* while another one spins on it with preemption off.                      *)
(*                                                                         *)
(* The threads execute system calls: Exec, Exit, Read from a terminal, and *)
(* others, which only lock the kernel.  The functions that they call turn  *)
(* preemption off, whether it is on (in a system call) or off already (in  *)
(* serial_read() and in the handler of its interrupt), and restore it.     *)
(*                                                                         *)
(* The scheduler is the one of module Scheduler, without timeouts and      *)
(* halting.  Its critical sections are single steps, except where it waits *)
(* for another lock inside them (release_TCB()).  Condition variables are  *)
(* those of module KernelCC without their waitset_lock: a thread joins the *)
(* ring and unlocks kernel_mutex when it stops.  Interrupts may hit any    *)
(* instruction of a thread that runs with interrupts enabled.              *)
(***************************************************************************)
EXTENDS Integers, Sequences, FiniteSets, SequencesExt, Cores

CONSTANTS
  Thread,  \* the TCBs that spawn_thread() can allocate
  Call,    \* the system calls that the threads execute
  Nil      \* no thread; as a current thread, the idle thread of the core

ASSUME PreemptionAssumption ==
  /\ Call \subseteq {"Exec", "Exit", "Read", "other"}
  /\ Nil \notin Thread \cup Core

VARIABLES
  current,         \* CCB.current_thread
  preemption,      \* CCB.preemption
  int_disabled,    \* core->int_disabled
  blocked,         \* SIGUSR1 is blocked in the signal mask of the core
  mode,            \* "run", or where the core is in yield(), gain(), a handler
  prev,            \* the thread that the core has switched from, until gain()
  SCHED,
  state,           \* tcb->state
  sched_spinlock,  \* the core that waits inside its critical section, or Nil
  active_lock,     \* the holder of active_threads_spinlock, or Nil
  kernel_mutex,    \* its holder, or Nil
  kernel_sem,
  kernel_sem_cv,   \* the threads that wait for the kernel
  rx_ready,        \* the threads that wait for input
  pc,              \* where each thread is
  then,            \* where preempt_off returns to
  driver,          \* is the thread in serial_read(), with preemption off?
  cause,           \* what the thread is going to sleep for
  core,            \* a core number that the thread has read
  tcb,             \* the local variable of sleep_releasing()
  wakee,           \* the argument of wakeup()
  oldpre,          \* what preempt_off returned, in wakeup(), sleep_releasing()
  preempt          \* the same in yield() and in serial_rx_handler()

cores == <<current, prev, mode>>
interrupts == <<preemption, int_disabled, blocked>>
queue == <<SCHED, state>>
spinlocks == <<sched_spinlock, active_lock>>
kernel == <<kernel_mutex, kernel_sem, kernel_sem_cv, rx_ready>>
\* Local variables have their initial value where they are not in use.
locals == <<then, driver, cause, core, tcb, wakee, oldpre, preempt>>
vars == <<cores, interrupts, queue, spinlocks, kernel, pc, locals>>

(***************************************************************************)
(* Control points of a thread:                                             *)
(*   user         executes its program                                     *)
(*   lock         Mutex_Lock(&kernel_mutex), to take the kernel            *)
(*   locked       holds it, at the test of kernel_sem                      *)
(*   syscall      has the kernel, in the system call                       *)
(*   spawn_lock   Mutex_Lock(&active_threads_spinlock)                     *)
(*   spawn        holds it, in spawn_thread()                              *)
(*   unlock       Mutex_Lock(&kernel_mutex), to leave the kernel           *)
(*   signal       holds it, at Cond_Signal(&kernel_sem_cv)                 *)
(*   signalled    after Cond_Signal()                                      *)
(*   cur_thread   has read cpu_core_id, at cctx[...].current_thread        *)
(*   preempt_off  at curr_core() of cpu_disable_interrupts()               *)
(*   disable      has read its core there                                  *)
(*   sleep        sleep_releasing() with preemption off                    *)
(*   slept        has returned from yield() there                          *)
(*   wakeup       wakeup() with preemption off                             *)
(*   read         serial_read(), at bios_read_serial()                     *)
(***************************************************************************)
NonPreemptive == {"sleep", "slept", "wakeup", "read"}
Label == {"user", "lock", "locked", "syscall", "spawn_lock", "spawn", "unlock", "signal",
          "signalled", "cur_thread", "preempt_off", "disable"} \cup NonPreemptive

\* The thread executes code that may be preempted.
Preemptive(t) == pc[t] \notin NonPreemptive /\ ~driver[t]

\* The first process has been created, and the cores are idle.
Init ==
  /\ current = [c \in Core |-> Nil]
  /\ preemption = [c \in Core |-> TRUE]
  /\ int_disabled = [c \in Core |-> FALSE]
  /\ blocked = [c \in Core |-> FALSE]
  /\ mode = [c \in Core |-> "run"]
  /\ prev = [c \in Core |-> Nil]
  /\ \E t \in Thread : /\ SCHED = <<t>>
                       /\ state = [u \in Thread |-> IF u = t THEN "READY" ELSE "FREE"]
  /\ sched_spinlock = Nil
  /\ active_lock = Nil
  /\ kernel_mutex = Nil /\ kernel_sem = 1 /\ kernel_sem_cv = {} /\ rx_ready = {}
  /\ pc = [t \in Thread |-> "user"]
  /\ then = [t \in Thread |-> "user"]
  /\ driver = [t \in Thread |-> FALSE]
  /\ cause = [t \in Thread |-> "none"]
  /\ core = [t \in Thread |-> Nil]
  /\ tcb = [t \in Thread |-> Nil]
  /\ wakee = [t \in Thread |-> Nil]
  /\ oldpre = [t \in Thread |-> TRUE]
  /\ preempt = [t \in Thread |-> TRUE]

Runs(c, t) == current[c] = t /\ mode[c] = "run"

----------------------------------------------------------------------------
(***************************************************************************)
(* Turning preemption on and off.                                          *)
(***************************************************************************)

\* set_core_preemption(1), with cpu_enable_interrupts().
preempt_on(c) ==
  /\ preemption' = [preemption EXCEPT ![c] = TRUE]
  /\ int_disabled' = [int_disabled EXCEPT ![c] = FALSE]
  /\ blocked' = [blocked EXCEPT ![c] = @ /\ ~int_disabled[c]]

restore(c, on) == IF on THEN preempt_on(c) ELSE UNCHANGED interrupts

\* set_core_preemption(0) of a core that cannot be interrupted.
preempt_off(c) ==
  /\ preemption' = [preemption EXCEPT ![c] = FALSE]
  /\ int_disabled' = [int_disabled EXCEPT ![c] = TRUE]
  /\ blocked' = [blocked EXCEPT ![c] = TRUE]

\* set_core_preemption(0) of a thread, which may be moved if preemption is on:
\* cpu_disable_interrupts() first finds its core ...
curr_core(c, t) ==
  /\ Runs(c, t)
  /\ pc[t] = "preempt_off"
  /\ core' = [core EXCEPT ![t] = c]
  /\ pc' = [pc EXCEPT ![t] = "disable"]
  /\ UNCHANGED <<cores, interrupts, queue, spinlocks, kernel, then, driver, cause, tcb, wakee,
                 oldpre, preempt>>

\* ... and then blocks the signal in its own mask and marks that core, unless
\* it is marked.  The thread goes on in yield() if Mutex_Lock() called that.
cpu_disable_interrupts(c, t) ==
  /\ Runs(c, t)
  /\ pc[t] = "disable"
  /\ IF int_disabled[core[t]]
     THEN UNCHANGED <<int_disabled, blocked>>
     ELSE /\ blocked' = [blocked EXCEPT ![c] = TRUE]
          /\ int_disabled' = [int_disabled EXCEPT ![core[t]] = TRUE]
  /\ preemption' = [preemption EXCEPT ![c] = FALSE]
  /\ pc' = [pc EXCEPT ![t] = then[t]]
  /\ core' = [core EXCEPT ![t] = Nil]
  /\ then' = [then EXCEPT ![t] = "user"]
  /\ driver' = [driver EXCEPT ![t] = @ \/ then[t] = "read"]
  /\ oldpre' = [oldpre EXCEPT ![t] = IF then[t] \in {"sleep", "wakeup"} THEN preemption[c] ELSE @]
  /\ IF then[t] \in {"lock", "unlock", "spawn_lock"}
     THEN /\ preempt' = [preempt EXCEPT ![t] = preemption[c]]
          /\ mode' = [mode EXCEPT ![c] = "yield"]
     ELSE UNCHANGED <<mode, preempt>>
  /\ UNCHANGED <<current, prev, queue, spinlocks, kernel, cause, tcb, wakee>>

----------------------------------------------------------------------------
(***************************************************************************)
(* The scheduler and the interrupts.                                       *)
(***************************************************************************)

\* An interrupt hits the current thread; its handler turns preemption off.
Interrupt(c, at) ==
  /\ mode[c] = "run"
  /\ ~int_disabled[c]
  /\ ~blocked[c]
  /\ mode' = [mode EXCEPT ![c] = at]
  /\ preempt_off(c)
  /\ IF current[c] = Nil
     THEN UNCHANGED preempt
     ELSE preempt' = [preempt EXCEPT ![current[c]] = preemption[c]]
  /\ UNCHANGED <<current, prev, queue, spinlocks, kernel, pc, then, driver, cause, core, tcb,
                 wakee, oldpre>>

\* The ALARM.
yield_handler(c) == Interrupt(c, "yield")

\* What the handler, yield() or gain() restores.  The idle thread had it on.
resume(c) == restore(c, IF current[c] = Nil THEN TRUE ELSE preempt[current[c]])

OnCore(u) == \E c \in Core : u \in {current[c], prev[c]}

\* sched_make_ready() in wakeup(u), if the thread waits.
sched_make_ready(u) ==
  IF state[u] \in {"STOPPED", "INIT"}
  THEN /\ state' = [state EXCEPT ![u] = "READY"]
       /\ SCHED' = IF OnCore(u) THEN SCHED ELSE Append(SCHED, u)
  ELSE UNCHANGED queue

\* SERIAL_RX_READY; the handler wakes up every reader.  In its calls of
\* wakeup() preemption is off already.
serial_rx_handler(c) ==
  \/ Interrupt(c, "rx")
  \/ /\ mode[c] = "rx"
     /\ sched_spinlock = Nil
     /\ \E u \in rx_ready : rx_ready' = rx_ready \ {u} /\ sched_make_ready(u)
     /\ restore(c, preemption[c])
     /\ UNCHANGED <<cores, spinlocks, kernel_mutex, kernel_sem, kernel_sem_cv, pc, locals>>
  \/ /\ mode[c] = "rx"
     /\ rx_ready = {}
     /\ mode' = [mode EXCEPT ![c] = "run"]
     /\ resume(c)
     /\ UNCHANGED <<current, prev, queue, spinlocks, kernel, pc, locals>>

\* yield(), from its Mutex_Lock(&sched_spinlock) to the switch of contexts.
yield(c) ==
  LET t == current[c]
      ready == t # Nil /\ state[t] \in {"RUNNING", "READY"}
  IN
  /\ mode[c] = "yield"
  /\ sched_spinlock = Nil
  /\ state' = [u \in Thread |-> IF u = t /\ ready THEN "READY" ELSE state[u]]
  /\ IF SCHED = <<>>
     THEN /\ current' = [current EXCEPT ![c] = IF ready THEN t ELSE Nil]
          /\ UNCHANGED SCHED
     ELSE /\ current' = [current EXCEPT ![c] = Head(SCHED)]
          /\ SCHED' = Tail(SCHED)
  /\ prev' = [prev EXCEPT ![c] = t]
  /\ mode' = [mode EXCEPT ![c] = "gain"]
  /\ UNCHANGED <<interrupts, spinlocks, kernel, pc, locals>>

\* gain().  If the previous thread has exited, the core now calls
\* release_TCB(), with sched_spinlock locked.
gain(c) ==
  LET t == current[c]
      p == prev[c]
      exited == p \notin {t, Nil} /\ state[p] = "EXITED"
  IN
  /\ mode[c] = "gain"
  /\ sched_spinlock = Nil
  /\ state' = [u \in Thread |-> CASE u = t -> "RUNNING"
                                  [] u = p /\ exited -> "FREE"
                                  [] OTHER -> state[u]]
  /\ SCHED' = IF p \notin {t, Nil} /\ state[p] = "READY" THEN Append(SCHED, p) ELSE SCHED
  /\ prev' = [prev EXCEPT ![c] = Nil]
  /\ IF exited
     THEN /\ sched_spinlock' = c
          /\ mode' = [mode EXCEPT ![c] = "release"]
          /\ UNCHANGED interrupts
     ELSE /\ mode' = [mode EXCEPT ![c] = "run"]
          /\ resume(c)
          /\ UNCHANGED sched_spinlock
  /\ UNCHANGED <<current, active_lock, kernel, pc, locals>>

\* release_TCB() spins on active_threads_spinlock; gain() ends.
release_TCB(c) ==
  /\ mode[c] = "release"
  /\ active_lock = Nil
  /\ sched_spinlock' = Nil
  /\ mode' = [mode EXCEPT ![c] = "run"]
  /\ resume(c)
  /\ UNCHANGED <<current, prev, queue, active_lock, kernel, pc, locals>>

\* The idle thread yields again and again.
idle_thread(c) ==
  /\ Runs(c, Nil)
  /\ mode' = [mode EXCEPT ![c] = "yield"]
  /\ preempt_off(c)
  /\ UNCHANGED <<current, prev, queue, spinlocks, kernel, pc, locals>>

----------------------------------------------------------------------------
(***************************************************************************)
(* The threads.                                                            *)
(***************************************************************************)

At(c, t, label) == Runs(c, t) /\ pc[t] = label
Jump(t, label) == pc' = [pc EXCEPT ![t] = label]

\* Mutex_Lock() spins; where preemption is on, it yields.
Mutex_Lock_yield(c, t) ==
  /\ Runs(c, t)
  /\ \/ pc[t] \in {"lock", "unlock"} /\ kernel_mutex # Nil
     \/ pc[t] = "spawn_lock" /\ active_lock # Nil
  /\ preemption[c]
  /\ then' = [then EXCEPT ![t] = pc[t]]
  /\ Jump(t, "preempt_off")
  /\ UNCHANGED <<cores, interrupts, queue, spinlocks, kernel, driver, cause, core, tcb, wakee,
                 oldpre, preempt>>

\* Cond_Wait(), kernel_wait() or kernel_sleep() calls sleep_releasing(), which
\* begins with CURTHREAD.
call_sleep(c, t, why) ==
  /\ cause' = [cause EXCEPT ![t] = why]
  /\ core' = [core EXCEPT ![t] = c]
  /\ Jump(t, "cur_thread")

\* A system call begins, or kernel_wait() goes on when it has been awakened.
kernel_lock(c, t) ==
  \/ /\ At(c, t, "user")
     /\ Jump(t, "lock")
     /\ UNCHANGED <<cores, interrupts, queue, spinlocks, kernel, locals>>
  \/ /\ At(c, t, "lock")
     /\ kernel_mutex = Nil
     /\ kernel_mutex' = t
     /\ Jump(t, "locked")
     /\ UNCHANGED <<cores, interrupts, queue, spinlocks, kernel_sem, kernel_sem_cv, rx_ready,
                    locals>>
  \/ /\ At(c, t, "locked")
     /\ kernel_sem > 0
     /\ kernel_sem' = kernel_sem - 1
     /\ kernel_mutex' = Nil
     /\ Jump(t, IF driver[t] THEN "read" ELSE "syscall")
     /\ UNCHANGED <<cores, interrupts, queue, spinlocks, kernel_sem_cv, rx_ready, locals>>
  \/ /\ At(c, t, "locked")
     /\ kernel_sem = 0
     /\ call_sleep(c, t, "sem")
     /\ UNCHANGED <<cores, interrupts, queue, spinlocks, kernel, then, driver, tcb, wakee,
                    oldpre, preempt>>

\* The system call, as far as it matters here: Exit() ends in kernel_sleep(),
\* Read() calls serial_read().
syscall(c, t, f) ==
  /\ At(c, t, "syscall")
  /\ \/ /\ f \in {"Exit", "other"}
        /\ cause' = [cause EXCEPT ![t] = IF f = "Exit" THEN "exit" ELSE "none"]
        /\ Jump(t, "unlock")
        /\ UNCHANGED then
     \/ /\ f = "Read"
        /\ then' = [then EXCEPT ![t] = "read"]
        /\ Jump(t, "preempt_off")
        /\ UNCHANGED cause
  /\ UNCHANGED <<cores, interrupts, queue, spinlocks, kernel, driver, core, tcb, wakee, oldpre,
                 preempt>>

\* Exec() allocates a thread, which is going to start in gain(1), if it can.
sys_Exec(c, t) ==
  /\ At(c, t, "syscall")
  /\ \/ \E u \in Thread :
          /\ state[u] = "FREE"
          /\ state' = [state EXCEPT ![u] = "INIT"]
          /\ wakee' = [wakee EXCEPT ![t] = u]
          /\ pc' = [pc EXCEPT ![t] = "spawn_lock", ![u] = "user"]
          /\ driver' = [driver EXCEPT ![u] = FALSE]
          /\ preempt' = [preempt EXCEPT ![u] = TRUE]
     \/ /\ \A u \in Thread : state[u] # "FREE"
        /\ Jump(t, "unlock")
        /\ UNCHANGED <<state, wakee, driver, preempt>>
  /\ UNCHANGED <<cores, interrupts, SCHED, spinlocks, kernel, then, cause, core, tcb, oldpre>>

\* spawn_thread() counts the new thread, and Exec() calls wakeup().
spawn_thread(c, t) ==
  \/ /\ At(c, t, "spawn_lock")
     /\ active_lock = Nil
     /\ active_lock' = t
     /\ Jump(t, "spawn")
     /\ UNCHANGED <<cores, interrupts, queue, sched_spinlock, kernel, locals>>
  \/ /\ At(c, t, "spawn")
     /\ active_lock' = Nil
     /\ then' = [then EXCEPT ![t] = "wakeup"]
     /\ Jump(t, "preempt_off")
     /\ UNCHANGED <<cores, interrupts, queue, sched_spinlock, kernel, driver, cause, core, tcb,
                    wakee, oldpre, preempt>>

\* serial_read() finds a byte and returns, or calls kernel_wait().
serial_read(c, t) ==
  /\ At(c, t, "read")
  /\ Jump(t, "unlock")
  /\ \/ /\ preempt_on(c)
        /\ driver' = [driver EXCEPT ![t] = FALSE]
        /\ UNCHANGED cause
     \/ /\ cause' = [cause EXCEPT ![t] = "rx"]
        /\ UNCHANGED <<interrupts, driver>>
  /\ UNCHANGED <<cores, queue, spinlocks, kernel, then, core, tcb, wakee, oldpre, preempt>>

\* kernel_unlock(), kernel_wait() and kernel_sleep(): the kernel is free, and
\* Cond_Signal() wakes up a thread that waits for it.  Then kernel_unlock()
\* returns, the others call sleep_releasing().
kernel_unlock(c, t) ==
  \/ /\ At(c, t, "unlock")
     /\ kernel_mutex = Nil
     /\ kernel_mutex' = t
     /\ kernel_sem' = kernel_sem + 1
     /\ Jump(t, "signal")
     /\ UNCHANGED <<cores, interrupts, queue, spinlocks, kernel_sem_cv, rx_ready, locals>>
  \/ /\ At(c, t, "signal")
     /\ kernel_sem_cv = {}
     /\ Jump(t, "signalled")
     /\ UNCHANGED <<cores, interrupts, queue, spinlocks, kernel, locals>>
  \/ /\ At(c, t, "signal")
     /\ \E u \in kernel_sem_cv : /\ kernel_sem_cv' = kernel_sem_cv \ {u}
                                 /\ wakee' = [wakee EXCEPT ![t] = u]
     /\ then' = [then EXCEPT ![t] = "wakeup"]
     /\ Jump(t, "preempt_off")
     /\ UNCHANGED <<cores, interrupts, queue, spinlocks, kernel_mutex, kernel_sem, rx_ready,
                    driver, cause, core, tcb, oldpre, preempt>>
  \/ /\ At(c, t, "signalled")
     /\ cause[t] = "none"
     /\ kernel_mutex' = Nil
     /\ Jump(t, "user")
     /\ UNCHANGED <<cores, interrupts, queue, spinlocks, kernel_sem, kernel_sem_cv, rx_ready,
                    locals>>
  \/ /\ At(c, t, "signalled")
     /\ cause[t] # "none"
     /\ call_sleep(c, t, cause[t])
     /\ UNCHANGED <<cores, interrupts, queue, spinlocks, kernel, then, driver, tcb, wakee,
                    oldpre, preempt>>

\* Mutant: wakeup() turns preemption on also where it was off.
wakeup_restore_on(c, t) == restore(c, TRUE)

wakeup_restore(c, t) == restore(c, oldpre[t])

\* The critical section of wakeup(), until it returns to Exec() or to the loop
\* of Cond_Signal().
wakeup(c, t) ==
  /\ At(c, t, "wakeup")
  /\ sched_spinlock = Nil
  /\ sched_make_ready(wakee[t])
  /\ wakeup_restore(c, t)
  /\ Jump(t, IF kernel_mutex # t THEN "unlock"
             ELSE IF state[wakee[t]] \in {"STOPPED", "INIT"} THEN "signalled" ELSE "signal")
  /\ wakee' = [wakee EXCEPT ![t] = Nil]
  /\ oldpre' = [oldpre EXCEPT ![t] = TRUE]
  /\ UNCHANGED <<cores, spinlocks, kernel, then, driver, cause, core, tcb, preempt>>

\* The current thread of the core on which the thread was.
CURTHREAD(t) == current[core[t]]

\* sleep_releasing(): TCB* tcb = CURTHREAD, before preempt_off.
sleep_CURTHREAD(c, t) ==
  /\ At(c, t, "cur_thread")
  /\ tcb' = [tcb EXCEPT ![t] = CURTHREAD(t)]
  /\ core' = [core EXCEPT ![t] = Nil]
  /\ then' = [then EXCEPT ![t] = "sleep"]
  /\ Jump(t, "preempt_off")
  /\ UNCHANGED <<cores, interrupts, queue, spinlocks, kernel, driver, cause, wakee, oldpre,
                 preempt>>

\* The critical section of sleep_releasing(), and the call of yield().
sleep_releasing(c, t) ==
  /\ At(c, t, "sleep")
  /\ sched_spinlock = Nil
  /\ state' = [u \in Thread |-> IF u # tcb[t] THEN state[u]
                                ELSE IF cause[t] = "exit" THEN "EXITED" ELSE "STOPPED"]
  /\ kernel_sem_cv' = kernel_sem_cv \cup {u \in {t} : cause[t] = "sem"}
  /\ rx_ready' = rx_ready \cup {u \in {t} : cause[t] = "rx"}
  /\ kernel_mutex' = Nil
  /\ preempt' = [preempt EXCEPT ![t] = preemption[c]]
  /\ preempt_off(c)
  /\ mode' = [mode EXCEPT ![c] = "yield"]
  /\ Jump(t, "slept")
  /\ tcb' = [tcb EXCEPT ![t] = Nil]
  /\ cause' = [cause EXCEPT ![t] = "none"]
  /\ UNCHANGED <<current, prev, SCHED, spinlocks, kernel_sem, then, driver, core, wakee, oldpre>>

\* sleep_releasing() returns to cv_wait(), which locks kernel_mutex again.
sleep_return(c, t) ==
  /\ At(c, t, "slept")
  /\ restore(c, oldpre[t])
  /\ Jump(t, "lock")
  /\ oldpre' = [oldpre EXCEPT ![t] = TRUE]
  /\ preempt' = [preempt EXCEPT ![t] = TRUE]
  /\ UNCHANGED <<cores, queue, spinlocks, kernel, then, driver, cause, core, tcb, wakee>>

----------------------------------------------------------------------------
Step(c, t) ==
  \/ curr_core(c, t) \/ cpu_disable_interrupts(c, t) \/ Mutex_Lock_yield(c, t)
  \/ kernel_lock(c, t) \/ kernel_unlock(c, t)
  \/ \E f \in Call : syscall(c, t, f) \/ (f = "Exec" /\ sys_Exec(c, t))
  \/ spawn_thread(c, t) \/ serial_read(c, t) \/ wakeup(c, t)
  \/ sleep_CURTHREAD(c, t) \/ sleep_releasing(c, t) \/ sleep_return(c, t)

Scheduling(c) == yield(c) \/ gain(c) \/ release_TCB(c) \/ idle_thread(c)

CoreStep(c) == Scheduling(c) \/ yield_handler(c) \/ serial_rx_handler(c)

Next == \E c \in Core : CoreStep(c) \/ \E t \in Thread : Step(c, t)

Spec == Init /\ [][Next]_vars

\* The thread does not use the number of a core that it has left.
Steady(c, t) == pc[t] \in {"cur_thread", "disable"} => core[t] = c

SteadyNext == \E c \in Core : CoreStep(c) \/ \E t \in Thread : Steady(c, t) /\ Step(c, t)

SteadySpec == Init /\ [][SteadyNext]_vars

\* A core goes on, and ALARMs that are pending are delivered when interrupts
\* are enabled.  ALARMs are a QUANTUM apart: a thread that gets the core again
\* and again executes its next instruction.
FairSpec ==
  /\ Spec
  /\ \A c \in Core : /\ WF_vars(Scheduling(c)) /\ SF_vars(yield_handler(c))
                     /\ WF_vars(serial_rx_handler(c))
  /\ \A t \in Thread : SF_vars(\E c \in Core : Step(c, t))

----------------------------------------------------------------------------
TypeOK ==
  /\ current \in [Core -> Thread \cup {Nil}]
  /\ preemption \in [Core -> BOOLEAN]
  /\ int_disabled \in [Core -> BOOLEAN]
  /\ blocked \in [Core -> BOOLEAN]
  /\ mode \in [Core -> {"run", "yield", "gain", "release", "rx"}]
  /\ prev \in [Core -> Thread \cup {Nil}]
  /\ SCHED \in Seq(Thread)
  /\ state \in [Thread -> {"FREE", "INIT", "READY", "RUNNING", "STOPPED", "EXITED"}]
  /\ sched_spinlock \in Core \cup {Nil}
  /\ active_lock \in Thread \cup {Nil}
  /\ kernel_mutex \in Thread \cup {Nil}
  /\ kernel_sem \in Nat
  /\ kernel_sem_cv \subseteq Thread /\ rx_ready \subseteq Thread
  /\ pc \in [Thread -> Label]
  /\ then \in [Thread -> {"user", "lock", "unlock", "spawn_lock", "sleep", "wakeup", "read"}]
  /\ driver \in [Thread -> BOOLEAN]
  /\ cause \in [Thread -> {"none", "sem", "rx", "exit"}]
  /\ core \in [Thread -> Core \cup {Nil}]
  /\ tcb \in [Thread -> Thread \cup {Nil}]
  /\ wakee \in [Thread -> Thread \cup {Nil}]
  /\ oldpre \in [Thread -> BOOLEAN]
  /\ preempt \in [Thread -> BOOLEAN]

\* sleep_releasing() stops the thread that called it, although it looks up
\* CURTHREAD before it turns preemption off.
SleeperIsCaller == \A t \in Thread : pc[t] = "sleep" => tcb[t] = t

\* Interrupts and the flag of the core fit the thread that runs there: on in
\* its preemptive code and off in its critical sections, however often it has
\* been moved in between (preempt_off, yield(), gain(), preempt_on) and however
\* these sections are nested.
PreemptionFits ==
  \A c \in Core, t \in Thread :
    Runs(c, t) =>
      IF Preemptive(t)
      THEN preemption[c] /\ ~int_disabled[c] /\ ~blocked[c]
      ELSE ~preemption[c] /\ int_disabled[c] /\ blocked[c]

\* A core in yield(), gain() or a handler has preemption off, and a thread
\* that does not run has saved whether it had it on; a function that turned it
\* off in a thread knows whether its caller had.
SavedFits ==
  /\ \A c \in Core : mode[c] # "run" => ~preemption[c] /\ int_disabled[c] /\ blocked[c]
  /\ \A t \in Thread : (\A c \in Core : ~Runs(c, t)) => (preempt[t] <=> Preemptive(t))
  /\ \A t \in Thread :
       pc[t] \in {"sleep", "slept", "wakeup"} => (oldpre[t] <=> ~driver[t])

\* A thread is in one place: on one core, in the queue, or on neither.
PlaceFits ==
  /\ \A c, d \in Core : c # d => {current[c], prev[c]} \cap {current[d], prev[d]} \subseteq {Nil}
  /\ \A t \in Range(SCHED) : state[t] = "READY" /\ ~OnCore(t)
  /\ IsInjective(SCHED)
  /\ \A t \in Thread : state[t] \in {"FREE", "INIT"} => ~OnCore(t)

\* The control points, and what a thread keeps in local variables there while
\* it can be preempted.
LocalsFit ==
  \A t \in Thread :
    /\ pc[t] \in {"preempt_off", "disable"} => then[t] # "user"
    /\ pc[t] = "read" => driver[t]
    /\ pc[t] \in {"cur_thread", "disable"} => core[t] \in Core
    /\ pc[t] \in {"spawn_lock", "spawn", "wakeup"} => wakee[t] \in Thread
    /\ pc[t] \in {"preempt_off", "disable"} /\ then[t] \in {"spawn_lock", "wakeup"} =>
         wakee[t] \in Thread

\* From CURTHREAD on, sleep_releasing() knows its own thread.
TcbFits ==
  \A t \in Thread :
    pc[t] \in {"preempt_off", "disable"} /\ then[t] = "sleep" => tcb[t] = t

\* Preemption is on where the code may be preempted and off where it may not,
\* wherever a thread is moved to and however often it has been turned off
\* (set_core_preemption(), yield(), gain(), wakeup(), sleep_releasing(),
\* serial_rx_handler()), and sleep_releasing() stops the thread that calls it:
\* as long as no thread uses the number of a core that it has left.
PreemptionInv ==
  TypeOK /\ PreemptionFits /\ SavedFits /\ PlaceFits /\ LocalsFit /\ TcbFits /\ SleeperIsCaller

\* Whoever holds a Mutex gets to unlock it, also if it is preempted and
\* others spin or yield meanwhile (Mutex_Lock()).
LocksReleased ==
  \A t \in Thread : /\ (active_lock = t) ~> (active_lock # t)
                    /\ (kernel_mutex = t) ~> (kernel_mutex # t)
=============================================================================
