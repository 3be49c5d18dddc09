------------------------------ MODULE KernelCC ------------------------------
(***************************************************************************)
(* The concurrency control of the kernel (kernel_cc.c): condition          *)
(* variables with their intrusive ring of waiters, and the kernel lock, a  *)
(* semaphore built as a monitor from kernel_mutex and kernel_sem_cv.       *)
(*                                                                         *)
(* Threads make system calls: they lock the kernel, signal, wait with or   *)
(* without a timeout, and unlock it or exit.  A thread at user level, or   *)
(* an interrupt handler, may signal a condition without the kernel lock.   *)
(* A step runs from one acquisition of a Mutex to the next one; wakeup()   *)
(* and sleep_releasing() are atomic, as sched_spinlock makes them (module  *)
(* Scheduler).  Mutex_Lock() spins: a step that needs a mutex waits for it.*)
(***************************************************************************)
EXTENDS Integers, Sequences, FiniteSets, Functions, RList

CONSTANTS
  Thread,         \* the threads
  Cond,           \* the condition variables that system calls wait on
  kernel_sem_cv,  \* the condition variable of the kernel semaphore
  Nil

ASSUME KernelCCAssumption ==
  /\ kernel_sem_cv \notin Cond
  /\ Nil \notin Thread \cup Cond

CondVar == Cond \cup {kernel_sem_cv}

VARIABLES
  pc,            \* where each thread is
  kernel_mutex,  \* its holder, or Nil
  kernel_sem,    \* the semaphore counter
  waitset_lock,  \* the holder of cv->waitset_lock, or Nil
  waitset,       \* the ring of a condition variable, from cv->waitset on
  state,         \* tcb->state
  removed,       \* waiter.removed, for the waiter on the stack of the thread
  signalled,     \* waiter.signalled
  cv,            \* the condition variable that the thread waits on
  timed,         \* does the wait have a timeout?
  sig,           \* the condition variable that the thread signals
  broadcast,     \* is it a broadcast?
  op             \* the call that the signal is part of

waiters == <<removed, signalled, cv, timed>>
signals == <<sig, broadcast, op>>
vars == <<pc, kernel_mutex, kernel_sem, waitset_lock, waitset, state, removed,
          signalled, cv, timed, sig, broadcast, op>>

(***************************************************************************)
(* Control points of a thread:                                             *)
(*   user      outside the kernel                                          *)
(*   lock      kernel_lock(), at Mutex_Lock(&kernel_mutex)                 *)
(*   test      holds kernel_mutex, at while(kernel_sem<=0)                 *)
(*   in        executes a system call, with the kernel locked              *)
(*   release   gives up the kernel, at Mutex_Lock(&kernel_mutex)           *)
(*   sig_lock  Cond_Signal(), at Mutex_Lock(&cv->waitset_lock)             *)
(*   sig       inside cv_signal(), holds waitset_lock                      *)
(*   released  has signalled kernel_sem_cv, holds kernel_mutex             *)
(*   cw_lock   cv_wait(), at the first Mutex_Lock(&cv->waitset_lock)       *)
(*   cw_sleep  is in the ring, at sleep_releasing()                        *)
(*   cw_wake   sleeps, or woke up and wants waitset_lock again             *)
(*   cw_relock has left the ring, at Mutex_Lock(mutex)                     *)
(*   exited    sleeps for ever                                             *)
(***************************************************************************)
Point == {"user", "lock", "test", "in", "release", "sig_lock", "sig", "released",
          "cw_lock", "cw_sleep", "cw_wake", "cw_relock", "exited"}
Op == {"none", "user", "unlock", "wait", "sleep"}

Init ==
  /\ pc = [t \in Thread |-> "user"]
  /\ kernel_mutex = Nil
  /\ kernel_sem = 1
  /\ waitset_lock = [c \in CondVar |-> Nil]
  /\ waitset = [c \in CondVar |-> <<>>]
  /\ state = [t \in Thread |-> "RUNNING"]
  /\ removed = [t \in Thread |-> FALSE]
  /\ signalled = [t \in Thread |-> FALSE]
  /\ cv = [t \in Thread |-> Nil]
  /\ timed = [t \in Thread |-> FALSE]
  /\ sig = [t \in Thread |-> Nil]
  /\ broadcast = [t \in Thread |-> FALSE]
  /\ op = [t \in Thread |-> "none"]

----------------------------------------------------------------------------
(***************************************************************************)
(* Signalling.                                                             *)
(***************************************************************************)

\* Cond_Signal() or Cond_Broadcast() without the kernel lock.
Cond_Signal(t, c, b) ==
  /\ pc[t] = "user"
  /\ pc' = [pc EXCEPT ![t] = "sig_lock"]
  /\ sig' = [sig EXCEPT ![t] = c]
  /\ broadcast' = [broadcast EXCEPT ![t] = b]
  /\ op' = [op EXCEPT ![t] = "user"]
  /\ UNCHANGED <<kernel_mutex, kernel_sem, waitset_lock, waitset, state, waiters>>

\* kernel_signal() or kernel_broadcast() in a system call.
kernel_signal(t, c, b) ==
  /\ pc[t] = "in"
  /\ pc' = [pc EXCEPT ![t] = "sig_lock"]
  /\ sig' = [sig EXCEPT ![t] = c]
  /\ broadcast' = [broadcast EXCEPT ![t] = b]
  /\ op' = [op EXCEPT ![t] = "none"]
  /\ UNCHANGED <<kernel_mutex, kernel_sem, waitset_lock, waitset, state, waiters>>

signal_lock(t) ==
  /\ pc[t] = "sig_lock"
  /\ waitset_lock[sig[t]] = Nil
  /\ waitset_lock' = [waitset_lock EXCEPT ![sig[t]] = t]
  /\ pc' = [pc EXCEPT ![t] = "sig"]
  /\ UNCHANGED <<kernel_mutex, kernel_sem, waitset, state, waiters, signals>>

\* Where the thread goes after Cond_Signal().
SignalReturn(o) ==
  CASE o = "none" -> "in" [] o = "user" -> "user" [] OTHER -> "released"

\* Mutant: a waiter that cannot be awakened any more takes the signal.
cv_signal_swallowed(t, w) == ~broadcast[t]

\* Is w, just taken out of the ring, the last waiter of this signal?
cv_signal_last(t, w) == state[w] = "STOPPED" /\ ~broadcast[t]

\* cv_signal(), one iteration of its loop.
cv_signal(t) ==
  LET c == sig[t]
      w == Head(waitset[c])
  IN
  /\ pc[t] = "sig"
  /\ waitset[c] # <<>>
  /\ waitset' = [waitset EXCEPT ![c] = Tail(@)]
  /\ removed' = [removed EXCEPT ![w] = TRUE]
  /\ signalled' = [signalled EXCEPT ![w] = (state[w] = "STOPPED")]
  /\ state' = [state EXCEPT ![w] = IF @ = "STOPPED" THEN "RUNNING" ELSE @]
  /\ IF cv_signal_last(t, w)
     THEN /\ waitset_lock' = [waitset_lock EXCEPT ![c] = Nil]
          /\ pc' = [pc EXCEPT ![t] = SignalReturn(op[t])]
     ELSE UNCHANGED <<waitset_lock, pc>>
  /\ UNCHANGED <<kernel_mutex, kernel_sem, cv, timed, signals>>

\* The loop of cv_signal() or of Cond_Broadcast() ends with an empty ring.
signal_none(t) ==
  /\ pc[t] = "sig"
  /\ waitset[sig[t]] = <<>>
  /\ waitset_lock' = [waitset_lock EXCEPT ![sig[t]] = Nil]
  /\ pc' = [pc EXCEPT ![t] = SignalReturn(op[t])]
  /\ UNCHANGED <<kernel_mutex, kernel_sem, waitset, state, waiters, signals>>

----------------------------------------------------------------------------
(***************************************************************************)
(* Waiting: cv_wait().                                                     *)
(***************************************************************************)

\* Join the ring of cv[t] and release kernel_mutex.
cv_wait(t) ==
  /\ pc[t] = "cw_lock"
  /\ waitset_lock[cv[t]] = Nil
  /\ waitset_lock' = [waitset_lock EXCEPT ![cv[t]] = t]
  /\ waitset' = [waitset EXCEPT ![cv[t]] = Append(@, t)]
  /\ removed' = [removed EXCEPT ![t] = FALSE]
  /\ signalled' = [signalled EXCEPT ![t] = FALSE]
  /\ kernel_mutex' = Nil
  /\ pc' = [pc EXCEPT ![t] = "cw_sleep"]
  /\ UNCHANGED <<kernel_sem, state, cv, timed, signals>>

\* Mutant: the ring is unlocked before the thread is marked as stopped.
cv_wait_sleep_late(t) ==
  /\ pc[t] = "cw_sleep"
  /\ IF waitset_lock[cv[t]] = t
     THEN /\ waitset_lock' = [waitset_lock EXCEPT ![cv[t]] = Nil]
          /\ UNCHANGED <<state, pc>>
     ELSE /\ state' = [state EXCEPT ![t] = "STOPPED"]
          /\ pc' = [pc EXCEPT ![t] = "cw_wake"]
          /\ UNCHANGED waitset_lock
  /\ UNCHANGED <<kernel_mutex, kernel_sem, waitset, waiters, signals>>

\* sleep_releasing(STOPPED, &cv->waitset_lock, ...).
cv_wait_sleep(t) ==
  /\ pc[t] = "cw_sleep"
  /\ state' = [state EXCEPT ![t] = "STOPPED"]
  /\ waitset_lock' = [waitset_lock EXCEPT ![cv[t]] = Nil]
  /\ pc' = [pc EXCEPT ![t] = "cw_wake"]
  /\ UNCHANGED <<kernel_mutex, kernel_sem, waitset, waiters, signals>>

\* The scheduler wakes up a thread whose timeout has expired.
timeout(t) ==
  /\ pc[t] = "cw_wake"
  /\ state[t] = "STOPPED"
  /\ timed[t]
  /\ state' = [state EXCEPT ![t] = "RUNNING"]
  /\ UNCHANGED <<pc, kernel_mutex, kernel_sem, waitset_lock, waitset, waiters, signals>>

\* Mutant: the waiter, which dies with its stack frame, stays in the ring.
remove_from_ring_not(t) == UNCHANGED waitset

\* A thread that nobody signalled leaves the ring by itself.
remove_from_ring(t) ==
  waitset' = [waitset EXCEPT ![cv[t]] = IF removed[t] THEN @ ELSE rlist_remove(@, t)]

\* The thread woke up: tidy up the ring.
cv_wait_tidy(t) ==
  /\ pc[t] = "cw_wake"
  /\ state[t] = "RUNNING"
  /\ waitset_lock[cv[t]] = Nil
  /\ remove_from_ring(t)
  /\ pc' = [pc EXCEPT ![t] = "cw_relock"]
  /\ UNCHANGED <<kernel_mutex, kernel_sem, waitset_lock, state, waiters, signals>>

\* Lock the mutex again and return, to the test of the kernel semaphore.
cv_wait_relock(t) ==
  /\ pc[t] = "cw_relock"
  /\ kernel_mutex = Nil
  /\ kernel_mutex' = t
  /\ pc' = [pc EXCEPT ![t] = "test"]
  /\ cv' = [cv EXCEPT ![t] = Nil]
  /\ timed' = [timed EXCEPT ![t] = FALSE]
  /\ UNCHANGED <<kernel_sem, waitset_lock, waitset, state, removed, signalled, signals>>

----------------------------------------------------------------------------
(***************************************************************************)
(* The kernel lock.                                                        *)
(***************************************************************************)
SystemCall(t) ==
  /\ pc[t] = "user"
  /\ pc' = [pc EXCEPT ![t] = "lock"]
  /\ UNCHANGED <<kernel_mutex, kernel_sem, waitset_lock, waitset, state, waiters, signals>>

kernel_lock(t) ==
  /\ pc[t] = "lock"
  /\ kernel_mutex = Nil
  /\ kernel_mutex' = t
  /\ pc' = [pc EXCEPT ![t] = "test"]
  /\ UNCHANGED <<kernel_sem, waitset_lock, waitset, state, waiters, signals>>

\* Mutant: if instead of while, on a kernel that was taken meanwhile.
KernelFree_once(t) == kernel_sem > 0 \/ removed[t]

KernelFree(t) == kernel_sem > 0

\* The loop that ends kernel_lock() and kernel_wait_wchan().
kernel_acquire(t) ==
  /\ pc[t] = "test"
  /\ IF KernelFree(t)
     THEN /\ kernel_sem' = kernel_sem - 1
          /\ kernel_mutex' = Nil
          /\ pc' = [pc EXCEPT ![t] = "in"]
          /\ UNCHANGED cv
     ELSE /\ pc' = [pc EXCEPT ![t] = "cw_lock"]
          /\ cv' = [cv EXCEPT ![t] = kernel_sem_cv]
          /\ UNCHANGED <<kernel_sem, kernel_mutex>>
  /\ UNCHANGED <<waitset_lock, waitset, state, removed, signalled, timed, signals>>

\* kernel_unlock(), kernel_sleep(), or kernel_wait_wchan() on c, is called.
kernel_leave(t, o, c, b) ==
  /\ pc[t] = "in"
  /\ pc' = [pc EXCEPT ![t] = "release"]
  /\ op' = [op EXCEPT ![t] = o]
  /\ cv' = [cv EXCEPT ![t] = c]
  /\ timed' = [timed EXCEPT ![t] = b]
  /\ UNCHANGED <<kernel_mutex, kernel_sem, waitset_lock, waitset, state, removed,
                 signalled, sig, broadcast>>

\* Mutant: nobody who waits for the kernel is told that it is free.
kernel_release_silent(t) ==
  /\ pc[t] = "release"
  /\ kernel_mutex = Nil
  /\ kernel_mutex' = t
  /\ kernel_sem' = kernel_sem + 1
  /\ pc' = [pc EXCEPT ![t] = "released"]
  /\ UNCHANGED <<waitset_lock, waitset, state, waiters, signals>>

\* They all begin by giving up the semaphore, with kernel_mutex locked.
kernel_release(t) ==
  /\ pc[t] = "release"
  /\ kernel_mutex = Nil
  /\ kernel_mutex' = t
  /\ kernel_sem' = kernel_sem + 1
  /\ sig' = [sig EXCEPT ![t] = kernel_sem_cv]
  /\ broadcast' = [broadcast EXCEPT ![t] = FALSE]
  /\ pc' = [pc EXCEPT ![t] = "sig_lock"]
  /\ UNCHANGED <<waitset_lock, waitset, state, waiters, op>>

kernel_unlock(t) ==
  /\ pc[t] = "released"
  /\ op[t] = "unlock"
  /\ kernel_mutex' = Nil
  /\ op' = [op EXCEPT ![t] = "none"]
  /\ pc' = [pc EXCEPT ![t] = "user"]
  /\ UNCHANGED <<kernel_sem, waitset_lock, waitset, state, waiters, sig, broadcast>>

\* Mutant: the mutex is released before the thread is in the ring.
kernel_wait_unlocked(t) ==
  /\ pc[t] = "released"
  /\ op[t] = "wait"
  /\ op' = [op EXCEPT ![t] = "none"]
  /\ pc' = [pc EXCEPT ![t] = "cw_lock"]
  /\ kernel_mutex' = Nil
  /\ UNCHANGED <<kernel_sem, waitset_lock, waitset, state, waiters, sig, broadcast>>

\* kernel_wait_wchan() goes on into cv_wait(), still holding kernel_mutex.
kernel_wait(t) ==
  /\ pc[t] = "released"
  /\ op[t] = "wait"
  /\ op' = [op EXCEPT ![t] = "none"]
  /\ pc' = [pc EXCEPT ![t] = "cw_lock"]
  /\ UNCHANGED <<kernel_mutex, kernel_sem, waitset_lock, waitset, state, waiters,
                 sig, broadcast>>

\* kernel_sleep(EXITED): sleep_releasing(EXITED, &kernel_mutex, ...).
kernel_sleep(t) ==
  /\ pc[t] = "released"
  /\ op[t] = "sleep"
  /\ state' = [state EXCEPT ![t] = "EXITED"]
  /\ kernel_mutex' = Nil
  /\ op' = [op EXCEPT ![t] = "none"]
  /\ pc' = [pc EXCEPT ![t] = "exited"]
  /\ UNCHANGED <<kernel_sem, waitset_lock, waitset, waiters, sig, broadcast>>

\* A step that the thread takes by itself.
Step(t) ==
  \/ signal_lock(t) \/ cv_signal(t) \/ signal_none(t)
  \/ cv_wait(t) \/ cv_wait_sleep(t) \/ cv_wait_tidy(t) \/ cv_wait_relock(t)
  \/ kernel_lock(t) \/ kernel_acquire(t) \/ kernel_release(t)
  \/ kernel_unlock(t) \/ kernel_wait(t) \/ kernel_sleep(t)

\* What a program, or an interrupt, makes a thread begin.
Call(t) ==
  \/ SystemCall(t)
  \/ \E c \in Cond, b \in BOOLEAN : \/ Cond_Signal(t, c, b)
                                    \/ kernel_signal(t, c, b)
                                    \/ kernel_leave(t, "wait", c, b)
  \/ kernel_leave(t, "unlock", Nil, FALSE)
  \/ kernel_leave(t, "sleep", Nil, FALSE)

Next == \E t \in Thread : Step(t) \/ Call(t) \/ timeout(t)

Spec == Init /\ [][Next]_vars

----------------------------------------------------------------------------
TypeOK ==
  /\ pc \in [Thread -> Point]
  /\ kernel_mutex \in Thread \cup {Nil}
  /\ kernel_sem \in {0, 1}
  /\ waitset_lock \in [CondVar -> Thread \cup {Nil}]
  /\ waitset \in [CondVar -> Seq(Thread)]
  /\ state \in [Thread -> {"RUNNING", "STOPPED", "EXITED"}]
  /\ removed \in [Thread -> BOOLEAN]
  /\ signalled \in [Thread -> BOOLEAN]
  /\ cv \in [Thread -> CondVar \cup {Nil}]
  /\ timed \in [Thread -> BOOLEAN]
  /\ sig \in [Thread -> CondVar \cup {Nil}]
  /\ broadcast \in [Thread -> BOOLEAN]
  /\ op \in [Thread -> Op]

Signalling(t) == pc[t] \in {"sig_lock", "sig"}

\* The thread has taken the semaphore and not given it back.
Inside(t) ==
  \/ pc[t] \in {"in", "release"}
  \/ Signalling(t) /\ op[t] = "none"

\* System calls exclude each other: the semaphore is 1 when nobody is inside
\* the kernel and otherwise exactly one thread is, in spite of the waits and
\* the wakeups in between (kernel_lock(), kernel_wait_wchan()).
KernelExclusion ==
  /\ kernel_sem = 1 <=> \A t \in Thread : ~Inside(t)
  /\ \A t, u \in Thread : Inside(t) /\ Inside(u) => t = u

InRing(t) == pc[t] \in {"cw_sleep", "cw_wake"} /\ ~removed[t]

\* The ring of a condition variable holds exactly the waiters that live on
\* the stack of a thread inside cv_wait(), once each: no signal ever touches
\* the stack frame of a cv_wait() that has returned, and the assertion of
\* cv_wait() holds.
RingSound ==
  /\ \A c \in CondVar : IsInjective(waitset[c])
  /\ \A c \in CondVar, t \in Thread :
       t \in Range(waitset[c]) <=> cv[t] = c /\ InRing(t)
  /\ \A t \in Thread : InRing(t) => ~signalled[t]

\* Nobody sleeps where no signal can reach it: marking the thread as stopped
\* and unlocking the ring are one step (sleep_releasing()).
SleepersReachable ==
  \A t \in Thread : state[t] = "STOPPED" => t \in Range(waitset[cv[t]])

\* A free kernel is never overlooked: if threads sleep until the kernel is
\* free, and it is, then some other thread is on its way to take the kernel,
\* or to signal one of them.
FreeKernelNoticed ==
  kernel_sem = 1 /\ (\E t \in Thread : state[t] = "STOPPED" /\ cv[t] = kernel_sem_cv) =>
    \E t \in Thread :
      \/ pc[t] \in {"lock", "test", "cw_relock"}
      \/ pc[t] = "cw_wake" /\ state[t] = "RUNNING"
      \/ Signalling(t) /\ sig[t] = kernel_sem_cv

\* What the kernel lock and the condition variables promise together: system
\* calls exclude each other, rings hold exactly the waiters that exist, nobody
\* sleeps out of reach of a signal, and a free kernel is noticed
\* (kernel_lock(), kernel_wait_wchan(), cv_wait(), cv_signal()).
KernelSafety == KernelExclusion /\ RingSound /\ SleepersReachable /\ FreeKernelNoticed

\* A signal is used up only by waking a thread; if it wakes none there was
\* no waiter left to wake (the loop of cv_signal(), when a timeout has been
\* faster than the signal).
SignalNotSwallowed ==
  [][\A t \in Thread :
       pc[t] = "sig" /\ pc'[t] # "sig" =>
         \/ waitset'[sig[t]] = <<>>
         \/ \E w \in Thread : state[w] = "STOPPED" /\ state'[w] = "RUNNING"]_vars

(***************************************************************************)
(* The strengthening that makes these invariants inductive: who holds the  *)
(* mutexes, and which arguments are valid where.                           *)
(***************************************************************************)
Releasing == {"unlock", "wait", "sleep"}

HoldsMutex(t) ==
  \/ pc[t] \in {"test", "released", "cw_lock"}
  \/ Signalling(t) /\ op[t] \in Releasing

HoldsRing(t, c) ==
  \/ pc[t] = "sig" /\ sig[t] = c
  \/ pc[t] = "cw_sleep" /\ cv[t] = c

LocksInv ==
  /\ \A t \in Thread : kernel_mutex = t <=> HoldsMutex(t)
  /\ \A t \in Thread, c \in CondVar : waitset_lock[c] = t <=> HoldsRing(t, c)

ThreadInv(t) ==
  /\ pc[t] \in {"release", "released"} => op[t] \in Releasing
  /\ Signalling(t) => /\ sig[t] \in CondVar
                      /\ op[t] \in Releasing => sig[t] = kernel_sem_cv
  /\ pc[t] \in {"release", "sig_lock", "sig", "released"} /\ op[t] = "wait" => cv[t] \in Cond
  /\ pc[t] \in {"cw_lock", "cw_sleep", "cw_wake"} => cv[t] \in CondVar
  /\ pc[t] = "cw_sleep" => ~removed[t]
  /\ state[t] = "STOPPED" => pc[t] = "cw_wake" /\ ~removed[t]
  /\ state[t] = "EXITED" <=> pc[t] = "exited"
  /\ pc[t] = "cw_lock" /\ cv[t] = kernel_sem_cv => kernel_sem = 0

\* A thread is in the ring of the semaphore and cannot notice a free kernel.
SemWaiter(t) == (pc[t] = "cw_sleep" \/ state[t] = "STOPPED") /\ cv[t] = kernel_sem_cv

\* A thread that is going to take the kernel, or to wake up a waiter.
OnTheWay(t) ==
  \/ pc[t] \in {"lock", "test", "cw_relock"}
  \/ pc[t] = "cw_wake" /\ state[t] = "RUNNING"
  \/ Signalling(t) /\ sig[t] = kernel_sem_cv

NoticeInv ==
  kernel_sem = 1 /\ (\E t \in Thread : SemWaiter(t)) => \E t \in Thread : OnTheWay(t)

\* The inductive invariant of the kernel's concurrency control.
KernelInv ==
  /\ TypeOK
  /\ LocksInv
  /\ \A t \in Thread : ThreadInv(t)
  /\ KernelExclusion
  /\ RingSound
  /\ NoticeInv

(***************************************************************************)
(* The kernel lock implements KernelMonitor.  A thread owns the kernel     *)
(* until it unlocks kernel_mutex, although the semaphore is free earlier.  *)
(***************************************************************************)
\* The thread has given back the semaphore, but not yet kernel_mutex.
HandsOver(t) ==
  \/ pc[t] \in {"sig_lock", "sig", "released"} /\ op[t] \in Releasing
  \/ pc[t] = "cw_lock" /\ cv[t] \in Cond

Owns(t) == Inside(t) \/ HandsOver(t)
Owners == {t \in Thread : Owns(t)}
Owner == IF Owners = {} THEN Nil ELSE CHOOSE t \in Owners : TRUE

Waits(t) == pc[t] = "cw_sleep" \/ state[t] = "STOPPED"
Blocked == [t \in Thread |-> IF Waits(t) /\ cv[t] \in Cond THEN cv[t] ELSE Nil]

Monitor == INSTANCE KernelMonitor WITH
  owner <- Owner, blocked <- Blocked, gone <- {t \in Thread : pc[t] = "exited"}

\* Nobody gets the kernel before the thread that gives it up has unlocked
\* kernel_mutex: the semaphore stays free until then.
HandOverInv == \A t \in Thread : HandsOver(t) => kernel_sem = 1

\* Releasing the kernel and becoming a waiter are one step of the monitor:
\* whoever enters the kernel finds the waiter in place.
ImplementsKernelMonitor == Monitor!MSpec
=============================================================================
