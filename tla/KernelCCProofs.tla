--------------------------- MODULE KernelCCProofs ---------------------------
(***************************************************************************)
(* KernelInv is an inductive invariant of the concurrency control of the   *)
(* kernel, for any set of threads and of condition variables: one lemma    *)
(* per action, with one step per conjunct of the invariant.                *)
(***************************************************************************)
EXTENDS KernelCC, ListLemmas

\* Cond_Signal() outside the kernel.
LEMMA CondSignalInv ==
  ASSUME KernelInv, NEW t \in Thread, NEW c \in Cond, NEW b \in BOOLEAN, Cond_Signal(t, c, b)
  PROVE  KernelInv'
<1> USE DEF waiters, signals
<1>1. TypeOK /\ ThreadInv(t) /\ pc[t] = "user" /\ c \in CondVar
  BY DEF KernelInv, Cond_Signal, CondVar
<1>2. /\ pc' = [pc EXCEPT ![t] = "sig_lock"]
      /\ sig' = [sig EXCEPT ![t] = c]
      /\ broadcast' = [broadcast EXCEPT ![t] = b]
      /\ op' = [op EXCEPT ![t] = "user"]
      /\ UNCHANGED <<kernel_mutex, kernel_sem, waitset_lock, waitset, state, waiters>>
  BY DEF Cond_Signal
<1>3. TypeOK'
  BY <1>1, <1>2 DEF TypeOK, Point, Op
<1>4. LocksInv'
  BY <1>1, <1>2, KernelCCAssumption DEF KernelInv, LocksInv, HoldsMutex, HoldsRing, Signalling, Releasing, TypeOK
<1>5. \A u \in Thread : ThreadInv(u)'
  BY <1>1, <1>2, KernelCCAssumption DEF KernelInv, ThreadInv, Signalling, Releasing, TypeOK
<1>6. KernelExclusion'
  BY <1>1, <1>2 DEF KernelInv, KernelExclusion, Inside, Signalling, TypeOK
<1>7. RingSound'
  BY <1>1, <1>2 DEF KernelInv, RingSound, InRing, TypeOK
<1>8. NoticeInv'
  BY <1>1, <1>2 DEF KernelInv, NoticeInv, SemWaiter, OnTheWay, Signalling, TypeOK
<1> QED BY <1>3, <1>4, <1>5, <1>6, <1>7, <1>8 DEF KernelInv

\* kernel_signal() and kernel_broadcast().
LEMMA KernelSignalInv ==
  ASSUME KernelInv, NEW t \in Thread, NEW c \in Cond, NEW b \in BOOLEAN, kernel_signal(t, c, b)
  PROVE  KernelInv'
<1> USE DEF waiters, signals
<1>1. TypeOK /\ ThreadInv(t) /\ pc[t] = "in" /\ c \in CondVar
  BY DEF KernelInv, kernel_signal, CondVar
<1>2. /\ pc' = [pc EXCEPT ![t] = "sig_lock"]
      /\ sig' = [sig EXCEPT ![t] = c]
      /\ broadcast' = [broadcast EXCEPT ![t] = b]
      /\ op' = [op EXCEPT ![t] = "none"]
      /\ UNCHANGED <<kernel_mutex, kernel_sem, waitset_lock, waitset, state, waiters>>
  BY DEF kernel_signal
<1>3. TypeOK'
  BY <1>1, <1>2 DEF TypeOK, Point, Op
<1>4. LocksInv'
  BY <1>1, <1>2, KernelCCAssumption DEF KernelInv, LocksInv, HoldsMutex, HoldsRing, Signalling, Releasing, TypeOK
<1>5. \A u \in Thread : ThreadInv(u)'
  BY <1>1, <1>2, KernelCCAssumption DEF KernelInv, ThreadInv, Signalling, Releasing, TypeOK
<1>6. KernelExclusion'
  BY <1>1, <1>2 DEF KernelInv, KernelExclusion, Inside, Signalling, TypeOK
<1>7. RingSound'
  BY <1>1, <1>2 DEF KernelInv, RingSound, InRing, TypeOK
<1>8. NoticeInv'
  BY <1>1, <1>2 DEF KernelInv, NoticeInv, SemWaiter, OnTheWay, Signalling, TypeOK
<1> QED BY <1>3, <1>4, <1>5, <1>6, <1>7, <1>8 DEF KernelInv

\* Cond_Signal() locks the ring.
LEMMA SignalLockInv ==
  ASSUME KernelInv, NEW t \in Thread, signal_lock(t)
  PROVE  KernelInv'
<1> USE DEF waiters, signals
<1>1. TypeOK /\ ThreadInv(t) /\ pc[t] = "sig_lock" /\ sig[t] \in CondVar
  BY DEF KernelInv, signal_lock, ThreadInv, Signalling
<1>2. /\ pc' = [pc EXCEPT ![t] = "sig"]
      /\ waitset_lock[sig[t]] = Nil
      /\ waitset_lock' = [waitset_lock EXCEPT ![sig[t]] = t]
      /\ UNCHANGED <<kernel_mutex, kernel_sem, waitset, state, waiters, signals>>
  BY DEF signal_lock
<1>3. TypeOK'
  BY <1>1, <1>2 DEF TypeOK, Point, Op
<1>4. LocksInv'
  BY <1>1, <1>2, KernelCCAssumption DEF KernelInv, LocksInv, HoldsMutex, HoldsRing, Signalling, Releasing, TypeOK
<1>5. \A u \in Thread : ThreadInv(u)'
  BY <1>1, <1>2, KernelCCAssumption DEF KernelInv, ThreadInv, Signalling, Releasing, TypeOK
<1>6. KernelExclusion'
  BY <1>1, <1>2 DEF KernelInv, KernelExclusion, Inside, Signalling, TypeOK
<1>7. RingSound'
  BY <1>1, <1>2 DEF KernelInv, RingSound, InRing, TypeOK
<1>8. NoticeInv'
  BY <1>1, <1>2 DEF KernelInv, NoticeInv, SemWaiter, OnTheWay, Signalling, TypeOK
<1> QED BY <1>3, <1>4, <1>5, <1>6, <1>7, <1>8 DEF KernelInv

\* Where Cond_Signal() returns to.
LEMMA SignalReturnCases ==
  ASSUME NEW o \in Op
  PROVE  \/ o = "none" /\ SignalReturn(o) = "in"
         \/ o = "user" /\ SignalReturn(o) = "user"
         \/ o \in Releasing /\ SignalReturn(o) = "released"
BY DEF Op, Releasing, SignalReturn

\* A signal finds nobody, or a broadcast nobody else.
LEMMA SignalNoneInv ==
  ASSUME KernelInv, NEW t \in Thread, signal_none(t)
  PROVE  KernelInv'
<1> USE DEF waiters, signals
<1> DEFINE q == SignalReturn(op[t])
<1>1. TypeOK /\ ThreadInv(t) /\ pc[t] = "sig" /\ sig[t] \in CondVar /\ op[t] \in Op
  BY DEF KernelInv, signal_none, ThreadInv, Signalling, TypeOK
<1>2. /\ pc' = [pc EXCEPT ![t] = q]
      /\ \/ op[t] = "none" /\ q = "in"
         \/ op[t] = "user" /\ q = "user"
         \/ op[t] \in Releasing /\ q = "released"
      /\ waitset[sig[t]] = <<>>
      /\ waitset_lock' = [waitset_lock EXCEPT ![sig[t]] = Nil]
      /\ UNCHANGED <<kernel_mutex, kernel_sem, waitset, state, waiters, signals>>
  BY <1>1, SignalReturnCases DEF signal_none
<1> HIDE DEF q
<1>3. TypeOK'
  BY <1>1, <1>2 DEF TypeOK, Point, Op
<1>4. LocksInv'
  BY <1>1, <1>2, KernelCCAssumption DEF KernelInv, LocksInv, HoldsMutex, HoldsRing, Signalling, Releasing, TypeOK
<1>5. \A u \in Thread : ThreadInv(u)'
  BY <1>1, <1>2, KernelCCAssumption DEF KernelInv, ThreadInv, Signalling, Releasing, TypeOK
<1>6. KernelExclusion'
  BY <1>1, <1>2 DEF KernelInv, KernelExclusion, Inside, Signalling, Releasing, TypeOK
<1>7. RingSound'
  BY <1>1, <1>2 DEF KernelInv, RingSound, InRing, TypeOK
<1>8. NoticeInv'
  <2>1. CASE sig[t] # kernel_sem_cv
    BY <1>1, <1>2, <2>1 DEF KernelInv, NoticeInv, SemWaiter, OnTheWay, Signalling, TypeOK
  <2>2. CASE sig[t] = kernel_sem_cv
    <3>1. Range(waitset[kernel_sem_cv]) = {} /\ kernel_sem_cv \in CondVar
      BY <1>1, <1>2, <2>2 DEF Range
    <3>2. \A u \in Thread : SemWaiter(u) => InRing(u) /\ cv[u] = kernel_sem_cv
      BY DEF KernelInv, ThreadInv, SemWaiter, InRing
    <3>3. \A u \in Thread : ~SemWaiter(u)
      BY <3>1, <3>2 DEF KernelInv, RingSound
    <3>4. \A u \in Thread : SemWaiter(u)' => SemWaiter(u)
      BY <1>1, <1>2 DEF SemWaiter, TypeOK
    <3> QED BY <3>3, <3>4 DEF NoticeInv
  <2> QED BY <2>1, <2>2
<1> QED BY <1>3, <1>4, <1>5, <1>6, <1>7, <1>8 DEF KernelInv

\* cv_wait() goes to sleep and unlocks the ring.
LEMMA SleepInv ==
  ASSUME KernelInv, NEW t \in Thread, cv_wait_sleep(t)
  PROVE  KernelInv'
<1> USE DEF waiters, signals
<1>1. TypeOK /\ ThreadInv(t) /\ pc[t] = "cw_sleep" /\ cv[t] \in CondVar
  BY DEF KernelInv, cv_wait_sleep, ThreadInv
<1>2. /\ pc' = [pc EXCEPT ![t] = "cw_wake"]
      /\ state' = [state EXCEPT ![t] = "STOPPED"]
      /\ waitset_lock' = [waitset_lock EXCEPT ![cv[t]] = Nil]
      /\ UNCHANGED <<kernel_mutex, kernel_sem, waitset, waiters, signals>>
  BY DEF cv_wait_sleep
<1>3. TypeOK'
  BY <1>1, <1>2 DEF TypeOK, Point, Op
<1>4. LocksInv'
  BY <1>1, <1>2, KernelCCAssumption DEF KernelInv, LocksInv, HoldsMutex, HoldsRing, Signalling, Releasing, TypeOK
<1>5. \A u \in Thread : ThreadInv(u)'
  BY <1>1, <1>2, KernelCCAssumption DEF KernelInv, ThreadInv, Signalling, Releasing, TypeOK
<1>6. KernelExclusion'
  BY <1>1, <1>2 DEF KernelInv, KernelExclusion, Inside, Signalling, TypeOK
<1>7. RingSound'
  BY <1>1, <1>2 DEF KernelInv, RingSound, InRing, TypeOK
<1>8. NoticeInv'
  BY <1>1, <1>2 DEF KernelInv, NoticeInv, SemWaiter, OnTheWay, Signalling, TypeOK
<1> QED BY <1>3, <1>4, <1>5, <1>6, <1>7, <1>8 DEF KernelInv

\* The timeout of a sleeper expires.
LEMMA TimeoutInv ==
  ASSUME KernelInv, NEW t \in Thread, timeout(t)
  PROVE  KernelInv'
<1> USE DEF waiters, signals
<1>1. TypeOK /\ ThreadInv(t) /\ pc[t] = "cw_wake" /\ state[t] = "STOPPED"
  BY DEF KernelInv, timeout
<1>2. /\ state' = [state EXCEPT ![t] = "RUNNING"]
      /\ UNCHANGED <<pc, kernel_mutex, kernel_sem, waitset_lock, waitset, waiters, signals>>
  BY DEF timeout
<1>3. TypeOK'
  BY <1>1, <1>2 DEF TypeOK, Point, Op
<1>4. LocksInv'
  BY <1>1, <1>2, KernelCCAssumption DEF KernelInv, LocksInv, HoldsMutex, HoldsRing, Signalling, Releasing, TypeOK
<1>5. \A u \in Thread : ThreadInv(u)'
  BY <1>1, <1>2, KernelCCAssumption DEF KernelInv, ThreadInv, Signalling, Releasing, TypeOK
<1>6. KernelExclusion'
  BY <1>1, <1>2 DEF KernelInv, KernelExclusion, Inside, Signalling, TypeOK
<1>7. RingSound'
  BY <1>1, <1>2 DEF KernelInv, RingSound, InRing, TypeOK
<1>8. NoticeInv'
  BY <1>1, <1>2 DEF KernelInv, NoticeInv, SemWaiter, OnTheWay, Signalling, TypeOK
<1> QED BY <1>3, <1>4, <1>5, <1>6, <1>7, <1>8 DEF KernelInv

\* cv_wait() locks the mutex again.
LEMMA RelockInv ==
  ASSUME KernelInv, NEW t \in Thread, cv_wait_relock(t)
  PROVE  KernelInv'
<1> USE DEF waiters, signals
<1>1. TypeOK /\ ThreadInv(t) /\ pc[t] = "cw_relock" /\ kernel_mutex = Nil
  BY DEF KernelInv, cv_wait_relock
<1>2. /\ pc' = [pc EXCEPT ![t] = "test"]
      /\ kernel_mutex' = t
      /\ cv' = [cv EXCEPT ![t] = Nil]
      /\ timed' = [timed EXCEPT ![t] = FALSE]
      /\ UNCHANGED <<kernel_sem, waitset_lock, waitset, state, removed, signalled, signals>>
  BY DEF cv_wait_relock
<1>3. TypeOK'
  BY <1>1, <1>2 DEF TypeOK, Point, Op
<1>4. LocksInv'
  BY <1>1, <1>2, KernelCCAssumption DEF KernelInv, LocksInv, HoldsMutex, HoldsRing, Signalling, Releasing, TypeOK
<1>5. \A u \in Thread : ThreadInv(u)'
  BY <1>1, <1>2, KernelCCAssumption DEF KernelInv, ThreadInv, Signalling, Releasing, TypeOK
<1>6. KernelExclusion'
  BY <1>1, <1>2 DEF KernelInv, KernelExclusion, Inside, Signalling, TypeOK
<1>7. RingSound'
  BY <1>1, <1>2 DEF KernelInv, RingSound, InRing, TypeOK
<1>8. NoticeInv'
  BY <1>1, <1>2 DEF KernelInv, NoticeInv, SemWaiter, OnTheWay, Signalling, TypeOK
<1> QED BY <1>3, <1>4, <1>5, <1>6, <1>7, <1>8 DEF KernelInv

\* A system call begins.
LEMMA SystemCallInv ==
  ASSUME KernelInv, NEW t \in Thread, SystemCall(t)
  PROVE  KernelInv'
<1> USE DEF waiters, signals
<1>1. TypeOK /\ ThreadInv(t) /\ pc[t] = "user"
  BY DEF KernelInv, SystemCall
<1>2. /\ pc' = [pc EXCEPT ![t] = "lock"]
      /\ UNCHANGED <<kernel_mutex, kernel_sem, waitset_lock, waitset, state, waiters, signals>>
  BY DEF SystemCall
<1>3. TypeOK'
  BY <1>1, <1>2 DEF TypeOK, Point, Op
<1>4. LocksInv'
  BY <1>1, <1>2, KernelCCAssumption DEF KernelInv, LocksInv, HoldsMutex, HoldsRing, Signalling, Releasing, TypeOK
<1>5. \A u \in Thread : ThreadInv(u)'
  BY <1>1, <1>2, KernelCCAssumption DEF KernelInv, ThreadInv, Signalling, Releasing, TypeOK
<1>6. KernelExclusion'
  BY <1>1, <1>2 DEF KernelInv, KernelExclusion, Inside, Signalling, TypeOK
<1>7. RingSound'
  BY <1>1, <1>2 DEF KernelInv, RingSound, InRing, TypeOK
<1>8. NoticeInv'
  BY <1>1, <1>2 DEF KernelInv, NoticeInv, SemWaiter, OnTheWay, Signalling, TypeOK
<1> QED BY <1>3, <1>4, <1>5, <1>6, <1>7, <1>8 DEF KernelInv

\* kernel_lock() locks the mutex.
LEMMA LockInv ==
  ASSUME KernelInv, NEW t \in Thread, kernel_lock(t)
  PROVE  KernelInv'
<1> USE DEF waiters, signals
<1>1. TypeOK /\ ThreadInv(t) /\ pc[t] = "lock" /\ kernel_mutex = Nil
  BY DEF KernelInv, kernel_lock
<1>2. /\ pc' = [pc EXCEPT ![t] = "test"]
      /\ kernel_mutex' = t
      /\ UNCHANGED <<kernel_sem, waitset_lock, waitset, state, waiters, signals>>
  BY DEF kernel_lock
<1>3. TypeOK'
  BY <1>1, <1>2 DEF TypeOK, Point, Op
<1>4. LocksInv'
  BY <1>1, <1>2, KernelCCAssumption DEF KernelInv, LocksInv, HoldsMutex, HoldsRing, Signalling, Releasing, TypeOK
<1>5. \A u \in Thread : ThreadInv(u)'
  BY <1>1, <1>2, KernelCCAssumption DEF KernelInv, ThreadInv, Signalling, Releasing, TypeOK
<1>6. KernelExclusion'
  BY <1>1, <1>2 DEF KernelInv, KernelExclusion, Inside, Signalling, TypeOK
<1>7. RingSound'
  BY <1>1, <1>2 DEF KernelInv, RingSound, InRing, TypeOK
<1>8. NoticeInv'
  BY <1>1, <1>2 DEF KernelInv, NoticeInv, SemWaiter, OnTheWay, Signalling, TypeOK
<1> QED BY <1>3, <1>4, <1>5, <1>6, <1>7, <1>8 DEF KernelInv

\* The semaphore is free: the thread takes it.
LEMMA TakeInv ==
  ASSUME KernelInv, NEW t \in Thread, kernel_acquire(t), kernel_sem > 0
  PROVE  KernelInv'
<1> USE DEF waiters, signals
<1>1. TypeOK /\ ThreadInv(t) /\ pc[t] = "test" /\ kernel_sem = 1
  BY DEF KernelInv, kernel_acquire, TypeOK
<1>2. /\ pc' = [pc EXCEPT ![t] = "in"]
      /\ kernel_sem' = 0
      /\ kernel_mutex' = Nil
      /\ UNCHANGED <<waitset_lock, waitset, state, waiters, signals>>
  BY <1>1 DEF kernel_acquire, KernelFree
<1>3. TypeOK'
  BY <1>1, <1>2 DEF TypeOK, Point, Op
<1>4. LocksInv'
  BY <1>1, <1>2, KernelCCAssumption DEF KernelInv, LocksInv, HoldsMutex, HoldsRing, Signalling, Releasing, TypeOK
<1>5. \A u \in Thread : ThreadInv(u)'
  BY <1>1, <1>2, KernelCCAssumption DEF KernelInv, ThreadInv, Signalling, Releasing, TypeOK
<1>6. KernelExclusion'
  BY <1>1, <1>2 DEF KernelInv, KernelExclusion, Inside, Signalling, TypeOK
<1>7. RingSound'
  BY <1>1, <1>2 DEF KernelInv, RingSound, InRing, TypeOK
<1>8. NoticeInv'
  BY <1>1, <1>2 DEF KernelInv, NoticeInv, SemWaiter, OnTheWay, Signalling, TypeOK
<1> QED BY <1>3, <1>4, <1>5, <1>6, <1>7, <1>8 DEF KernelInv

\* The semaphore is taken: the thread goes on to wait.
LEMMA RetryInv ==
  ASSUME KernelInv, NEW t \in Thread, kernel_acquire(t), ~(kernel_sem > 0)
  PROVE  KernelInv'
<1> USE DEF waiters, signals
<1>1. TypeOK /\ ThreadInv(t) /\ pc[t] = "test" /\ kernel_sem = 0 /\ kernel_sem_cv \in CondVar
  BY DEF KernelInv, kernel_acquire, TypeOK, CondVar
<1>2. /\ pc' = [pc EXCEPT ![t] = "cw_lock"]
      /\ cv' = [cv EXCEPT ![t] = kernel_sem_cv]
      /\ UNCHANGED <<kernel_sem, kernel_mutex, waitset_lock, waitset, state, removed, signalled, timed, signals>>
  BY <1>1 DEF kernel_acquire, KernelFree
<1>3. TypeOK'
  BY <1>1, <1>2 DEF TypeOK, Point, Op
<1>4. LocksInv'
  BY <1>1, <1>2, KernelCCAssumption DEF KernelInv, LocksInv, HoldsMutex, HoldsRing, Signalling, Releasing, TypeOK
<1>5. \A u \in Thread : ThreadInv(u)'
  BY <1>1, <1>2, KernelCCAssumption DEF KernelInv, ThreadInv, Signalling, Releasing, TypeOK
<1>6. KernelExclusion'
  BY <1>1, <1>2 DEF KernelInv, KernelExclusion, Inside, Signalling, TypeOK
<1>7. RingSound'
  BY <1>1, <1>2 DEF KernelInv, RingSound, InRing, TypeOK
<1>8. NoticeInv'
  BY <1>1, <1>2 DEF KernelInv, NoticeInv, SemWaiter, OnTheWay, Signalling, TypeOK
<1> QED BY <1>3, <1>4, <1>5, <1>6, <1>7, <1>8 DEF KernelInv

\* A thread begins to give up the kernel.
LEMMA LeaveInv ==
  ASSUME KernelInv, NEW t \in Thread, NEW o \in Releasing, NEW c \in Cond \cup {Nil},
         NEW b \in BOOLEAN, o = "wait" => c \in Cond, kernel_leave(t, o, c, b)
  PROVE  KernelInv'
<1> USE DEF waiters, signals
<1>1. TypeOK /\ ThreadInv(t) /\ pc[t] = "in" /\ c \in CondVar \cup {Nil}
  BY DEF KernelInv, kernel_leave, CondVar
<1>2. /\ pc' = [pc EXCEPT ![t] = "release"]
      /\ op' = [op EXCEPT ![t] = o]
      /\ cv' = [cv EXCEPT ![t] = c]
      /\ timed' = [timed EXCEPT ![t] = b]
      /\ UNCHANGED <<kernel_mutex, kernel_sem, waitset_lock, waitset, state, removed, signalled, sig, broadcast>>
  BY DEF kernel_leave
<1>3. TypeOK'
  BY <1>1, <1>2 DEF TypeOK, Point, Op, Releasing
<1>4. LocksInv'
  BY <1>1, <1>2, KernelCCAssumption DEF KernelInv, LocksInv, HoldsMutex, HoldsRing, Signalling, Releasing, TypeOK
<1>5. \A u \in Thread : ThreadInv(u)'
  BY <1>1, <1>2, KernelCCAssumption DEF KernelInv, ThreadInv, Signalling, Releasing, TypeOK
<1>6. KernelExclusion'
  BY <1>1, <1>2 DEF KernelInv, KernelExclusion, Inside, Signalling, TypeOK
<1>7. RingSound'
  BY <1>1, <1>2 DEF KernelInv, RingSound, InRing, TypeOK
<1>8. NoticeInv'
  BY <1>1, <1>2 DEF KernelInv, NoticeInv, SemWaiter, OnTheWay, Signalling, ThreadInv, TypeOK
<1> QED BY <1>3, <1>4, <1>5, <1>6, <1>7, <1>8 DEF KernelInv

\* The semaphore is given back, with the mutex locked.
LEMMA ReleaseInv ==
  ASSUME KernelInv, NEW t \in Thread, kernel_release(t)
  PROVE  KernelInv'
<1> USE DEF waiters, signals
<1>1. TypeOK /\ ThreadInv(t) /\ pc[t] = "release"
      /\ kernel_mutex = Nil /\ kernel_sem_cv \in CondVar /\ kernel_sem = 0 /\ op[t] \in Releasing
  BY DEF KernelInv, kernel_release, CondVar,
         TypeOK, KernelExclusion, Inside, ThreadInv
<1>2. /\ pc' = [pc EXCEPT ![t] = "sig_lock"]
      /\ kernel_mutex' = t
      /\ kernel_sem' = kernel_sem + 1
      /\ sig' = [sig EXCEPT ![t] = kernel_sem_cv]
      /\ broadcast' = [broadcast EXCEPT ![t] = FALSE]
      /\ UNCHANGED <<waitset_lock, waitset, state, waiters, op>>
  BY DEF kernel_release
<1>3. TypeOK'
  BY <1>1, <1>2 DEF TypeOK, Point, Op
<1>4. LocksInv'
  BY <1>1, <1>2, KernelCCAssumption DEF KernelInv, LocksInv, HoldsMutex, HoldsRing, Signalling, Releasing, TypeOK
<1>5. \A u \in Thread : ThreadInv(u)'
  BY <1>1, <1>2, KernelCCAssumption DEF KernelInv, LocksInv, HoldsMutex, ThreadInv,
       Signalling, Releasing, TypeOK
<1>6. KernelExclusion'
  BY <1>1, <1>2 DEF KernelInv, KernelExclusion, Inside, Signalling, Releasing, TypeOK
<1>7. RingSound'
  BY <1>1, <1>2 DEF KernelInv, RingSound, InRing, TypeOK
<1>8. NoticeInv'
  BY <1>1, <1>2 DEF KernelInv, NoticeInv, SemWaiter, OnTheWay, Signalling, TypeOK
<1> QED BY <1>3, <1>4, <1>5, <1>6, <1>7, <1>8 DEF KernelInv

\* kernel_unlock() unlocks the mutex.
LEMMA UnlockInv ==
  ASSUME KernelInv, NEW t \in Thread, kernel_unlock(t)
  PROVE  KernelInv'
<1> USE DEF waiters, signals
<1>1. TypeOK /\ ThreadInv(t) /\ pc[t] = "released" /\ op[t] = "unlock"
  BY DEF KernelInv, kernel_unlock
<1>2. /\ pc' = [pc EXCEPT ![t] = "user"]
      /\ kernel_mutex' = Nil
      /\ op' = [op EXCEPT ![t] = "none"]
      /\ UNCHANGED <<kernel_sem, waitset_lock, waitset, state, waiters, sig, broadcast>>
  BY DEF kernel_unlock
<1>3. TypeOK'
  BY <1>1, <1>2 DEF TypeOK, Point, Op
<1>4. LocksInv'
  BY <1>1, <1>2, KernelCCAssumption DEF KernelInv, LocksInv, HoldsMutex, HoldsRing, Signalling, Releasing, TypeOK
<1>5. \A u \in Thread : ThreadInv(u)'
  BY <1>1, <1>2, KernelCCAssumption DEF KernelInv, ThreadInv, Signalling, Releasing, TypeOK
<1>6. KernelExclusion'
  BY <1>1, <1>2 DEF KernelInv, KernelExclusion, Inside, Signalling, TypeOK
<1>7. RingSound'
  BY <1>1, <1>2 DEF KernelInv, RingSound, InRing, TypeOK
<1>8. NoticeInv'
  BY <1>1, <1>2 DEF KernelInv, NoticeInv, SemWaiter, OnTheWay, Signalling, TypeOK
<1> QED BY <1>3, <1>4, <1>5, <1>6, <1>7, <1>8 DEF KernelInv

\* kernel_wait_wchan() enters cv_wait().
LEMMA WaitInv ==
  ASSUME KernelInv, NEW t \in Thread, kernel_wait(t)
  PROVE  KernelInv'
<1> USE DEF waiters, signals
<1>1. TypeOK /\ ThreadInv(t) /\ pc[t] = "released" /\ op[t] = "wait" /\ cv[t] \in Cond /\ cv[t] \in CondVar
  BY DEF KernelInv, kernel_wait, ThreadInv, CondVar
<1>2. /\ pc' = [pc EXCEPT ![t] = "cw_lock"]
      /\ op' = [op EXCEPT ![t] = "none"]
      /\ UNCHANGED <<kernel_mutex, kernel_sem, waitset_lock, waitset, state, waiters, sig, broadcast>>
  BY DEF kernel_wait
<1>3. TypeOK'
  BY <1>1, <1>2 DEF TypeOK, Point, Op
<1>4. LocksInv'
  BY <1>1, <1>2, KernelCCAssumption DEF KernelInv, LocksInv, HoldsMutex, HoldsRing, Signalling, Releasing, TypeOK
<1>5. \A u \in Thread : ThreadInv(u)'
  BY <1>1, <1>2, KernelCCAssumption DEF KernelInv, ThreadInv, Signalling, Releasing, TypeOK
<1>6. KernelExclusion'
  BY <1>1, <1>2 DEF KernelInv, KernelExclusion, Inside, Signalling, TypeOK
<1>7. RingSound'
  BY <1>1, <1>2 DEF KernelInv, RingSound, InRing, TypeOK
<1>8. NoticeInv'
  BY <1>1, <1>2 DEF KernelInv, NoticeInv, SemWaiter, OnTheWay, Signalling, TypeOK
<1> QED BY <1>3, <1>4, <1>5, <1>6, <1>7, <1>8 DEF KernelInv

\* kernel_sleep(EXITED).
LEMMA ExitInv ==
  ASSUME KernelInv, NEW t \in Thread, kernel_sleep(t)
  PROVE  KernelInv'
<1> USE DEF waiters, signals
<1>1. TypeOK /\ ThreadInv(t) /\ pc[t] = "released" /\ op[t] = "sleep"
  BY DEF KernelInv, kernel_sleep
<1>2. /\ pc' = [pc EXCEPT ![t] = "exited"]
      /\ state' = [state EXCEPT ![t] = "EXITED"]
      /\ kernel_mutex' = Nil
      /\ op' = [op EXCEPT ![t] = "none"]
      /\ UNCHANGED <<kernel_sem, waitset_lock, waitset, waiters, sig, broadcast>>
  BY DEF kernel_sleep
<1>3. TypeOK'
  BY <1>1, <1>2 DEF TypeOK, Point, Op
<1>4. LocksInv'
  BY <1>1, <1>2, KernelCCAssumption DEF KernelInv, LocksInv, HoldsMutex, HoldsRing, Signalling, Releasing, TypeOK
<1>5. \A u \in Thread : ThreadInv(u)'
  BY <1>1, <1>2, KernelCCAssumption DEF KernelInv, ThreadInv, Signalling, Releasing, TypeOK
<1>6. KernelExclusion'
  BY <1>1, <1>2 DEF KernelInv, KernelExclusion, Inside, Signalling, TypeOK
<1>7. RingSound'
  BY <1>1, <1>2 DEF KernelInv, RingSound, InRing, TypeOK
<1>8. NoticeInv'
  BY <1>1, <1>2 DEF KernelInv, NoticeInv, SemWaiter, OnTheWay, Signalling, TypeOK
<1> QED BY <1>3, <1>4, <1>5, <1>6, <1>7, <1>8 DEF KernelInv

----------------------------------------------------------------------------
\* cv_wait() joins the ring and unlocks the mutex.
LEMMA JoinInv ==
  ASSUME KernelInv, NEW t \in Thread, cv_wait(t)
  PROVE  KernelInv'
<1> DEFINE c == cv[t]
<1> USE DEF signals
<1>1. TypeOK /\ ThreadInv(t) /\ pc[t] = "cw_lock" /\ c \in CondVar /\ waitset_lock[c] = Nil
  BY DEF KernelInv, ThreadInv, cv_wait
<1>2. /\ waitset_lock' = [waitset_lock EXCEPT ![c] = t]
      /\ waitset' = [waitset EXCEPT ![c] = Append(@, t)]
      /\ removed' = [removed EXCEPT ![t] = FALSE]
      /\ signalled' = [signalled EXCEPT ![t] = FALSE]
      /\ kernel_mutex' = Nil
      /\ pc' = [pc EXCEPT ![t] = "cw_sleep"]
      /\ UNCHANGED <<kernel_sem, state, cv, timed, signals>>
  BY DEF cv_wait
<1>3. waitset[c] \in Seq(Thread) /\ IsInjective(waitset[c]) /\ t \notin Range(waitset[c])
  BY <1>1 DEF KernelInv, RingSound, InRing, TypeOK
<1>4. /\ waitset'[c] \in Seq(Thread) /\ IsInjective(waitset'[c])
      /\ Range(waitset'[c]) = Range(waitset[c]) \cup {t}
      /\ \A d \in CondVar : d # c => waitset'[d] = waitset[d]
  <2>1. waitset'[c] = Append(waitset[c], t) /\ \A d \in CondVar : d # c => waitset'[d] = waitset[d]
    BY <1>1, <1>2 DEF TypeOK
  <2> QED BY <1>3, <2>1, AppendLemma
<1> HIDE DEF c
<1>5. TypeOK'
  <2>1. waitset' \in [CondVar -> Seq(Thread)]
    BY <1>1, <1>2, <1>3, <1>4 DEF TypeOK
  <2> QED BY <1>1, <1>2, <2>1 DEF TypeOK, Point, Op
<1>6. LocksInv'
  BY <1>1, <1>2, KernelCCAssumption
     DEF KernelInv, LocksInv, HoldsMutex, HoldsRing, Signalling, Releasing, TypeOK, c
<1>7. \A u \in Thread : ThreadInv(u)'
  BY <1>1, <1>2 DEF KernelInv, ThreadInv, Signalling, Releasing, TypeOK, c
<1>8. KernelExclusion'
  BY <1>1, <1>2 DEF KernelInv, KernelExclusion, Inside, Signalling, TypeOK
<1>9. RingSound'
  <2>1. \A d \in CondVar : IsInjective(waitset'[d])
    BY <1>4 DEF KernelInv, RingSound
  <2>2. \A d \in CondVar, u \in Thread : u \in Range(waitset'[d]) <=> cv'[u] = d /\ InRing(u)'
    <3> SUFFICES ASSUME NEW d \in CondVar, NEW u \in Thread
                 PROVE  u \in Range(waitset'[d]) <=> cv'[u] = d /\ InRing(u)'
      OBVIOUS
    <3>1. u \in Range(waitset[d]) <=> cv[u] = d /\ InRing(u)
      BY DEF KernelInv, RingSound
    <3>2. u # t => (InRing(u)' <=> InRing(u))
      BY <1>1, <1>2 DEF InRing, TypeOK
    <3>3. InRing(t)'
      BY <1>1, <1>2 DEF InRing, TypeOK
    <3>4. cv'[u] = cv[u] /\ cv[t] = c
      BY <1>2 DEF c
    <3>5. CASE u = t
      <4>1. d # c => u \notin Range(waitset'[d])
        BY <1>4, <3>1, <3>4, <3>5
      <4>2. d = c => u \in Range(waitset'[d])
        BY <1>4, <3>5
      <4>3. InRing(u)'
        BY <3>3, <3>5
      <4> QED BY <3>4, <3>5, <4>1, <4>2, <4>3
    <3>6. CASE u # t
      <4>1. u \in Range(waitset'[d]) <=> u \in Range(waitset[d])
        BY <1>4, <3>6
      <4> QED BY <3>1, <3>2, <3>4, <3>6, <4>1
    <3> QED BY <3>5, <3>6
  <2>3. \A u \in Thread : InRing(u)' => ~signalled'[u]
    BY <1>1, <1>2 DEF KernelInv, RingSound, InRing, TypeOK
  <2> QED BY <2>1, <2>2, <2>3 DEF RingSound
<1>10. NoticeInv'
  BY <1>1, <1>2 DEF KernelInv, NoticeInv, SemWaiter, OnTheWay, Signalling, ThreadInv, TypeOK, c
<1> QED BY <1>5, <1>6, <1>7, <1>8, <1>9, <1>10 DEF KernelInv

\* A thread that woke up leaves the ring.
LEMMA TidyInv ==
  ASSUME KernelInv, NEW t \in Thread, cv_wait_tidy(t)
  PROVE  KernelInv'
<1> DEFINE c == cv[t]
<1> USE DEF signals, waiters
<1>1. TypeOK /\ ThreadInv(t) /\ pc[t] = "cw_wake" /\ c \in CondVar /\ state[t] = "RUNNING"
  BY DEF KernelInv, ThreadInv, cv_wait_tidy
<1>2. /\ waitset' = [waitset EXCEPT ![c] = IF removed[t] THEN @ ELSE rlist_remove(@, t)]
      /\ pc' = [pc EXCEPT ![t] = "cw_relock"]
      /\ UNCHANGED <<kernel_mutex, kernel_sem, waitset_lock, state, waiters, signals>>
  BY DEF cv_wait_tidy, remove_from_ring
<1>3. waitset[c] \in Seq(Thread) /\ IsInjective(waitset[c])
  BY <1>1 DEF KernelInv, RingSound, TypeOK
<1>4. /\ waitset'[c] \in Seq(Thread) /\ IsInjective(waitset'[c])
      /\ Range(waitset'[c]) = Range(waitset[c]) \ {t}
      /\ \A d \in CondVar : d # c => waitset'[d] = waitset[d]
  <2>0. \A d \in CondVar : d # c => waitset'[d] = waitset[d]
    BY <1>1, <1>2 DEF TypeOK
  <2>1. CASE removed[t]
    <3>1. waitset'[c] = waitset[c]
      BY <1>1, <1>2, <2>1 DEF TypeOK
    <3>2. t \notin Range(waitset[c])
      BY <1>1, <2>1 DEF KernelInv, RingSound, InRing
    <3> QED BY <1>3, <2>0, <3>1, <3>2
  <2>2. CASE ~removed[t]
    <3>1. waitset'[c] = rlist_remove(waitset[c], t)
      BY <1>1, <1>2, <2>2 DEF TypeOK
    <3> QED BY <1>3, <2>0, <3>1, RListRemove
  <2> QED BY <2>1, <2>2
<1> HIDE DEF c
<1>5. TypeOK'
  <2>1. waitset' \in [CondVar -> Seq(Thread)]
    BY <1>1, <1>2, <1>3, <1>4 DEF TypeOK
  <2> QED BY <1>1, <1>2, <2>1 DEF TypeOK, Point, Op
<1>6. LocksInv'
  BY <1>1, <1>2 DEF KernelInv, LocksInv, HoldsMutex, HoldsRing, Signalling, TypeOK
<1>7. \A u \in Thread : ThreadInv(u)'
  BY <1>1, <1>2 DEF KernelInv, ThreadInv, Signalling, TypeOK
<1>8. KernelExclusion'
  BY <1>1, <1>2 DEF KernelInv, KernelExclusion, Inside, Signalling, TypeOK
<1>9. RingSound'
  <2>1. \A d \in CondVar : IsInjective(waitset'[d])
    BY <1>4 DEF KernelInv, RingSound
  <2>2. \A d \in CondVar, u \in Thread : u \in Range(waitset'[d]) <=> cv'[u] = d /\ InRing(u)'
    <3> SUFFICES ASSUME NEW d \in CondVar, NEW u \in Thread
                 PROVE  u \in Range(waitset'[d]) <=> cv'[u] = d /\ InRing(u)'
      OBVIOUS
    <3>1. u \in Range(waitset[d]) <=> cv[u] = d /\ InRing(u)
      BY DEF KernelInv, RingSound
    <3>2. u # t => (InRing(u)' <=> InRing(u))
      BY <1>1, <1>2 DEF InRing, TypeOK
    <3>3. ~InRing(t)'
      BY <1>1, <1>2 DEF InRing, TypeOK
    <3> QED BY <1>2, <1>4, <3>1, <3>2, <3>3 DEF c
  <2>3. \A u \in Thread : InRing(u)' => ~signalled'[u]
    BY <1>1, <1>2 DEF KernelInv, RingSound, InRing, TypeOK
  <2> QED BY <2>1, <2>2, <2>3 DEF RingSound
<1>10. NoticeInv'
  BY <1>1, <1>2 DEF KernelInv, NoticeInv, SemWaiter, OnTheWay, Signalling, TypeOK
<1> QED BY <1>5, <1>6, <1>7, <1>8, <1>9, <1>10 DEF KernelInv

\* cv_signal() takes the first waiter out of the ring and wakes it up.
LEMMA SignalInv ==
  ASSUME KernelInv, NEW t \in Thread, cv_signal(t)
  PROVE  KernelInv'
<1> DEFINE c == sig[t]
           q == pc'[t]
<1> USE DEF signals
<1>1. /\ TypeOK /\ ThreadInv(t) /\ pc[t] = "sig" /\ c \in CondVar /\ op[t] \in Op
      /\ waitset[c] # <<>> /\ waitset_lock[c] = t
  BY DEF KernelInv, ThreadInv, Signalling, LocksInv, HoldsRing, cv_signal, TypeOK
<1>2. waitset[c] \in Seq(Thread) /\ IsInjective(waitset[c])
  BY <1>1 DEF KernelInv, RingSound, TypeOK
<1>3. PICK w \in Thread : w = Head(waitset[c])
  BY <1>1, <1>2, TailLemma
<1>4. /\ waitset' = [waitset EXCEPT ![c] = Tail(@)]
      /\ removed' = [removed EXCEPT ![w] = TRUE]
      /\ signalled' = [signalled EXCEPT ![w] = (state[w] = "STOPPED")]
      /\ state' = [state EXCEPT ![w] = IF @ = "STOPPED" THEN "RUNNING" ELSE @]
      /\ UNCHANGED <<kernel_mutex, kernel_sem, cv, timed, signals>>
  BY <1>3 DEF cv_signal
<1>5. \/ /\ waitset_lock' = waitset_lock /\ pc' = pc
      \/ /\ waitset_lock' = [waitset_lock EXCEPT ![c] = Nil]
         /\ pc' = [pc EXCEPT ![t] = SignalReturn(op[t])]
         /\ state[w] = "STOPPED"
  BY <1>3 DEF cv_signal, cv_signal_last
<1>6. /\ w \in Range(waitset[c])
      /\ waitset'[c] \in Seq(Thread) /\ IsInjective(waitset'[c])
      /\ Range(waitset'[c]) = Range(waitset[c]) \ {w}
      /\ \A d \in CondVar : d # c => waitset'[d] = waitset[d]
  <2>1. waitset'[c] = Tail(waitset[c]) /\ \A d \in CondVar : d # c => waitset'[d] = waitset[d]
    BY <1>1, <1>4 DEF TypeOK
  <2> QED BY <1>1, <1>2, <1>3, <2>1, TailLemma
<1>7. cv[w] = c /\ InRing(w) /\ pc[w] = "cw_wake" /\ w # t
  <2>1. cv[w] = c /\ InRing(w)
    BY <1>1, <1>6 DEF KernelInv, RingSound
  <2>2. w # t
    BY <1>1, <2>1 DEF InRing
  <2>3. pc[w] # "cw_sleep"
    BY <1>1, <1>6, <2>1, <2>2 DEF KernelInv, LocksInv, HoldsRing
  <2> QED BY <2>1, <2>2, <2>3 DEF InRing
<1>8. /\ \A u \in Thread : u # t => pc'[u] = pc[u]
      /\ \/ q = "sig" /\ waitset_lock' = waitset_lock
         \/ /\ waitset_lock' = [waitset_lock EXCEPT ![c] = Nil]
            /\ state[w] = "STOPPED"
            /\ \/ op[t] = "none" /\ q = "in"
               \/ op[t] = "user" /\ q = "user"
               \/ op[t] \in Releasing /\ q = "released"
      /\ pc' = [pc EXCEPT ![t] = q]
  <2>1. CASE waitset_lock' = waitset_lock /\ pc' = pc
    BY <1>1, <2>1 DEF TypeOK
  <2>2. CASE /\ waitset_lock' = [waitset_lock EXCEPT ![c] = Nil]
             /\ pc' = [pc EXCEPT ![t] = SignalReturn(op[t])]
             /\ state[w] = "STOPPED"
    <3>1. q = SignalReturn(op[t]) /\ \A u \in Thread : u # t => pc'[u] = pc[u]
      BY <1>1, <2>2 DEF TypeOK
    <3> QED BY <1>1, <2>2, <3>1, SignalReturnCases
  <2> QED BY <1>5, <2>1, <2>2
<1>9. /\ \A u \in Thread : state'[u] = IF u = w /\ state[u] = "STOPPED" THEN "RUNNING" ELSE state[u]
      /\ \A u \in Thread : u # w => removed'[u] = removed[u] /\ signalled'[u] = signalled[u]
      /\ removed'[w]
  BY <1>1, <1>4, <1>6 DEF TypeOK
<1> HIDE DEF c, q
<1>10. TypeOK'
  <2>1. waitset' \in [CondVar -> Seq(Thread)]
    BY <1>1, <1>4, <1>2, <1>6 DEF TypeOK
  <2>2. pc' \in [Thread -> Point] /\ waitset_lock' \in [CondVar -> Thread \cup {Nil}]
    BY <1>1, <1>8 DEF TypeOK, Point
  <2>3. state' \in [Thread -> {"RUNNING", "STOPPED", "EXITED"}]
    BY <1>1, <1>4, <1>6 DEF TypeOK
  <2>4. removed' \in [Thread -> BOOLEAN]
    BY <1>1, <1>4 DEF TypeOK
  <2>5. signalled' \in [Thread -> BOOLEAN]
    BY <1>1, <1>4 DEF TypeOK
  <2> QED BY <1>1, <1>4, <2>1, <2>2, <2>3, <2>4, <2>5 DEF TypeOK
<1>11. LocksInv'
  BY <1>1, <1>4, <1>8, KernelCCAssumption
     DEF KernelInv, LocksInv, HoldsMutex, HoldsRing, Signalling, Releasing, TypeOK, c
<1>12. \A u \in Thread : ThreadInv(u)'
  <2> SUFFICES ASSUME NEW u \in Thread PROVE ThreadInv(u)'
    OBVIOUS
  <2>1. ThreadInv(u)
    BY DEF KernelInv
  <2>2. CASE u = t
    BY <1>1, <1>4, <1>7, <1>8, <1>9, <2>1, <2>2 DEF ThreadInv, Signalling, Releasing
  <2>3. CASE u = w
    BY <1>1, <1>4, <1>7, <1>8, <1>9, <2>1, <2>3 DEF ThreadInv, Signalling
  <2>4. CASE u # t /\ u # w
    BY <1>4, <1>8, <1>9, <2>1, <2>4 DEF ThreadInv, Signalling
  <2> QED BY <2>2, <2>3, <2>4
<1>13. KernelExclusion'
  BY <1>1, <1>4, <1>8 DEF KernelInv, KernelExclusion, Inside, Signalling, Releasing
<1>14. RingSound'
  <2>1. \A d \in CondVar : IsInjective(waitset'[d])
    BY <1>6 DEF KernelInv, RingSound
  <2>2. /\ \A u \in Thread : u # w => (InRing(u)' <=> InRing(u))
        /\ ~InRing(w)'
    <3>1. ASSUME NEW u \in Thread, u # w, u # t PROVE InRing(u)' <=> InRing(u)
      BY <1>8, <1>9, <3>1 DEF InRing
    <3>2. ~InRing(t)' /\ ~InRing(t)
      BY <1>1, <1>8 DEF InRing, q
    <3>3. ~InRing(w)'
      BY <1>9 DEF InRing
    <3>4. ASSUME NEW u \in Thread, u # w PROVE InRing(u)' <=> InRing(u)
      <4>1. CASE u = t
        BY <3>2, <4>1
      <4>2. CASE u # t
        BY <3>1, <3>4, <4>2
      <4> QED BY <4>1, <4>2
    <3> QED BY <3>3, <3>4
  <2>3. \A d \in CondVar, u \in Thread : u \in Range(waitset'[d]) <=> cv'[u] = d /\ InRing(u)'
    <3> SUFFICES ASSUME NEW d \in CondVar, NEW u \in Thread
                 PROVE  u \in Range(waitset'[d]) <=> cv'[u] = d /\ InRing(u)'
      OBVIOUS
    <3>1. u \in Range(waitset[d]) <=> cv[u] = d /\ InRing(u)
      BY DEF KernelInv, RingSound
    <3>2. cv'[u] = cv[u]
      BY <1>4
    <3>3. CASE u = w
      <4>1. u \notin Range(waitset'[d])
        BY <1>6, <1>7, <3>1, <3>3
      <4>2. ~InRing(u)'
        BY <2>2, <3>3
      <4> QED BY <4>1, <4>2
    <3>4. CASE u # w
      <4>1. u \in Range(waitset'[d]) <=> u \in Range(waitset[d])
        BY <1>6, <3>4
      <4>2. InRing(u)' <=> InRing(u)
        BY <2>2, <3>4
      <4> QED BY <3>1, <3>2, <4>1, <4>2
    <3> QED BY <3>3, <3>4
  <2>4. \A u \in Thread : InRing(u)' => ~signalled'[u]
    <3> SUFFICES ASSUME NEW u \in Thread, InRing(u)' PROVE ~signalled'[u]
      OBVIOUS
    <3>1. u # w
      BY <2>2
    <3>2. InRing(u)
      BY <2>2, <3>1
    <3>3. ~signalled[u]
      BY <3>2 DEF KernelInv, RingSound
    <3> QED BY <1>9, <3>1, <3>3
  <2> QED BY <2>1, <2>3, <2>4 DEF RingSound
<1>15. NoticeInv'
  <2>1. state[w] = "STOPPED" => OnTheWay(w)'
    <3> SUFFICES ASSUME state[w] = "STOPPED" PROVE OnTheWay(w)'
      OBVIOUS
    <3>1. pc'[w] = "cw_wake"
      BY <1>6, <1>7, <1>8
    <3>2. state'[w] = "RUNNING"
      BY <1>6, <1>9
    <3> QED BY <3>1, <3>2 DEF OnTheWay
  <2>2. q = "sig" /\ c = kernel_sem_cv => OnTheWay(t)'
    BY <1>4 DEF OnTheWay, Signalling, q, c
  <2>3. \A u \in Thread : u # t /\ OnTheWay(u) => OnTheWay(u)'
    BY <1>4, <1>8, <1>9 DEF OnTheWay, Signalling
  <2>4. c # kernel_sem_cv => ~OnTheWay(t)
    BY <1>1 DEF OnTheWay, Signalling, c
  <2>5. \A u \in Thread : SemWaiter(u)' => SemWaiter(u)
    BY <1>1, <1>4, <1>8, <1>9 DEF SemWaiter
  <2>6. SUFFICES ASSUME kernel_sem' = 1, NEW v \in Thread, SemWaiter(v)'
                 PROVE  \E u \in Thread : OnTheWay(u)'
    BY DEF NoticeInv
  <2>7. PICK x \in Thread : OnTheWay(x)
    BY <1>4, <2>5, <2>6 DEF KernelInv, NoticeInv
  <2>8. CASE x # t
    BY <2>3, <2>7, <2>8
  <2>9. CASE x = t
    <3>1. c = kernel_sem_cv
      BY <2>4, <2>7, <2>9
    <3>2. CASE q = "sig"
      BY <2>2, <3>1, <3>2
    <3>3. CASE state[w] = "STOPPED"
      BY <1>6, <2>1, <3>3
    <3> QED BY <1>8, <3>2, <3>3
  <2> QED BY <2>8, <2>9
<1> QED BY <1>10, <1>11, <1>12, <1>13, <1>14, <1>15 DEF KernelInv

----------------------------------------------------------------------------
\* The initial states satisfy the invariant.
LEMMA InitInv == Init => KernelInv
<1> SUFFICES ASSUME Init PROVE KernelInv
  OBVIOUS
<1>1. TypeOK
  BY DEF Init, TypeOK, Point, Op
<1>2. LocksInv
  BY KernelCCAssumption DEF Init, LocksInv, HoldsMutex, HoldsRing, Signalling
<1>3. \A t \in Thread : ThreadInv(t)
  BY DEF Init, ThreadInv, Signalling
<1>4. KernelExclusion
  BY DEF Init, KernelExclusion, Inside, Signalling
<1>5. RingSound
  <2>1. \A c \in CondVar : Range(waitset[c]) = {} /\ IsInjective(waitset[c])
    BY DEF Init, Range, IsInjective
  <2>2. \A t \in Thread : ~InRing(t)
    BY DEF Init, InRing
  <2> QED BY <2>1, <2>2 DEF RingSound
<1>6. NoticeInv
  BY DEF Init, NoticeInv, SemWaiter
<1> QED BY <1>1, <1>2, <1>3, <1>4, <1>5, <1>6 DEF KernelInv

\* A step in which nothing changes.
LEMMA StutterInv ==
  ASSUME KernelInv, UNCHANGED vars
  PROVE  KernelInv'
<1> USE DEF vars
<1>1. TypeOK' /\ LocksInv'
  BY DEF KernelInv, TypeOK, LocksInv, HoldsMutex, HoldsRing, Signalling
<1>2. \A t \in Thread : ThreadInv(t)'
  BY DEF KernelInv, ThreadInv, Signalling
<1>3. KernelExclusion' /\ RingSound'
  BY DEF KernelInv, KernelExclusion, Inside, Signalling, RingSound, InRing
<1>4. NoticeInv'
  BY DEF KernelInv, NoticeInv, SemWaiter, OnTheWay, Signalling
<1> QED BY <1>1, <1>2, <1>3, <1>4 DEF KernelInv

\* Every step keeps the invariant.
LEMMA StepInv == KernelInv /\ [Next]_vars => KernelInv'
<1> SUFFICES ASSUME KernelInv, [Next]_vars PROVE KernelInv'
  OBVIOUS
<1>1. CASE UNCHANGED vars
  BY <1>1, StutterInv
<1>2. CASE Next
  <2>1. PICK t \in Thread : Step(t) \/ Call(t) \/ timeout(t)
    BY <1>2 DEF Next
  <2>2. CASE Step(t)
    <3>1. CASE signal_lock(t) \/ cv_signal(t) \/ signal_none(t)
      BY <3>1, SignalLockInv, SignalInv, SignalNoneInv
    <3>2. CASE cv_wait(t) \/ cv_wait_sleep(t) \/ cv_wait_tidy(t) \/ cv_wait_relock(t)
      BY <3>2, JoinInv, SleepInv, TidyInv, RelockInv
    <3>3. CASE kernel_lock(t) \/ kernel_acquire(t) \/ kernel_release(t)
      BY <3>3, LockInv, TakeInv, RetryInv, ReleaseInv
    <3>4. CASE kernel_unlock(t) \/ kernel_wait(t) \/ kernel_sleep(t)
      BY <3>4, UnlockInv, WaitInv, ExitInv
    <3> QED BY <2>2, <3>1, <3>2, <3>3, <3>4 DEF Step
  <2>3. CASE Call(t)
    <3>1. CASE SystemCall(t)
      BY <3>1, SystemCallInv
    <3>2. ASSUME NEW c \in Cond, NEW b \in BOOLEAN, Cond_Signal(t, c, b)
          PROVE  KernelInv'
      BY <3>2, CondSignalInv
    <3>3. ASSUME NEW c \in Cond, NEW b \in BOOLEAN, kernel_signal(t, c, b)
          PROVE  KernelInv'
      BY <3>3, KernelSignalInv
    <3>4. ASSUME NEW c \in Cond, NEW b \in BOOLEAN, kernel_leave(t, "wait", c, b)
          PROVE  KernelInv'
      <4>1. "wait" \in Releasing /\ c \in Cond \cup {Nil}
        BY DEF Releasing
      <4> QED BY <3>4, <4>1, LeaveInv
    <3>5. CASE kernel_leave(t, "unlock", Nil, FALSE) \/ kernel_leave(t, "sleep", Nil, FALSE)
      <4>1. "unlock" \in Releasing /\ "sleep" \in Releasing /\ Nil \in Cond \cup {Nil}
        BY DEF Releasing
      <4>2. FALSE \in BOOLEAN
        BY Zenon
      <4> QED BY <3>5, <4>1, <4>2, LeaveInv
    <3> QED BY <2>3, <3>1, <3>2, <3>3, <3>4, <3>5 DEF Call
  <2>4. CASE timeout(t)
    BY <2>4, TimeoutInv
  <2> QED BY <2>1, <2>2, <2>3, <2>4
<1> QED BY <1>1, <1>2

\* The invariant of kernel_cc.c holds in every reachable state.
THEOREM KernelCorrect == Spec => []KernelInv
<1>1. Init => KernelInv
  BY InitInv
<1>2. KernelInv /\ [Next]_vars => KernelInv'
  BY StepInv
<1> QED BY <1>1, <1>2, PTL DEF Spec

\* The kernel lock excludes, the rings hold exactly the waiters that exist,
\* no thread sleeps out of reach of a signal, and a free kernel is noticed,
\* for any number of threads and condition variables (kernel_lock(),
\* kernel_wait_wchan(), cv_wait(), cv_signal()).
THEOREM KernelSafe == Spec => []KernelSafety
<1>1. ASSUME KernelInv PROVE SleepersReachable
  <2>1. \A t \in Thread : state[t] = "STOPPED" => InRing(t) /\ cv[t] \in CondVar
    BY <1>1 DEF KernelInv, ThreadInv, InRing
  <2> QED BY <1>1, <2>1 DEF KernelInv, RingSound, SleepersReachable
<1>2. ASSUME KernelInv PROVE FreeKernelNoticed
  BY <1>2 DEF KernelInv, NoticeInv, SemWaiter, OnTheWay, FreeKernelNoticed
<1>3. KernelInv => KernelSafety
  BY <1>1, <1>2 DEF KernelInv, KernelSafety
<1> QED BY <1>3, KernelCorrect, PTL

----------------------------------------------------------------------------
\* A step of u leaves the place of the other threads alone.
LEMMA OtherPlaces ==
  ASSUME KernelInv, NEW t \in Thread, NEW u \in Thread, t # u,
         Step(u) \/ Call(u) \/ timeout(u)
  PROVE  /\ pc'[t] = pc[t] /\ op'[t] = op[t] /\ sig'[t] = sig[t] /\ cv'[t] = cv[t]
<1> USE DEF waiters, signals
<1>1. TypeOK
  BY DEF KernelInv
<1>2. CASE signal_lock(u) \/ signal_none(u) \/ cv_wait(u) \/ cv_wait_sleep(u) \/ cv_wait_tidy(u)
  BY <1>1, <1>2 DEF TypeOK, signal_lock, signal_none, cv_wait, cv_wait_sleep, cv_wait_tidy
<1>3. CASE cv_signal(u)
  <2>1. UNCHANGED <<cv, signals>> /\ (pc' = pc \/ pc' = [pc EXCEPT ![u] = SignalReturn(op[u])])
    BY <1>3 DEF cv_signal
  <2> QED BY <1>1, <2>1 DEF TypeOK
<1>4. CASE cv_wait_relock(u) \/ kernel_lock(u) \/ kernel_acquire(u) \/ kernel_release(u)
  BY <1>1, <1>4 DEF TypeOK, cv_wait_relock, kernel_lock, kernel_acquire, kernel_release
<1>5. CASE kernel_unlock(u) \/ kernel_wait(u) \/ kernel_sleep(u) \/ timeout(u)
  BY <1>1, <1>5 DEF TypeOK, kernel_unlock, kernel_wait, kernel_sleep, timeout
<1>6. CASE Call(u)
  BY <1>1, <1>6 DEF TypeOK, Call, SystemCall, Cond_Signal, kernel_signal, kernel_leave
<1> QED BY <1>2, <1>3, <1>4, <1>5, <1>6 DEF Step

\* The loop of cv_signal() ends when it has awakened a thread, or with an empty
\* ring: no signal is used up by a thread whose timeout was faster.
THEOREM SignalsCount == Spec => SignalNotSwallowed
<1> DEFINE A == \A t \in Thread :
                  pc[t] = "sig" /\ pc'[t] # "sig" =>
                    \/ waitset'[sig[t]] = <<>>
                    \/ \E w \in Thread : state[w] = "STOPPED" /\ state'[w] = "RUNNING"
<1>1. ASSUME KernelInv, [Next]_vars PROVE [A]_vars
  <2>1. SUFFICES ASSUME NEW t \in Thread, pc[t] = "sig", pc'[t] # "sig"
                 PROVE  \/ waitset'[sig[t]] = <<>>
                        \/ \E w \in Thread : state[w] = "STOPPED" /\ state'[w] = "RUNNING"
    OBVIOUS
  <2>2. PICK u \in Thread : Step(u) \/ Call(u) \/ timeout(u)
    BY <1>1, <2>1 DEF Next, vars
  <2>3. u = t
    BY <1>1, <2>1, <2>2, OtherPlaces
  <2>4. signal_none(t) \/ cv_signal(t)
    BY <2>1, <2>2, <2>3
    DEF Step, Call, timeout, signal_lock, cv_wait, cv_wait_sleep, cv_wait_tidy,
        cv_wait_relock, kernel_lock, kernel_acquire, kernel_release, kernel_unlock,
        kernel_wait, kernel_sleep, SystemCall, Cond_Signal, kernel_signal, kernel_leave
  <2>5. CASE signal_none(t)
    BY <2>5 DEF signal_none
  <2>6. CASE cv_signal(t)
    <3> DEFINE w == Head(waitset[sig[t]])
    <3>1. /\ waitset[sig[t]] # <<>> /\ cv_signal_last(t, w)
          /\ state' = [state EXCEPT ![w] = IF @ = "STOPPED" THEN "RUNNING" ELSE @]
      BY <2>1, <2>6 DEF cv_signal
    <3>2. state \in [Thread -> {"RUNNING", "STOPPED", "EXITED"}] /\ waitset[sig[t]] \in Seq(Thread)
      BY <1>1, <2>1 DEF KernelInv, TypeOK, ThreadInv, Signalling
    <3>3. w \in Thread
      BY <3>1, <3>2, TailLemma
    <3>4. state[w] = "STOPPED"
      BY <3>1 DEF cv_signal_last
    <3> HIDE DEF w
    <3> QED BY <3>1, <3>2, <3>3, <3>4
  <2> QED BY <2>4, <2>5, <2>6
<1> HIDE DEF A
<1>2. Spec => [][A]_vars
  BY <1>1, KernelCorrect, PTL DEF Spec
<1> QED BY <1>2 DEF SignalNotSwallowed, A

----------------------------------------------------------------------------
(***************************************************************************)
(* The kernel lock implements KernelMonitor.                               *)
(***************************************************************************)

\* The semaphore stays free until kernel_mutex is unlocked.
LEMMA HandOverStep ==
  ASSUME KernelInv, HandOverInv, [Next]_vars
  PROVE  HandOverInv'
<1> USE DEF waiters, signals
<1>0. TypeOK /\ LocksInv /\ KernelExclusion /\ \A t \in Thread : ThreadInv(t)
  BY DEF KernelInv
<1>1. CASE UNCHANGED vars
  BY <1>1 DEF vars, HandOverInv, HandsOver
<1>2. CASE Next
  <2>1. SUFFICES ASSUME NEW t \in Thread, HandsOver(t)' PROVE kernel_sem' = 1
    BY DEF HandOverInv
  <2>2. PICK u \in Thread : Step(u) \/ Call(u) \/ timeout(u)
    BY <1>2 DEF Next
  <2>3. CASE t # u
    <3>1. HandsOver(t)
      BY <2>1, <2>2, <2>3, OtherPlaces DEF HandsOver
    <3>2. HoldsMutex(t) /\ kernel_sem = 1
      BY <3>1 DEF HandOverInv, HandsOver, HoldsMutex, Signalling
    <3>3. kernel_mutex = t
      BY <1>0, <3>2 DEF LocksInv
    <3>4. pc[u] # "test"
      BY <1>0, <2>3, <3>3 DEF LocksInv, HoldsMutex
    <3>5. kernel_mutex # Nil
      BY <3>3, KernelCCAssumption
    <3>6. UNCHANGED kernel_sem
      BY <2>2, <3>4, <3>5
      DEF Step, Call, timeout, signal_lock, signal_none, cv_signal, cv_wait, cv_wait_sleep,
          cv_wait_tidy, cv_wait_relock, kernel_lock, kernel_acquire, kernel_release,
          kernel_unlock, kernel_wait, kernel_sleep, SystemCall, Cond_Signal,
          kernel_signal, kernel_leave
    <3> QED BY <3>2, <3>6
  <2>4. CASE t = u
    <3>1. CASE signal_lock(t) \/ signal_none(t)
      <4>1. HandsOver(t) /\ UNCHANGED kernel_sem
        BY <1>0, <2>1, <3>1, SignalReturnCases
        DEF HandsOver, signal_lock, signal_none, TypeOK, Releasing
      <4> QED BY <4>1 DEF HandOverInv
    <3>2. CASE cv_signal(t)
      <4>1. pc[t] = "sig" /\ UNCHANGED <<op, kernel_sem>>
        BY <3>2 DEF cv_signal
      <4>2. pc' = pc \/ pc' = [pc EXCEPT ![t] = SignalReturn(op[t])]
        BY <3>2 DEF cv_signal
      <4>3. HandsOver(t)
        BY <1>0, <2>1, <4>1, <4>2, SignalReturnCases DEF HandsOver, TypeOK, Releasing
      <4> QED BY <4>1, <4>3 DEF HandOverInv
    <3>3. CASE kernel_release(t)
      <4>1. kernel_sem = 0
        BY <1>0, <3>3 DEF KernelExclusion, Inside, kernel_release, TypeOK
      <4> QED BY <3>3, <4>1 DEF kernel_release
    <3>4. CASE kernel_wait(t)
      <4>1. HandsOver(t) /\ UNCHANGED kernel_sem
        BY <3>4 DEF HandsOver, kernel_wait, Releasing
      <4> QED BY <4>1 DEF HandOverInv
    <3>5. CASE kernel_acquire(t)
      BY <1>0, <2>1, <3>5, KernelCCAssumption DEF HandsOver, kernel_acquire, TypeOK
    <3>6. CASE \/ cv_wait(t) \/ cv_wait_sleep(t) \/ cv_wait_tidy(t) \/ cv_wait_relock(t)
               \/ kernel_lock(t) \/ kernel_unlock(t) \/ kernel_sleep(t)
      BY <1>0, <2>1, <3>6 DEF HandsOver, TypeOK, cv_wait, cv_wait_sleep, cv_wait_tidy,
         cv_wait_relock, kernel_lock, kernel_unlock, kernel_sleep
    <3>7. CASE timeout(t)
      BY <1>0, <2>1, <3>7 DEF HandsOver, TypeOK, timeout, HandOverInv
    <3>8. CASE Call(t)
      BY <1>0, <2>1, <3>8 DEF HandsOver, TypeOK, Call, SystemCall, Cond_Signal, kernel_signal,
         kernel_leave, Releasing
    <3> QED BY <2>2, <2>4, <3>1, <3>2, <3>3, <3>4, <3>5, <3>6, <3>7, <3>8 DEF Step
  <2> QED BY <2>3, <2>4
<1> QED BY <1>1, <1>2

\* One thread at a time owns the kernel.
LEMMA OneOwner ==
  ASSUME KernelInv, HandOverInv, NEW t \in Thread, NEW u \in Thread, Owns(t), Owns(u)
  PROVE  t = u
<1>1. ASSUME NEW v \in Thread, HandsOver(v) PROVE kernel_mutex = v /\ kernel_sem = 1
  <2>1. HoldsMutex(v)
    BY <1>1 DEF HandsOver, HoldsMutex, Signalling
  <2> QED BY <1>1, <2>1 DEF KernelInv, LocksInv, HandOverInv
<1>2. ASSUME NEW v \in Thread, Inside(v) PROVE kernel_sem # 1
  BY <1>2 DEF KernelInv, KernelExclusion
<1>3. Inside(t) /\ Inside(u) => t = u
  BY DEF KernelInv, KernelExclusion
<1> QED BY <1>1, <1>2, <1>3 DEF Owns

\* What Owner is.
LEMMA OwnerLemma ==
  ASSUME NEW S \in SUBSET Thread, \A t, u \in S : t = u
  PROVE  LET o == IF S = {} THEN Nil ELSE CHOOSE t \in S : TRUE
         IN  /\ o = Nil <=> S = {}
             /\ \A t \in S : o = t
<1> DEFINE o == IF S = {} THEN Nil ELSE CHOOSE t \in S : TRUE
<1>1. CASE S = {}
  BY <1>1
<1>2. CASE S # {}
  <2>1. o \in S
    BY <1>2
  <2>2. o # Nil
    BY <2>1, KernelCCAssumption
  <2> HIDE DEF o
  <2>3. o = Nil <=> S = {}
    BY <1>2, <2>2
  <2>4. \A t \in S : o = t
    BY <2>1
  <2> QED BY <2>3, <2>4 DEF o
<1> QED BY <1>1, <1>2

\* A step of t lets the others own the kernel, wait and be gone as before; it
\* may wake them up.
LEMMA OthersOwn ==
  ASSUME KernelInv, HandOverInv, NEW t \in Thread, Step(t) \/ Call(t) \/ timeout(t)
  PROVE  /\ (Owns(t)' <=> Owns(t)) => Owner' = Owner
         /\ Owns(t) /\ ~Owns(t)' => Owner = t /\ Owner' = Nil
         /\ Owners = {} /\ Owns(t)' => Owner = Nil /\ Owner' = t
<1>1. \A u \in Thread : u # t => (Owns(u)' <=> Owns(u))
  BY OtherPlaces DEF Owns, Inside, HandsOver, Signalling
<1>2. \A u, v \in Owners : u = v
  BY OneOwner DEF Owners
<1>3. Owners \in SUBSET Thread
  BY DEF Owners
<1>4. /\ Owner = Nil <=> Owners = {}
      /\ \A u \in Owners : Owner = u
  BY <1>2, <1>3, OwnerLemma DEF Owner
<1>5. ASSUME Owns(t)' <=> Owns(t) PROVE Owner' = Owner
  <2>1. Owners' = Owners
    BY <1>1, <1>5 DEF Owners
  <2> QED BY <2>1 DEF Owner
<1>6. ASSUME Owns(t), ~Owns(t)' PROVE Owner = t /\ Owner' = Nil
  <2>1. t \in Owners
    BY <1>6 DEF Owners
  <2>2. \A u \in Thread : Owns(u) => u = t
    BY <1>6, OneOwner
  <2>3. Owners' = {}
    BY <1>1, <1>6, <2>2 DEF Owners
  <2> QED BY <1>4, <2>1, <2>3 DEF Owner
<1>7. ASSUME Owners = {}, Owns(t)' PROVE Owner = Nil /\ Owner' = t
  <2>1. \A u \in Thread : ~Owns(u)
    BY <1>7 DEF Owners
  <2>2. Owners' = {t}
    BY <1>1, <1>7, <2>1 DEF Owners
  <2>3. {t} \in SUBSET Thread /\ \A u, v \in {t} : u = v /\ t \in {t}
    OBVIOUS
  <2>4. (IF {t} = {} THEN Nil ELSE CHOOSE u \in {t} : TRUE) = t
    BY <2>3, OwnerLemma
  <2> QED BY <1>4, <1>7, <2>2, <2>4 DEF Owner
<1> QED BY <1>5, <1>6, <1>7

\* The steps that the monitor does not see.
LEMMA QuietStep ==
  ASSUME KernelInv, HandOverInv, NEW t \in Thread, Step(t) \/ Call(t) \/ timeout(t),
         Owns(t)' <=> Owns(t),
         \A u \in Thread : Waits(u)' /\ cv'[u] \in Cond <=> Waits(u) /\ cv[u] \in Cond,
         Waits(t) => cv'[t] = cv[t],
         pc'[t] = "exited" <=> pc[t] = "exited"
  PROVE  UNCHANGED Monitor!mvars
<1>1. \A u \in Thread : u # t => pc'[u] = pc[u] /\ cv'[u] = cv[u]
  BY OtherPlaces
<1>2. Owner' = Owner
  BY OthersOwn
<1>3. Blocked' = Blocked
  BY <1>1 DEF Blocked
<1>4. {u \in Thread : pc'[u] = "exited"} = {u \in Thread : pc[u] = "exited"}
  BY <1>1
<1> QED BY <1>2, <1>3, <1>4 DEF Monitor!mvars

\* A waiter is awakened.
LEMMA WakeStep ==
  ASSUME KernelInv, HandOverInv, NEW t \in Thread, Step(t) \/ Call(t) \/ timeout(t),
         NEW w \in Thread, Owns(t)' <=> Owns(t),
         Waits(w), ~Waits(w)', cv' = cv,
         \A u \in Thread : u # w => (Waits(u)' <=> Waits(u)),
         pc'[t] # "exited" /\ pc[t] # "exited"
  PROVE  [Monitor!MNext]_(Monitor!mvars)
<1>1. \A u \in Thread : u # t => pc'[u] = pc[u]
  BY OtherPlaces
<1>2. Owner' = Owner
  BY OthersOwn
<1>3. {u \in Thread : pc'[u] = "exited"} = {u \in Thread : pc[u] = "exited"}
  BY <1>1
<1>4. CASE cv[w] \in Cond
  <2>1. Blocked[w] # Nil
    BY <1>4, KernelCCAssumption DEF Blocked
  <2>2. Blocked' = [Blocked EXCEPT ![w] = Nil]
    BY DEF Blocked
  <2>3. Monitor!Wake(w)
    BY <1>2, <1>3, <2>1, <2>2 DEF Monitor!Wake
  <2> QED BY <2>3 DEF Monitor!MNext
<1>5. CASE cv[w] \notin Cond
  <2>1. Blocked' = Blocked
    BY <1>5 DEF Blocked
  <2> QED BY <1>2, <1>3, <2>1 DEF Monitor!mvars
<1> QED BY <1>4, <1>5

\* Every step of the kernel lock is a step of the monitor, or none.
LEMMA MonitorStep ==
  ASSUME KernelInv, HandOverInv, [Next]_vars
  PROVE  [Monitor!MNext]_(Monitor!mvars)
<1> USE DEF waiters, signals
<1>0. TypeOK /\ LocksInv /\ KernelExclusion /\ RingSound /\ \A t \in Thread : ThreadInv(t)
  BY DEF KernelInv
<1>1. CASE UNCHANGED vars
  <2>1. Owners' = Owners
    BY <1>1 DEF vars, Owners, Owns, Inside, HandsOver, Signalling
  <2>2. Owner' = Owner
    BY <2>1 DEF Owner
  <2>3. Blocked' = Blocked
    BY <1>1 DEF vars, Blocked, Waits
  <2>4. pc' = pc
    BY <1>1 DEF vars
  <2> QED BY <2>2, <2>3, <2>4 DEF Monitor!mvars
<1>2. ASSUME NEW t \in Thread, Step(t) \/ Call(t) \/ timeout(t)
      PROVE  [Monitor!MNext]_(Monitor!mvars)
  <2>1. \A u \in Thread : u # t => pc'[u] = pc[u] /\ cv'[u] = cv[u]
    BY <1>2, OtherPlaces
  <2>2. ASSUME state' = state, pc[t] \notin {"cw_sleep", "cw_wake", "exited"},
               pc'[t] \notin {"cw_sleep", "exited"}, Owns(t)' <=> Owns(t)
        PROVE  UNCHANGED Monitor!mvars
    <3>1. ~Waits(t) /\ ~Waits(t)'
      BY <1>0, <2>2 DEF Waits, ThreadInv
    <3>2. \A u \in Thread : Waits(u)' /\ cv'[u] \in Cond <=> Waits(u) /\ cv[u] \in Cond
      BY <2>1, <2>2, <3>1 DEF Waits
    <3> QED BY <1>2, <2>2, <3>1, <3>2, QuietStep
  <2>3. CASE \/ signal_lock(t) \/ kernel_lock(t) \/ kernel_wait(t) \/ kernel_release(t)
             \/ cv_wait_relock(t)
    <3>1. /\ state' = state /\ pc[t] \notin {"cw_sleep", "cw_wake", "exited"}
          /\ pc'[t] \notin {"cw_sleep", "exited"}
      BY <1>0, <2>3
      DEF TypeOK, signal_lock, kernel_lock, kernel_wait, kernel_release, cv_wait_relock
    <3>2. Owns(t)' <=> Owns(t)
      BY <1>0, <2>3, KernelCCAssumption
      DEF TypeOK, signal_lock, kernel_lock, kernel_wait, kernel_release, cv_wait_relock,
          Owns, Inside, HandsOver, Signalling, ThreadInv, Releasing
    <3> QED BY <2>2, <3>1, <3>2
  <2>4. CASE signal_none(t)
    <3>1. /\ state' = state /\ pc[t] = "sig" /\ op' = op /\ cv' = cv
          /\ pc' = [pc EXCEPT ![t] = SignalReturn(op[t])]
      BY <2>4 DEF signal_none
    <3>2. /\ pc[t] \notin {"cw_sleep", "cw_wake", "exited"}
          /\ pc'[t] \notin {"cw_sleep", "exited"} /\ (Owns(t)' <=> Owns(t))
      BY <1>0, <3>1, SignalReturnCases
      DEF TypeOK, Owns, Inside, HandsOver, Signalling, Releasing
    <3> QED BY <2>2, <3>1, <3>2
  <2>5. CASE Call(t)
    <3>1. /\ state' = state /\ pc[t] \notin {"cw_sleep", "cw_wake", "exited"}
          /\ pc'[t] \notin {"cw_sleep", "exited"}
      BY <1>0, <2>5 DEF TypeOK, Call, SystemCall, Cond_Signal, kernel_signal, kernel_leave
    <3>2. Owns(t)' <=> Owns(t)
      BY <1>0, <2>5 DEF TypeOK, Call, SystemCall, Cond_Signal, kernel_signal, kernel_leave,
         Owns, Inside, HandsOver, Signalling, Releasing
    <3> QED BY <2>2, <3>1, <3>2
  <2>6. CASE cv_wait_tidy(t) \/ cv_wait_sleep(t)
    <3>1. /\ pc[t] \in {"cw_sleep", "cw_wake"} /\ pc'[t] \in {"cw_wake", "cw_relock"}
          /\ cv' = cv /\ op' = op /\ \A u \in Thread : u # t => state'[u] = state[u]
      BY <1>0, <2>6 DEF TypeOK, cv_wait_tidy, cv_wait_sleep
    <3>2. Owns(t)' <=> Owns(t)
      BY <3>1 DEF Owns, Inside, HandsOver, Signalling
    <3>3. Waits(t)' <=> Waits(t)
      BY <1>0, <2>6 DEF TypeOK, cv_wait_tidy, cv_wait_sleep, Waits
    <3>4. \A u \in Thread : Waits(u)' /\ cv'[u] \in Cond <=> Waits(u) /\ cv[u] \in Cond
      BY <2>1, <3>1, <3>3 DEF Waits
    <3> QED BY <1>2, <3>1, <3>2, <3>4, QuietStep
  <2>7. CASE timeout(t)
    <3>1. /\ cv' = cv /\ pc' = pc /\ op' = op /\ pc[t] = "cw_wake" /\ state[t] = "STOPPED"
          /\ state' = [state EXCEPT ![t] = "RUNNING"]
      BY <2>7 DEF timeout
    <3>2. /\ Owns(t)' <=> Owns(t)
          /\ Waits(t) /\ ~Waits(t)'
          /\ \A u \in Thread : u # t => (Waits(u)' <=> Waits(u))
      BY <1>0, <3>1 DEF TypeOK, Owns, Inside, HandsOver, Signalling, Waits
    <3> QED BY <1>2, <3>1, <3>2, WakeStep
  <2>8. CASE cv_signal(t)
    <3> DEFINE c == sig[t]
    <3>1. /\ pc[t] = "sig" /\ waitset[c] # <<>> /\ op' = op /\ cv' = cv
          /\ pc' = pc \/ pc' = [pc EXCEPT ![t] = SignalReturn(op[t])]
      BY <2>8 DEF cv_signal
    <3>2. c \in CondVar /\ waitset[c] \in Seq(Thread)
      BY <1>0, <3>1 DEF TypeOK, ThreadInv, Signalling
    <3>3. PICK w \in Thread :
            /\ w \in Range(waitset[c])
            /\ state' = [state EXCEPT ![w] = IF @ = "STOPPED" THEN "RUNNING" ELSE @]
      <4>1. Head(waitset[c]) \in Thread /\ Head(waitset[c]) \in Range(waitset[c])
        BY <3>1, <3>2, TailLemma
      <4> QED BY <2>8, <4>1 DEF cv_signal
    <3>4. cv[w] = c /\ pc[w] = "cw_wake" /\ w # t
      <4>1. waitset_lock[c] = t
        BY <1>0, <3>1, <3>2 DEF LocksInv, HoldsRing
      <4>2. cv[w] = c /\ pc[w] \in {"cw_sleep", "cw_wake"}
        BY <1>0, <3>2, <3>3 DEF RingSound, InRing
      <4>3. w # t
        BY <3>1, <4>2
      <4>4. pc[w] # "cw_sleep"
        BY <1>0, <3>2, <3>3, <4>1, <4>2, <4>3 DEF LocksInv, HoldsRing
      <4> QED BY <4>2, <4>3, <4>4
    <3>5. /\ Owns(t)' <=> Owns(t)
          /\ pc'[t] # "exited" /\ pc[t] # "exited" /\ ~Waits(t) /\ ~Waits(t)'
      BY <1>0, <3>1, <3>3, <3>4, SignalReturnCases
      DEF TypeOK, ThreadInv, Owns, Inside, HandsOver, Signalling, Releasing, Waits
    <3>6. \A u \in Thread : u # w => (Waits(u)' <=> Waits(u))
      BY <1>0, <2>1, <3>3, <3>5 DEF TypeOK, Waits
    <3>7. CASE state[w] = "STOPPED"
      <4>1. Waits(w) /\ ~Waits(w)'
        BY <1>0, <2>1, <3>1, <3>3, <3>4, <3>7 DEF TypeOK, Waits
      <4> QED BY <1>2, <3>1, <3>3, <3>5, <3>6, <4>1, WakeStep
    <3>8. CASE state[w] # "STOPPED"
      <4>1. ~Waits(w) /\ ~Waits(w)'
        BY <1>0, <2>1, <3>1, <3>3, <3>4, <3>8 DEF TypeOK, Waits
      <4>2. \A u \in Thread : Waits(u)' /\ cv'[u] \in Cond <=> Waits(u) /\ cv[u] \in Cond
        BY <3>1, <3>6, <4>1
      <4> QED BY <1>2, <3>1, <3>5, <4>2, QuietStep
    <3> QED BY <3>7, <3>8
  <2>9. CASE kernel_acquire(t)
    <3>1. CASE KernelFree(t)
      <4>1. /\ pc[t] = "test" /\ pc' = [pc EXCEPT ![t] = "in"] /\ kernel_sem > 0
            /\ state' = state /\ cv' = cv
        BY <2>9, <3>1 DEF kernel_acquire, KernelFree
      <4>2. Owners = {}
        <5>1. kernel_sem = 1 /\ kernel_mutex = t
          BY <1>0, <4>1 DEF TypeOK, LocksInv, HoldsMutex
        <5>2. ASSUME NEW u \in Thread PROVE ~Owns(u)
          <6>1. ~Inside(u)
            BY <1>0, <5>1 DEF KernelExclusion
          <6>2. ASSUME HandsOver(u) PROVE FALSE
            <7>1. HoldsMutex(u) /\ u # t
              BY <4>1, <6>2 DEF HandsOver, HoldsMutex, Signalling
            <7> QED BY <1>0, <5>1, <7>1 DEF LocksInv
          <6> QED BY <6>1, <6>2 DEF Owns
        <5> QED BY <5>2 DEF Owners
      <4>3. Owns(t)'
        BY <1>0, <4>1 DEF TypeOK, Owns, Inside
      <4>4. Owner = Nil /\ Owner' = t
        BY <1>2, <4>2, <4>3, OthersOwn
      <4>5. ~Waits(t) /\ \A u \in Thread : Waits(u)' <=> Waits(u)
        BY <1>0, <4>1 DEF TypeOK, ThreadInv, Waits
      <4>6. Blocked[t] = Nil /\ Blocked' = Blocked
        BY <4>1, <4>5 DEF Blocked
      <4>7. /\ t \notin {u \in Thread : pc[u] = "exited"}
            /\ {u \in Thread : pc'[u] = "exited"} = {u \in Thread : pc[u] = "exited"}
        BY <1>0, <4>1 DEF TypeOK
      <4>8. Monitor!Enter(t)
        BY <4>4, <4>6, <4>7 DEF Monitor!Enter
      <4> QED BY <4>8 DEF Monitor!MNext
    <3>2. CASE ~KernelFree(t)
      <4>1. /\ state' = state /\ pc[t] = "test" /\ pc' = [pc EXCEPT ![t] = "cw_lock"]
            /\ cv' = [cv EXCEPT ![t] = kernel_sem_cv] /\ op' = op
        BY <2>9, <3>2 DEF kernel_acquire
      <4>2. /\ pc[t] \notin {"cw_sleep", "cw_wake", "exited"}
            /\ pc'[t] \notin {"cw_sleep", "exited"} /\ (Owns(t)' <=> Owns(t))
        BY <1>0, <4>1, KernelCCAssumption DEF TypeOK, Owns, Inside, HandsOver, Signalling
      <4> QED BY <2>2, <4>1, <4>2
    <3> QED BY <3>1, <3>2
  <2>10. ASSUME Owns(t), ~Owns(t)' PROVE Owner = t /\ Owner' = Nil
    BY <1>2, <2>10, OthersOwn
  <2>11. CASE kernel_unlock(t) \/ kernel_sleep(t)
    <3>1. /\ pc[t] = "released" /\ op[t] \in Releasing /\ cv' = cv
          /\ op' = [op EXCEPT ![t] = "none"]
          /\ \/ pc' = [pc EXCEPT ![t] = "user"] /\ state' = state
             \/ /\ pc' = [pc EXCEPT ![t] = "exited"]
                /\ state' = [state EXCEPT ![t] = "EXITED"]
      BY <2>11 DEF kernel_unlock, kernel_sleep, Releasing
    <3>2. Owner = t /\ Owner' = Nil
      BY <1>0, <2>10, <3>1 DEF TypeOK, Owns, Inside, HandsOver, Signalling
    <3>3. \A u \in Thread : Waits(u)' <=> Waits(u)
      BY <1>0, <3>1 DEF TypeOK, ThreadInv, Waits
    <3>4. Blocked' = Blocked
      BY <3>1, <3>3 DEF Blocked
    <3>5. CASE pc' = [pc EXCEPT ![t] = "user"]
      <4>1. {u \in Thread : pc'[u] = "exited"} = {u \in Thread : pc[u] = "exited"}
        BY <1>0, <3>1, <3>5 DEF TypeOK
      <4>2. Monitor!Leave(t)
        BY <3>2, <3>4, <4>1 DEF Monitor!Leave
      <4> QED BY <4>2 DEF Monitor!MNext
    <3>6. CASE pc' = [pc EXCEPT ![t] = "exited"]
      <4>1. {u \in Thread : pc'[u] = "exited"} = {u \in Thread : pc[u] = "exited"} \cup {t}
        BY <1>0, <3>6 DEF TypeOK
      <4>2. Monitor!Exit(t)
        BY <3>2, <3>4, <4>1 DEF Monitor!Exit
      <4> QED BY <4>2 DEF Monitor!MNext
    <3> QED BY <3>1, <3>5, <3>6
  <2>12. CASE cv_wait(t)
    <3>1. /\ pc[t] = "cw_lock" /\ pc' = [pc EXCEPT ![t] = "cw_sleep"]
          /\ state' = state /\ cv' = cv /\ op' = op
      BY <2>12 DEF cv_wait
    <3>2. ~Waits(t) /\ Waits(t)' /\ \A u \in Thread : u # t => (Waits(u)' <=> Waits(u))
      BY <1>0, <3>1 DEF TypeOK, ThreadInv, Waits
    <3>3. {u \in Thread : pc'[u] = "exited"} = {u \in Thread : pc[u] = "exited"}
      BY <1>0, <3>1 DEF TypeOK
    <3>4. ~Owns(t)'
      BY <1>0, <3>1 DEF TypeOK, Owns, Inside, HandsOver, Signalling
    <3>5. CASE cv[t] \in Cond
      <4>1. Owns(t)
        BY <3>1, <3>5 DEF Owns, HandsOver
      <4>2. Owner = t /\ Owner' = Nil
        BY <2>10, <3>4, <4>1
      <4>3. Blocked' = [Blocked EXCEPT ![t] = cv[t]]
        BY <3>1, <3>2, <3>5 DEF Blocked
      <4>4. Monitor!Wait(t, cv[t])
        BY <3>3, <4>2, <4>3 DEF Monitor!Wait
      <4> QED BY <3>5, <4>4 DEF Monitor!MNext
    <3>6. CASE cv[t] \notin Cond
      <4>1. ~Owns(t)
        BY <3>1, <3>6 DEF Owns, Inside, HandsOver, Signalling
      <4>2. \A u \in Thread : Waits(u)' /\ cv'[u] \in Cond <=> Waits(u) /\ cv[u] \in Cond
        BY <3>1, <3>2, <3>6
      <4>3. pc'[t] # "exited" /\ pc[t] # "exited"
        BY <1>0, <3>1 DEF TypeOK
      <4> QED BY <1>2, <3>1, <3>4, <4>1, <4>2, <4>3, QuietStep
    <3> QED BY <3>5, <3>6
  <2> QED BY <1>2, <2>3, <2>4, <2>5, <2>6, <2>7, <2>8, <2>9, <2>11, <2>12 DEF Step
<1> QED BY <1>1, <1>2 DEF Next

\* The kernel is a monitor: it has one owner, who gives it up in the very step
\* in which it becomes a waiter (kernel_wait_wchan()).
THEOREM KernelIsMonitor == Spec => ImplementsKernelMonitor
<1>1. Init => HandOverInv /\ Monitor!MInit
  <2>1. SUFFICES ASSUME Init PROVE HandOverInv /\ Monitor!MInit
    OBVIOUS
  <2>2. \A t \in Thread : ~Owns(t) /\ ~Waits(t) /\ pc[t] # "exited"
    BY <2>1 DEF Init, Owns, Inside, HandsOver, Signalling, Waits
  <2>3. Owners = {}
    BY <2>2 DEF Owners
  <2>4. Owner = Nil
    BY <2>3 DEF Owner
  <2>5. Blocked = [t \in Thread |-> Nil] /\ {t \in Thread : pc[t] = "exited"} = {}
    BY <2>2 DEF Blocked
  <2>6. HandOverInv
    BY <2>2 DEF HandOverInv, Owns
  <2> QED BY <2>4, <2>5, <2>6 DEF Monitor!MInit
<1>2. KernelInv /\ HandOverInv /\ [Next]_vars => HandOverInv'
  BY HandOverStep
<1>3. KernelInv /\ HandOverInv /\ [Next]_vars => [Monitor!MNext]_(Monitor!mvars)
  BY MonitorStep
<1> QED BY <1>1, <1>2, <1>3, KernelCorrect, PTL
    DEF Spec, ImplementsKernelMonitor, Monitor!MSpec
=============================================================================
