----------------------------- MODULE CoreProofs -----------------------------
(***************************************************************************)
(* What is proved about the cores: how preemption is turned on and off on  *)
(* them (Preemption), and the order in which they boot and stop (Machine). *)
(***************************************************************************)
EXTENDS Preemption, Machine, ListLemmas

----------------------------------------------------------------------------
(***************************************************************************)
(* Types.                                                                  *)
(***************************************************************************)

Booleans ==
  /\ preemption \in [Core -> BOOLEAN] /\ int_disabled \in [Core -> BOOLEAN]
  /\ blocked \in [Core -> BOOLEAN] /\ driver \in [Thread -> BOOLEAN]
  /\ oldpre \in [Thread -> BOOLEAN] /\ preempt \in [Thread -> BOOLEAN]

InterruptsType ==
  /\ preemption \in [Core -> BOOLEAN] /\ int_disabled \in [Core -> BOOLEAN]
  /\ blocked \in [Core -> BOOLEAN]

QueueType ==
  /\ SCHED \in Seq(Thread)
  /\ state \in [Thread -> {"FREE", "INIT", "READY", "RUNNING", "STOPPED", "EXITED"}]

TypeInv == TypeOK /\ LocalsFit

LEMMA TypeInit == Init => TypeInv
<1> SUFFICES ASSUME Init PROVE TypeInv
  OBVIOUS
<1>1. preemption \in [Core -> BOOLEAN] /\ int_disabled \in [Core -> BOOLEAN]
  BY Zenon DEF Init
<1>2. blocked \in [Core -> BOOLEAN] /\ driver \in [Thread -> BOOLEAN]
  BY Zenon DEF Init
<1>3. oldpre \in [Thread -> BOOLEAN] /\ preempt \in [Thread -> BOOLEAN]
  BY Zenon DEF Init
<1>4. SCHED \in Seq(Thread)
  BY DEF Init
<1>5. state \in [Thread -> {"FREE", "INIT", "READY", "RUNNING", "STOPPED", "EXITED"}]
  BY DEF Init
<1>6. TypeOK
  BY <1>1, <1>2, <1>3, <1>4, <1>5 DEF Init, TypeOK, Label
<1>7. LocalsFit
  BY DEF Init, LocalsFit
<1> QED BY <1>6, <1>7 DEF TypeInv

LEMMA RestoreType ==
  ASSUME TypeOK, NEW c \in Core, NEW on, restore(c, on)
  PROVE  InterruptsType'
<1>1. CASE on
  BY <1>1 DEF restore, preempt_on, TypeOK, InterruptsType
<1>2. CASE ~on
  BY <1>2 DEF restore, interrupts, TypeOK, InterruptsType
<1> QED BY <1>1, <1>2

LEMMA PreemptOffType ==
  ASSUME TypeOK, NEW c \in Core, preempt_off(c)
  PROVE  InterruptsType'
BY DEF TypeOK, preempt_off, InterruptsType

LEMMA MakeReadyType ==
  ASSUME TypeOK, NEW u \in Thread, sched_make_ready(u)
  PROVE  QueueType'
<1>1. Append(SCHED, u) \in Seq(Thread)
  BY DEF TypeOK
<1>2. CASE state[u] \in {"STOPPED", "INIT"}
  BY <1>1, <1>2 DEF sched_make_ready, TypeOK, QueueType
<1>3. CASE state[u] \notin {"STOPPED", "INIT"}
  BY <1>3 DEF sched_make_ready, TypeOK, QueueType, queue
<1> QED BY <1>2, <1>3

\* A step that leaves the threads' variables alone.
LEMMA CoreType ==
  ASSUME TypeInv, UNCHANGED <<pc, then, driver, cause, core, tcb, wakee, oldpre>>,
         current' \in [Core -> Thread \cup {Nil}], prev' \in [Core -> Thread \cup {Nil}],
         mode' \in [Core -> {"run", "yield", "gain", "release", "rx"}],
         InterruptsType', QueueType', preempt' \in [Thread -> BOOLEAN],
         sched_spinlock' \in Core \cup {Nil}, UNCHANGED <<active_lock, kernel_mutex, kernel_sem>>,
         kernel_sem_cv' \subseteq Thread, rx_ready' \subseteq Thread
  PROVE  TypeInv'
<1>1. TypeOK'
  BY DEF TypeInv, TypeOK, InterruptsType, QueueType
<1>2. LocalsFit'
  BY DEF TypeInv, LocalsFit
<1> QED BY <1>1, <1>2 DEF TypeInv

LEMMA TypeStep == TypeInv /\ [Next]_vars => TypeInv'
<1> SUFFICES ASSUME TypeInv, [Next]_vars PROVE TypeInv'
  OBVIOUS
<1> USE PreemptionAssumption
<1>0. TypeOK /\ LocalsFit
  BY DEF TypeInv
<1>b. Booleans
  BY DEF TypeInv, TypeOK, Booleans
<1> USE DEF At, Jump, Runs
<1>1. ASSUME NEW c \in Core, NEW t \in Thread, curr_core(c, t) PROVE TypeInv'
  <2>1. TypeOK'
    BY <1>0, <1>1 DEF curr_core, TypeOK, LocalsFit, Label, NonPreemptive, cores, interrupts, queue,
       spinlocks, kernel, locals
  <2>2. LocalsFit'
    BY <1>0, <1>1 DEF curr_core, TypeOK, LocalsFit, locals
  <2> QED BY <2>1, <2>2 DEF TypeInv
<1>2. ASSUME NEW c \in Core, NEW t \in Thread, Mutex_Lock_yield(c, t) PROVE TypeInv'
  <2>1. TypeOK'
    BY <1>0, <1>2 DEF Mutex_Lock_yield, TypeOK, LocalsFit, Label, NonPreemptive, cores, interrupts,
       queue, spinlocks, kernel, locals
  <2>2. LocalsFit'
    BY <1>0, <1>2 DEF Mutex_Lock_yield, TypeOK, LocalsFit, locals
  <2> QED BY <2>1, <2>2 DEF TypeInv
<1>3. ASSUME NEW c \in Core, NEW t \in Thread, kernel_lock(c, t) PROVE TypeInv'
  <2>1. pc' \in [Thread -> Label]
    BY <1>0, <1>3 DEF kernel_lock, call_sleep, TypeOK, Label, NonPreemptive
  <2>2. kernel_sem' \in Nat /\ kernel_mutex' \in Thread \cup {Nil}
    BY <1>0, <1>3 DEF kernel_lock, TypeOK, kernel
  <2>3. /\ cause' \in [Thread -> {"none", "sem", "rx", "exit"}]
        /\ core' \in [Thread -> Core \cup {Nil}]
    <3>1. \/ cause' = cause /\ core' = core
          \/ cause' = [cause EXCEPT ![t] = "sem"] /\ core' = [core EXCEPT ![t] = c]
      BY <1>3 DEF kernel_lock, call_sleep, locals
    <3>2. /\ cause \in [Thread -> {"none", "sem", "rx", "exit"}]
          /\ core \in [Thread -> Core \cup {Nil}]
      BY <1>0 DEF TypeOK
    <3> QED BY <3>1, <3>2
  <2>4. /\ UNCHANGED <<cores, interrupts, queue, spinlocks, kernel_sem_cv, rx_ready>>
        /\ UNCHANGED <<then, driver, tcb, wakee, oldpre, preempt>>
    BY <1>3 DEF kernel_lock, kernel, locals
  <2>5. TypeOK'
    BY <1>0, <2>1, <2>2, <2>3, <2>4 DEF TypeOK, cores, interrupts, queue, spinlocks
  <2>6. LocalsFit'
    BY <1>0, <1>3 DEF kernel_lock, call_sleep, TypeOK, LocalsFit, locals
  <2> QED BY <2>5, <2>6 DEF TypeInv
<1>4. ASSUME NEW c \in Core, NEW t \in Thread, kernel_unlock(c, t) PROVE TypeInv'
  <2>0. pc' \in [Thread -> Label]
    <3>1. PICK l \in {"signal", "signalled", "preempt_off", "user", "cur_thread"} :
            pc' = [pc EXCEPT ![t] = l]
      BY <1>4 DEF kernel_unlock, call_sleep
    <3> QED BY <1>0, <3>1 DEF TypeOK, Label
  <2>1. /\ kernel_sem' \in Nat /\ kernel_sem_cv' \subseteq Thread
        /\ kernel_mutex' \in Thread \cup {Nil}
    BY <1>0, <1>4 DEF kernel_unlock, TypeOK, kernel
  <2>2. /\ UNCHANGED <<cores, interrupts, queue, spinlocks>>
        /\ UNCHANGED <<rx_ready, driver, tcb, oldpre, preempt>>
    BY <1>4 DEF kernel_unlock, kernel, locals
  <2>3. then' \in [Thread -> {"user", "lock", "unlock", "spawn_lock", "sleep", "wakeup", "read"}]
    BY <1>0, <1>4 DEF kernel_unlock, TypeOK, locals
  <2>4. cause' \in [Thread -> {"none", "sem", "rx", "exit"}] /\ core' \in [Thread -> Core \cup {Nil}]
    BY <1>0, <1>4 DEF kernel_unlock, call_sleep, TypeOK, locals
  <2>5. wakee' \in [Thread -> Thread \cup {Nil}]
    BY <1>0, <1>4 DEF kernel_unlock, TypeOK, locals
  <2>6. TypeOK'
    BY <1>0, <2>0, <2>1, <2>2, <2>3, <2>4, <2>5 DEF TypeOK, cores, interrupts, queue, spinlocks
  <2>7. LocalsFit'
    BY <1>0, <1>4 DEF kernel_unlock, call_sleep, TypeOK, LocalsFit, locals
  <2> QED BY <2>6, <2>7 DEF TypeInv
<1>5. ASSUME NEW c \in Core, NEW t \in Thread, spawn_thread(c, t) PROVE TypeInv'
  <2>0. pc' \in [Thread -> Label] /\ active_lock' \in Thread \cup {Nil}
    BY <1>0, <1>5 DEF spawn_thread, TypeOK, Label, NonPreemptive
  <2>1. then' \in [Thread -> {"user", "lock", "unlock", "spawn_lock", "sleep", "wakeup", "read"}]
    BY <1>0, <1>5 DEF spawn_thread, TypeOK, locals
  <2>2. /\ UNCHANGED <<cores, interrupts, queue, sched_spinlock, kernel>>
        /\ UNCHANGED <<driver, cause, core, tcb, wakee, oldpre, preempt>>
    BY <1>5 DEF spawn_thread, locals
  <2>3. TypeOK'
    BY <1>0, <2>0, <2>1, <2>2 DEF TypeOK, cores, interrupts, queue, kernel
  <2>4. LocalsFit'
    BY <1>0, <1>5 DEF spawn_thread, TypeOK, LocalsFit, locals
  <2> QED BY <2>3, <2>4 DEF TypeInv
<1>6. ASSUME NEW c \in Core, NEW t \in Thread, sleep_CURTHREAD(c, t) PROVE TypeInv'
  <2>1. TypeOK'
    BY <1>0, <1>6 DEF sleep_CURTHREAD, CURTHREAD, TypeOK, LocalsFit, Label, NonPreemptive, cores,
       interrupts, queue, spinlocks, kernel, locals
  <2>2. LocalsFit'
    BY <1>0, <1>6 DEF sleep_CURTHREAD, CURTHREAD, TypeOK, LocalsFit, locals
  <2> QED BY <2>1, <2>2 DEF TypeInv
<1>7. ASSUME NEW c \in Core, NEW t \in Thread, cpu_disable_interrupts(c, t) PROVE TypeInv'
  <2>1. then[t] \in {"lock", "unlock", "spawn_lock", "sleep", "wakeup", "read"}
    BY <1>0, <1>7 DEF cpu_disable_interrupts, TypeOK, LocalsFit
  <2>2. pc' = [pc EXCEPT ![t] = then[t]] /\ pc' \in [Thread -> Label]
    BY <1>0, <1>7, <2>1 DEF cpu_disable_interrupts, TypeOK, Label, NonPreemptive
  <2>3. InterruptsType'
    BY <1>b, <1>0, <1>7 DEF cpu_disable_interrupts, Booleans, InterruptsType
  <2>4. /\ oldpre' \in [Thread -> BOOLEAN] /\ preempt' \in [Thread -> BOOLEAN]
        /\ driver' \in [Thread -> BOOLEAN]
    BY <1>0, <1>7 DEF cpu_disable_interrupts, TypeOK
  <2>5. TypeOK'
    BY <1>0, <1>7, <2>2, <2>3, <2>4 DEF cpu_disable_interrupts, TypeOK, InterruptsType, queue,
       spinlocks, kernel
  <2>6. LocalsFit'
    <3>1. \A u \in Thread \ {t} : driver'[u] = driver[u] /\ then'[u] = then[u] /\ core'[u] = core[u]
      BY <1>0, <1>7 DEF cpu_disable_interrupts, TypeOK
    <3>2. pc'[t] = then[t] /\ (then[t] = "read" => driver'[t]) /\ wakee' = wakee
      BY <1>0, <1>7 DEF cpu_disable_interrupts, TypeOK
    <3>3. \A u \in Thread \ {t} : pc'[u] = pc[u]
      BY <1>0, <2>2 DEF TypeOK
    <3>4. pc[t] = "disable"
      BY <1>7 DEF cpu_disable_interrupts
    <3> QED BY <1>0, <2>1, <3>1, <3>2, <3>3, <3>4 DEF LocalsFit
  <2> QED BY <2>5, <2>6 DEF TypeInv
<1>8. ASSUME NEW c \in Core, NEW t \in Thread, NEW f \in Call, syscall(c, t, f) PROVE TypeInv'
  <2>0. /\ pc' \in [Thread -> Label]
        /\ cause' \in [Thread -> {"none", "sem", "rx", "exit"}]
    <3>1. PICK l \in {"unlock", "preempt_off"} : pc' = [pc EXCEPT ![t] = l]
      BY <1>8 DEF syscall
    <3>2. cause' = cause \/ \E x \in {"exit", "none"} : cause' = [cause EXCEPT ![t] = x]
      BY <1>8 DEF syscall
    <3> QED BY <1>0, <3>1, <3>2 DEF TypeOK, Label
  <2>1. then' \in [Thread -> {"user", "lock", "unlock", "spawn_lock", "sleep", "wakeup", "read"}]
    BY <1>0, <1>8 DEF syscall, TypeOK
  <2>2. TypeOK'
    BY <1>0, <1>8, <2>0, <2>1 DEF syscall, TypeOK, cores, interrupts, queue, spinlocks, kernel
  <2>3. LocalsFit'
    BY <1>0, <1>8 DEF syscall, TypeOK, LocalsFit
  <2> QED BY <2>2, <2>3 DEF TypeInv
<1>9. ASSUME NEW c \in Core, NEW t \in Thread, sys_Exec(c, t) PROVE TypeInv'
  <2>1. CASE \A u \in Thread : state[u] # "FREE"
    <3>1. /\ pc' = [pc EXCEPT ![t] = "unlock"]
          /\ UNCHANGED <<cores, interrupts, queue, spinlocks, kernel, locals>>
      BY <1>9, <2>1 DEF sys_Exec, queue, locals
    <3>2. TypeOK'
      BY <1>0, <3>1 DEF TypeOK, Label, cores, interrupts, queue, spinlocks, kernel, locals
    <3>3. LocalsFit'
      BY <1>0, <3>1 DEF TypeOK, LocalsFit, locals
    <3> QED BY <3>2, <3>3 DEF TypeInv
  <2>2. CASE ~ \A u \in Thread : state[u] # "FREE"
    <3>1. PICK u \in Thread :
            /\ state' = [state EXCEPT ![u] = "INIT"]
            /\ wakee' = [wakee EXCEPT ![t] = u]
            /\ pc' = [pc EXCEPT ![t] = "spawn_lock", ![u] = "user"]
            /\ driver' = [driver EXCEPT ![u] = FALSE]
            /\ preempt' = [preempt EXCEPT ![u] = TRUE]
      BY <1>9, <2>2 DEF sys_Exec
    <3>2. UNCHANGED <<cores, interrupts, SCHED, spinlocks, kernel, then, cause, core, tcb, oldpre>>
      BY <1>9 DEF sys_Exec
    <3>3. preempt' \in [Thread -> BOOLEAN] /\ driver' \in [Thread -> BOOLEAN]
      BY <1>0, <3>1 DEF TypeOK
    <3>4. TypeOK'
      BY <1>0, <3>1, <3>2, <3>3 DEF TypeOK, Label, cores, interrupts, spinlocks, kernel
    <3>5. LocalsFit'
      BY <1>0, <3>1, <3>2 DEF TypeOK, LocalsFit
    <3> QED BY <3>4, <3>5 DEF TypeInv
  <2> QED BY <2>1, <2>2
<1>10. ASSUME NEW c \in Core, NEW t \in Thread, serial_read(c, t) PROVE TypeInv'
  <2>1. InterruptsType'
    BY <1>0, <1>10 DEF serial_read, preempt_on, interrupts, TypeOK, InterruptsType
  <2>2. driver' \in [Thread -> BOOLEAN]
    BY <1>0, <1>10 DEF serial_read, TypeOK
  <2>3. pc' \in [Thread -> Label] /\ cause' \in [Thread -> {"none", "sem", "rx", "exit"}]
    BY <1>0, <1>10 DEF serial_read, TypeOK, Label
  <2>4. UNCHANGED <<cores, queue, spinlocks, kernel, then, core, tcb, wakee, oldpre, preempt>>
    BY <1>10 DEF serial_read
  <2>5. TypeOK'
    BY <1>0, <2>1, <2>2, <2>3, <2>4 DEF TypeOK, InterruptsType, cores, queue, spinlocks, kernel
  <2>6. LocalsFit'
    BY <1>0, <1>10 DEF serial_read, TypeOK, LocalsFit
  <2> QED BY <2>5, <2>6 DEF TypeInv
<1>11. ASSUME NEW c \in Core, NEW t \in Thread, wakeup(c, t) PROVE TypeInv'
  <2>1. wakee[t] \in Thread
    BY <1>0, <1>11 DEF wakeup, LocalsFit
  <2>2. QueueType' /\ InterruptsType'
    BY <1>0, <1>11, <2>1, MakeReadyType, RestoreType DEF wakeup, wakeup_restore
  <2>3. oldpre' \in [Thread -> BOOLEAN]
    BY <1>0, <1>11 DEF wakeup, TypeOK
  <2>4. PICK l \in {"unlock", "signalled", "signal"} : pc' = [pc EXCEPT ![t] = l]
    BY <1>11 DEF wakeup
  <2>5. TypeOK'
    BY <1>0, <1>11, <2>2, <2>3, <2>4 DEF wakeup, TypeOK, QueueType, InterruptsType, Label, cores,
       spinlocks, kernel
  <2>6. LocalsFit'
    BY <1>0, <1>11, <2>4 DEF wakeup, TypeOK, LocalsFit
  <2> QED BY <2>5, <2>6 DEF TypeInv
<1>12. ASSUME NEW c \in Core, NEW t \in Thread, sleep_releasing(c, t) PROVE TypeInv'
  <2>1. preempt' \in [Thread -> BOOLEAN] /\ InterruptsType'
    BY <1>0, <1>12, PreemptOffType DEF sleep_releasing, TypeOK
  <2>2. TypeOK'
    BY <1>0, <1>12, <2>1 DEF sleep_releasing, TypeOK, InterruptsType, Label, NonPreemptive,
       spinlocks
  <2>3. LocalsFit'
    BY <1>0, <1>12 DEF sleep_releasing, TypeOK, LocalsFit
  <2> QED BY <2>2, <2>3 DEF TypeInv
<1>13. ASSUME NEW c \in Core, NEW t \in Thread, sleep_return(c, t) PROVE TypeInv'
  <2>1. /\ preempt' \in [Thread -> BOOLEAN] /\ oldpre' \in [Thread -> BOOLEAN]
        /\ InterruptsType'
    BY <1>0, <1>13, RestoreType DEF sleep_return, TypeOK
  <2>2. TypeOK'
    BY <1>0, <1>13, <2>1 DEF sleep_return, TypeOK, InterruptsType, Label, cores, queue, spinlocks,
       kernel
  <2>3. LocalsFit'
    BY <1>0, <1>13 DEF sleep_return, TypeOK, LocalsFit
  <2> QED BY <2>2, <2>3 DEF TypeInv
<1>14. ASSUME NEW c \in Core, NEW at \in {"yield", "rx"}, Interrupt(c, at) PROVE TypeInv'
  <2>1. InterruptsType' /\ preempt' \in [Thread -> BOOLEAN]
    BY <1>b, <1>0, <1>14, PreemptOffType DEF Interrupt, Booleans
  <2> QED BY <1>0, <1>14, <2>1, CoreType DEF Interrupt, TypeOK, QueueType, queue, spinlocks, kernel
<1>15. ASSUME NEW c \in Core, serial_rx_handler(c), ~Interrupt(c, "rx") PROVE TypeInv'
  <2>1. InterruptsType'
    BY <1>0, <1>15, RestoreType DEF serial_rx_handler, resume
  <2>2. QueueType' /\ rx_ready' \subseteq Thread
    <3>1. \A u \in rx_ready : u \in Thread
      BY <1>0 DEF TypeOK
    <3> QED BY <1>0, <1>15, <3>1, MakeReadyType DEF serial_rx_handler, TypeOK, QueueType, queue,
               kernel
  <2> QED BY <1>0, <1>15, <2>1, <2>2, CoreType DEF serial_rx_handler, TypeOK, cores, spinlocks,
             kernel, locals
<1>16. ASSUME NEW c \in Core, yield(c) PROVE TypeInv'
  <2>1. current' \in [Core -> Thread \cup {Nil}] /\ SCHED' \in Seq(Thread)
    <3>1. CASE SCHED = <<>>
      BY <1>0, <1>16, <3>1 DEF yield, TypeOK
    <3>2. CASE SCHED # <<>>
      <4>1. Head(SCHED) \in Thread /\ Tail(SCHED) \in Seq(Thread)
        BY <1>0, <3>2 DEF TypeOK
      <4>2. current' = [current EXCEPT ![c] = Head(SCHED)] /\ SCHED' = Tail(SCHED)
        BY <1>16, <3>2 DEF yield
      <4>3. current \in [Core -> Thread \cup {Nil}]
        BY <1>0 DEF TypeOK
      <4> QED BY <4>1, <4>2, <4>3
    <3> QED BY <3>1, <3>2
  <2>2. QueueType'
    BY <1>0, <1>16, <2>1 DEF yield, TypeOK, QueueType
  <2> QED BY <1>0, <1>16, <2>1, <2>2, CoreType DEF yield, TypeOK, InterruptsType, interrupts,
             spinlocks, kernel, locals
<1>17. ASSUME NEW c \in Core, gain(c) PROVE TypeInv'
  <2>1. InterruptsType'
    BY <1>0, <1>17, RestoreType DEF gain, resume, interrupts, TypeOK, InterruptsType
  <2>2. prev[c] # Nil => prev[c] \in Thread
    BY <1>0 DEF TypeOK
  <2>3. QueueType'
    BY <1>0, <1>17, <2>2 DEF gain, TypeOK, QueueType
  <2>4. UNCHANGED <<current, active_lock, kernel, pc, locals>> /\ sched_spinlock' \in Core \cup {Nil}
    BY <1>0, <1>17 DEF gain, TypeOK
  <2>5. /\ prev' \in [Core -> Thread \cup {Nil}]
        /\ mode' \in [Core -> {"run", "yield", "gain", "release", "rx"}]
    BY <1>0, <1>17 DEF gain, TypeOK
  <2> QED BY <1>0, <2>1, <2>3, <2>4, <2>5, CoreType DEF TypeOK, kernel, locals
<1>18. ASSUME NEW c \in Core, release_TCB(c) PROVE TypeInv'
  <2>1. InterruptsType'
    BY <1>0, <1>18, RestoreType DEF release_TCB, resume
  <2> QED BY <1>0, <1>18, <2>1, CoreType DEF release_TCB, TypeOK, QueueType, queue, kernel, locals
<1>19. ASSUME NEW c \in Core, idle_thread(c) PROVE TypeInv'
  <2>1. InterruptsType'
    BY <1>0, <1>19, PreemptOffType DEF idle_thread
  <2> QED BY <1>0, <1>19, <2>1, CoreType DEF idle_thread, TypeOK, QueueType, queue, spinlocks,
             kernel, locals
<1>20. CASE UNCHANGED vars
  <2>1. InterruptsType' /\ QueueType' /\ UNCHANGED vars
    BY <1>0, <1>20 DEF vars, interrupts, queue, TypeOK, InterruptsType, QueueType
  <2> QED BY <1>0, <2>1, CoreType DEF vars, cores, spinlocks, kernel, locals, TypeOK
<1> QED BY <1>1, <1>2, <1>3, <1>4, <1>5, <1>6, <1>7, <1>8, <1>9, <1>10, <1>11, <1>12, <1>13, <1>14,
           <1>15, <1>16, <1>17, <1>18, <1>19, <1>20 DEF Next, CoreStep, Scheduling, Step,
           yield_handler, serial_rx_handler

----------------------------------------------------------------------------
(***************************************************************************)
(* A thread is in one place.                                               *)
(***************************************************************************)

LEMMA Alone ==
  ASSUME PlaceFits, NEW c \in Core, NEW d \in Core, c # d, NEW t \in Thread,
         t \in {current[c], prev[c]}
  PROVE  t \notin {current[d], prev[d]}
BY PreemptionAssumption DEF PlaceFits

LEMMA PlaceSame ==
  ASSUME PlaceFits, UNCHANGED <<current, prev, SCHED, state>>
  PROVE  PlaceFits'
BY DEF PlaceFits, OnCore

LEMMA PlaceReady ==
  ASSUME TypeOK, PlaceFits, NEW u \in Thread, sched_make_ready(u), UNCHANGED <<current, prev>>
  PROVE  PlaceFits'
<1>0. SCHED \in Seq(Thread) /\ state \in [Thread -> {"FREE", "INIT", "READY", "RUNNING", "STOPPED",
                                                     "EXITED"}]
  BY DEF TypeOK
<1>1. Range(SCHED) \subseteq Thread
  BY <1>0, RangeType
<1>2. CASE state[u] \notin {"STOPPED", "INIT"}
  BY <1>2, PlaceSame DEF sched_make_ready, queue
<1>3. CASE state[u] \in {"STOPPED", "INIT"}
  <2>1. u \notin Range(SCHED) /\ state' = [state EXCEPT ![u] = "READY"]
    BY <1>3 DEF PlaceFits, sched_make_ready
  <2>2. \A t : OnCore(t)' <=> OnCore(t)
    BY DEF OnCore
  <2>3. Range(SCHED') \subseteq Range(SCHED) \cup {x \in {u} : ~OnCore(u)} /\ IsInjective(SCHED')
    <3>1. CASE OnCore(u)
      BY <1>3, <3>1 DEF PlaceFits, sched_make_ready
    <3>2. CASE ~OnCore(u)
      <4>1. SCHED' = Append(SCHED, u)
        BY <1>3, <3>2 DEF sched_make_ready
      <4>2. IsInjective(SCHED)
        BY DEF PlaceFits
      <4>3. Range(Append(SCHED, u)) = Range(SCHED) \cup {u} /\ IsInjective(Append(SCHED, u))
        BY <1>0, <2>1, <4>2, AppendLemma
      <4> QED BY <3>2, <4>1, <4>3
    <3> QED BY <3>1, <3>2
  <2>4. ASSUME NEW t \in Range(SCHED') PROVE state'[t] = "READY" /\ ~OnCore(t)'
    BY <1>0, <1>1, <2>1, <2>2, <2>3 DEF PlaceFits
  <2>5. ASSUME NEW t \in Thread, state'[t] \in {"FREE", "INIT"} PROVE ~OnCore(t)'
    BY <1>0, <2>1, <2>2, <2>5 DEF PlaceFits
  <2>6. \A c, d \in Core : c # d =>
          {current'[c], prev'[c]} \cap {current'[d], prev'[d]} \subseteq {Nil}
    BY DEF PlaceFits
  <2> QED BY <2>3, <2>4, <2>5, <2>6 DEF PlaceFits
<1> QED BY <1>2, <1>3

LEMMA PlaceYield ==
  ASSUME TypeOK, PlaceFits, NEW c \in Core, yield(c)
  PROVE  PlaceFits'
<1> DEFINE t == current[c]
<1>0. /\ SCHED \in Seq(Thread) /\ current \in [Core -> Thread \cup {Nil}]
      /\ prev \in [Core -> Thread \cup {Nil}] /\ Nil \notin Thread
  BY PreemptionAssumption DEF TypeOK
<1>1. Range(SCHED) \subseteq Thread
  BY <1>0, RangeType
<1>2. PICK n \in Thread \cup {Nil} :
        /\ current' = [current EXCEPT ![c] = n] /\ prev' = [prev EXCEPT ![c] = t]
        /\ n \in {t, Nil} \/ n \in Range(SCHED)
        /\ Range(SCHED') \subseteq Range(SCHED) \ {n} /\ IsInjective(SCHED')
  <2>1. CASE SCHED = <<>>
    <3>1. Range(SCHED) = {}
      BY <2>1 DEF Range
    <3>2. /\ current' = [current EXCEPT ![c] = IF t # Nil /\ state[t] \in {"RUNNING", "READY"}
                                               THEN t ELSE Nil]
          /\ SCHED' = SCHED /\ prev' = [prev EXCEPT ![c] = t]
      BY <2>1 DEF yield
    <3>3. t \in Thread \cup {Nil}
      BY <1>0
    <3> QED BY <3>1, <3>2, <3>3 DEF PlaceFits
  <2>2. CASE SCHED # <<>>
    <3>1. /\ current' = [current EXCEPT ![c] = Head(SCHED)] /\ SCHED' = Tail(SCHED)
          /\ prev' = [prev EXCEPT ![c] = t]
      BY <2>2 DEF yield
    <3>2. /\ Head(SCHED) \in Range(SCHED) /\ Range(Tail(SCHED)) \subseteq Range(SCHED)
          /\ IsInjective(Tail(SCHED)) /\ Head(SCHED) \notin Range(Tail(SCHED))
      BY <1>0, <2>2, TailLemma DEF PlaceFits
    <3> QED BY <1>1, <3>1, <3>2
  <2> QED BY <2>1, <2>2
<1>3. state' = [u \in Thread |-> IF u = t /\ t # Nil /\ state[t] \in {"RUNNING", "READY"}
                                 THEN "READY" ELSE state[u]]
  BY DEF yield
<1> HIDE DEF t
<1>4. current[c] = t /\ \A u : u \in {t, n} \ {Nil} => u \in Thread
  BY <1>0 DEF t
<1>5. \A d \in Core : /\ current'[d] = IF d = c THEN n ELSE current[d]
                      /\ prev'[d] = IF d = c THEN t ELSE prev[d]
  BY <1>0, <1>2
<1>6. \A d \in Core \ {c} : \A u \in {t, n} \ {Nil} : u \notin {current[d], prev[d]}
  <2> SUFFICES ASSUME NEW d \in Core \ {c}, NEW u \in {t, n} \ {Nil}
               PROVE  u \notin {current[d], prev[d]}
    OBVIOUS
  <2>1. CASE u = t
    BY <1>4, <2>1, Alone
  <2>2. CASE u # t
    <3>1. ~OnCore(u)
      BY <1>2, <2>2 DEF PlaceFits
    <3> QED BY <3>1 DEF OnCore
  <2> QED BY <2>1, <2>2
<1>7. \A d, e \in Core : d # e =>
        {current'[d], prev'[d]} \cap {current'[e], prev'[e]} \subseteq {Nil}
  <2> SUFFICES ASSUME NEW d \in Core, NEW e \in Core, d # e
               PROVE  {current'[d], prev'[d]} \cap {current'[e], prev'[e]} \subseteq {Nil}
    OBVIOUS
  <2>1. CASE d # c /\ e # c
    BY <1>5, <2>1 DEF PlaceFits
  <2>2. CASE d = c
    BY <1>5, <1>6, <2>2
  <2>3. CASE e = c
    BY <1>5, <1>6, <2>3
  <2> QED BY <2>1, <2>2, <2>3
<1>8. \A u : OnCore(u)' => OnCore(u) \/ u = n
  BY <1>4, <1>5 DEF OnCore
<1>9. ASSUME NEW u \in Range(SCHED') PROVE state'[u] = "READY" /\ ~OnCore(u)'
  <2>1. u \in Range(SCHED) /\ u # n
    BY <1>2, <1>9
  <2>2. state[u] = "READY" /\ ~OnCore(u) /\ u \in Thread
    BY <1>1, <2>1 DEF PlaceFits
  <2> QED BY <1>3, <1>8, <2>1, <2>2
<1>10. ASSUME NEW u \in Thread, state'[u] \in {"FREE", "INIT"} PROVE ~OnCore(u)'
  <2>1. state[u] \in {"FREE", "INIT"}
    BY <1>3, <1>10
  <2>2. ~OnCore(u)
    BY <2>1 DEF PlaceFits
  <2>3. u # n
    <3>1. u # t
      BY <1>4, <2>2 DEF OnCore
    <3>2. u \notin Range(SCHED) /\ u # Nil
      BY <1>0, <2>1 DEF PlaceFits
    <3> QED BY <1>2, <3>1, <3>2
  <2> QED BY <1>8, <2>2, <2>3
<1> QED BY <1>2, <1>7, <1>9, <1>10 DEF PlaceFits

LEMMA PlaceGain ==
  ASSUME TypeOK, PlaceFits, NEW c \in Core, gain(c)
  PROVE  PlaceFits'
<1> DEFINE t == current[c]
           p == prev[c]
<1>0. /\ SCHED \in Seq(Thread) /\ current \in [Core -> Thread \cup {Nil}]
      /\ prev \in [Core -> Thread \cup {Nil}] /\ Nil \notin Thread
      /\ t \in Thread \cup {Nil} /\ p \in Thread \cup {Nil}
  BY PreemptionAssumption DEF TypeOK
<1>1. Range(SCHED) \subseteq Thread
  BY <1>0, RangeType
<1>2. /\ state' = [u \in Thread |->
                     CASE u = t -> "RUNNING"
                       [] u = p /\ p \notin {t, Nil} /\ state[p] = "EXITED" -> "FREE"
                       [] OTHER -> state[u]]
      /\ SCHED' = IF p \notin {t, Nil} /\ state[p] = "READY" THEN Append(SCHED, p) ELSE SCHED
      /\ current' = current /\ prev' = [prev EXCEPT ![c] = Nil]
  BY DEF gain
<1>3. t \notin Range(SCHED) /\ p \notin Range(SCHED)
  BY DEF PlaceFits, OnCore
<1>4. /\ IsInjective(SCHED')
      /\ \A u \in Range(SCHED') : u \in Range(SCHED) \/ (u = p /\ p \notin {t, Nil} /\ state[p] = "READY")
  <2>1. CASE p \notin {t, Nil} /\ state[p] = "READY"
    BY <1>0, <1>2, <1>3, <2>1, AppendLemma DEF PlaceFits
  <2>2. CASE ~(p \notin {t, Nil} /\ state[p] = "READY")
    BY <1>2, <2>2 DEF PlaceFits
  <2> QED BY <2>1, <2>2
<1>5. \A d \in Core : current'[d] = current[d] /\ prev'[d] = IF d = c THEN Nil ELSE prev[d]
  BY <1>0, <1>2
<1>6. \A u \in Thread : OnCore(u)' => OnCore(u) /\ (u = p => p = t)
  <2> SUFFICES ASSUME NEW u \in Thread, NEW d \in Core, u \in {current'[d], prev'[d]}
               PROVE  OnCore(u) /\ (u = p => p = t)
    BY DEF OnCore
  <2>1. OnCore(u)
    BY <1>0, <1>5 DEF OnCore
  <2>2. CASE d = c
    BY <1>0, <1>5, <2>1, <2>2
  <2>3. CASE d # c
    <3>1. u # p
      BY <1>5, <2>3, Alone
    <3> QED BY <2>1, <3>1
  <2> QED BY <2>2, <2>3
<1>7. ASSUME NEW u \in Range(SCHED') PROVE state'[u] = "READY" /\ ~OnCore(u)'
  <2>1. CASE u \in Range(SCHED)
    <3>1. state[u] = "READY" /\ ~OnCore(u) /\ u \in Thread /\ u # t /\ u # p
      BY <1>1, <1>3, <2>1 DEF PlaceFits
    <3> QED BY <1>2, <1>6, <3>1
  <2>2. CASE u \notin Range(SCHED)
    <3>1. u = p /\ p \notin {t, Nil} /\ state[p] = "READY"
      BY <1>4, <1>7, <2>2
    <3> QED BY <1>0, <1>2, <1>6, <3>1
  <2> QED BY <2>1, <2>2
<1>8. ASSUME NEW u \in Thread, state'[u] \in {"FREE", "INIT"} PROVE ~OnCore(u)'
  <2>1. u # t /\ (state[u] \in {"FREE", "INIT"} \/ (u = p /\ p # t))
    BY <1>2, <1>8
  <2> QED BY <1>6, <2>1 DEF PlaceFits
<1>9. \A d, e \in Core : d # e =>
        {current'[d], prev'[d]} \cap {current'[e], prev'[e]} \subseteq {Nil}
  BY <1>5 DEF PlaceFits
<1> QED BY <1>4, <1>7, <1>8, <1>9 DEF PlaceFits

----------------------------------------------------------------------------
(***************************************************************************)
(* Preemption on any number of cores, where no thread uses the number of a *)
(* core that it has left.                                                  *)
(***************************************************************************)

\* Preemption is on, or off, on the core, with its interrupts.
On(c) == preemption[c] /\ ~int_disabled[c] /\ ~blocked[c]
Off(c) == ~preemption[c] /\ int_disabled[c] /\ blocked[c]

\* The invariant, by core and by thread.
CoreFits(c) == mode[c] # "run" => Off(c)
RunFits(c, t) == Runs(c, t) => IF Preemptive(t) THEN On(c) ELSE Off(c)
WaitFits(t) == (\A c \in Core : ~Runs(c, t)) => (preempt[t] <=> Preemptive(t))
ThreadFits(t) ==
  /\ pc[t] \in {"sleep", "slept", "wakeup"} => (oldpre[t] <=> ~driver[t])
  /\ pc[t] \in {"preempt_off", "disable"} /\ then[t] = "sleep" => tcb[t] = t
  /\ pc[t] = "sleep" => tcb[t] = t

LEMMA InvParts ==
  PreemptionInv <=> /\ TypeInv /\ PlaceFits
                    /\ \A c \in Core : CoreFits(c)
                    /\ \A c \in Core, t \in Thread : RunFits(c, t)
                    /\ \A t \in Thread : WaitFits(t) /\ ThreadFits(t)
BY DEF PreemptionInv, TypeInv, PreemptionFits, SavedFits, TcbFits, SleeperIsCaller, On, Off,
   CoreFits, RunFits, WaitFits, ThreadFits

LEMMA InvPartsNext ==
  (PreemptionInv <=> /\ TypeInv /\ PlaceFits
                     /\ \A c \in Core : CoreFits(c)
                     /\ \A c \in Core, t \in Thread : RunFits(c, t)
                     /\ \A t \in Thread : WaitFits(t) /\ ThreadFits(t))'
BY InvParts, PTL

LEMMA OnLemma ==
  ASSUME TypeOK, NEW c \in Core, Off(c), preempt_on(c)
  PROVE  On(c)'
BY DEF TypeOK, On, Off, preempt_on

LEMMA OffLemma ==
  ASSUME TypeOK, NEW c \in Core, preempt_off(c)
  PROVE  Off(c)'
BY DEF TypeOK, Off, preempt_off

\* Restoring what was saved.
LEMMA RestoreLemma ==
  ASSUME TypeOK, NEW c \in Core, Off(c), NEW on, restore(c, on)
  PROVE  IF on THEN On(c)' ELSE Off(c)'
<1>1. CASE on
  BY <1>1, OnLemma DEF restore
<1>2. CASE ~on
  BY <1>2 DEF restore, interrupts, Off
<1> QED BY <1>1, <1>2

\* A step leaves the core as it is.
SameCore(d) ==
  /\ current'[d] = current[d] /\ mode'[d] = mode[d]
  /\ preemption'[d] = preemption[d] /\ int_disabled'[d] = int_disabled[d]
  /\ blocked'[d] = blocked[d]

LEMMA OthersSame ==
  ASSUME TypeOK, NEW c \in Core, NEW on, restore(c, on) \/ preempt_off(c)
  PROVE  \A d \in Core \ {c} : /\ preemption'[d] = preemption[d]
                               /\ int_disabled'[d] = int_disabled[d] /\ blocked'[d] = blocked[d]
BY DEF TypeOK, restore, preempt_on, preempt_off, interrupts

\* A step leaves the thread where it is, or starts a thread.
SameThread(u) ==
  /\ pc'[u] = pc[u] /\ then'[u] = then[u] /\ driver'[u] = driver[u] /\ tcb'[u] = tcb[u]
  /\ oldpre'[u] = oldpre[u] /\ preempt'[u] = preempt[u]
NewThread(u) == ~OnCore(u) /\ pc'[u] = "user" /\ ~driver'[u] /\ preempt'[u]

\* A step of the thread t, which runs on c and on no other core.
LEMMA ThreadStep ==
  ASSUME PreemptionInv, TypeInv', PlaceFits',
         NEW c \in Core, NEW t \in Thread, Runs(c, t), current' = current,
         \A d \in Core \ {c} : SameCore(d),
         \A u \in Thread \ {t} : SameThread(u) \/ NewThread(u),
         CoreFits(c)', RunFits(c, t)', mode'[c] # "run" => (preempt'[t] <=> Preemptive(t)'),
         ThreadFits(t)'
  PROVE  PreemptionInv'
<1>0. /\ PlaceFits /\ \A d \in Core : CoreFits(d)
      /\ \A d \in Core, u \in Thread : RunFits(d, u)
      /\ \A u \in Thread : WaitFits(u) /\ ThreadFits(u)
  BY InvParts
<1>1. \A d \in Core \ {c} : current[d] # t
  BY <1>0, Alone DEF Runs
<1>2. \A d \in Core : CoreFits(d)'
  BY <1>0 DEF SameCore, CoreFits, Off
<1>3. ASSUME NEW u \in Thread \ {t} PROVE WaitFits(u)' /\ ThreadFits(u)'
  <2>1. CASE SameThread(u)
    <3>1. ASSUME \A d \in Core : ~Runs(d, u)' PROVE \A d \in Core : ~Runs(d, u)
      BY <3>1 DEF Runs, SameCore
    <3>2. Preemptive(u)' <=> Preemptive(u)
      BY <2>1 DEF SameThread, Preemptive
    <3>3. WaitFits(u)'
      BY <1>0, <2>1, <3>1, <3>2 DEF WaitFits, SameThread
    <3>4. ThreadFits(u)'
      BY <1>0, <2>1 DEF ThreadFits, SameThread
    <3> QED BY <3>3, <3>4
  <2>2. CASE NewThread(u)
    BY <2>2 DEF NewThread, WaitFits, ThreadFits, Preemptive, NonPreemptive
  <2> QED BY <2>1, <2>2
<1>4. WaitFits(t)'
  BY DEF WaitFits, Runs
<1>5. ASSUME NEW d \in Core, NEW u \in Thread PROVE RunFits(d, u)'
  <2>1. CASE d = c
    BY <2>1 DEF RunFits, Runs
  <2>2. CASE d # c /\ u = t
    BY <1>1, <2>2 DEF RunFits, Runs
  <2>3. CASE d # c /\ u # t /\ SameThread(u)
    BY <1>0, <2>3 DEF SameThread, SameCore, RunFits, Runs, Preemptive, On, Off
  <2>4. CASE d # c /\ u # t /\ NewThread(u)
    BY <2>4 DEF NewThread, OnCore, RunFits, Runs
  <2> QED BY <2>1, <2>2, <2>3, <2>4
<1> QED BY <1>2, <1>3, <1>4, <1>5, InvPartsNext

\* A step of the core c itself: no thread does anything.
LEMMA SchedulerStep ==
  ASSUME PreemptionInv, TypeInv', PlaceFits', NEW c \in Core,
         UNCHANGED <<pc, then, driver, tcb, oldpre>>,
         \A d \in Core \ {c} : SameCore(d),
         CoreFits(c)', \A t \in Thread : RunFits(c, t)', \A t \in Thread : WaitFits(t)'
  PROVE  PreemptionInv'
<1>0. /\ \A d \in Core : CoreFits(d)
      /\ \A d \in Core, u \in Thread : RunFits(d, u)
      /\ \A u \in Thread : ThreadFits(u)
  BY InvParts
<1>1. \A d \in Core : CoreFits(d)'
  BY <1>0 DEF SameCore, CoreFits, Off
<1>2. \A t \in Thread : ThreadFits(t)'
  BY <1>0 DEF ThreadFits
<1>3. ASSUME NEW d \in Core, NEW u \in Thread PROVE RunFits(d, u)'
  <2>1. CASE d = c
    BY <2>1
  <2>2. CASE d # c
    BY <1>0, <2>2 DEF SameCore, RunFits, Runs, Preemptive, On, Off
  <2> QED BY <2>1, <2>2
<1> QED BY <1>1, <1>2, <1>3, InvPartsNext

\* The core goes back to its current thread, with what was saved.
LEMMA ResumeStep ==
  ASSUME PreemptionInv, TypeInv', PlaceFits', NEW c \in Core, mode[c] # "run",
         mode' = [mode EXCEPT ![c] = "run"], current' = current, resume(c), UNCHANGED <<pc, locals>>
  PROVE  PreemptionInv'
<1>0. /\ TypeOK /\ PlaceFits /\ \A d \in Core : CoreFits(d)
      /\ \A u \in Thread : WaitFits(u)
  BY InvParts DEF TypeInv
<1>1. Off(c) /\ mode'[c] = "run" /\ \A d \in Core \ {c} : mode'[d] = mode[d]
  BY <1>0 DEF CoreFits, TypeOK
<1>2. restore(c, IF current[c] = Nil THEN TRUE ELSE preempt[current[c]])
  BY DEF resume
<1>3. \A d \in Core \ {c} : SameCore(d)
  <2>1. \A d \in Core \ {c} : /\ preemption'[d] = preemption[d]
                              /\ int_disabled'[d] = int_disabled[d] /\ blocked'[d] = blocked[d]
    BY <1>0, <1>2, OthersSame
  <2> QED BY <1>1, <2>1 DEF SameCore
<1>4. \A t \in Thread : Preemptive(t)' = Preemptive(t)
  BY DEF Preemptive, locals
<1>5. ASSUME NEW t \in Thread PROVE RunFits(c, t)'
  <2> SUFFICES ASSUME current[c] = t PROVE IF Preemptive(t)' THEN On(c)' ELSE Off(c)'
    BY DEF RunFits, Runs
  <2>1. t # Nil
    BY PreemptionAssumption
  <2>2. \A d \in Core : ~Runs(d, t)
    BY <1>0, Alone DEF Runs
  <2>3. preempt[t] <=> Preemptive(t)
    BY <1>0, <2>2 DEF WaitFits
  <2>4. restore(c, preempt[t])
    BY <1>2, <2>1
  <2>5. IF preempt[t] THEN On(c)' ELSE Off(c)'
    BY <1>0, <1>1, <2>4, RestoreLemma
  <2> QED BY <1>4, <2>3, <2>5
<1>6. ASSUME NEW t \in Thread PROVE WaitFits(t)'
  <2>1. ASSUME \A d \in Core : ~Runs(d, t)' PROVE \A d \in Core : ~Runs(d, t)
    BY <1>1, <2>1 DEF Runs
  <2> QED BY <1>0, <1>4, <2>1 DEF WaitFits, locals
<1>7. CoreFits(c)'
  BY <1>1 DEF CoreFits
<1> QED BY <1>3, <1>5, <1>6, <1>7, SchedulerStep DEF locals

\* The core leaves its current thread, or stays away from it.
LEMMA AwayStep ==
  ASSUME PreemptionInv, TypeInv', PlaceFits', NEW c \in Core,
         UNCHANGED <<pc, then, driver, tcb, oldpre>>, Off(c)', mode'[c] # "run",
         \A d \in Core \ {c} : SameCore(d),
         \A t \in Thread : preempt'[t] = IF Runs(c, t) THEN preemption[c] ELSE preempt[t]
  PROVE  PreemptionInv'
<1>0. /\ PlaceFits /\ \A d \in Core, u \in Thread : RunFits(d, u)
      /\ \A u \in Thread : WaitFits(u)
  BY InvParts
<1>1. \A t \in Thread : Preemptive(t)' = Preemptive(t)
  BY DEF Preemptive
<1>2. CoreFits(c)' /\ \A t \in Thread : RunFits(c, t)'
  BY DEF CoreFits, RunFits, Runs
<1>3. ASSUME NEW t \in Thread, \A d \in Core : ~Runs(d, t)'
      PROVE  preempt'[t] <=> Preemptive(t)
  <2>1. CASE Runs(c, t)
    <3>1. RunFits(c, t)
      BY <1>0
    <3>2. preempt'[t] = preemption[c]
      BY <2>1
    <3> QED BY <2>1, <3>1, <3>2 DEF RunFits, On, Off
  <2>2. CASE ~Runs(c, t)
    <3>1. \A d \in Core : ~Runs(d, t)
      BY <1>3, <2>2 DEF Runs, SameCore
    <3> QED BY <1>0, <2>2, <3>1 DEF WaitFits
  <2> QED BY <2>1, <2>2
<1>4. \A t \in Thread : WaitFits(t)'
  BY <1>1, <1>3 DEF WaitFits
<1> QED BY <1>2, <1>4, SchedulerStep

LEMMA PreemptionInit == Init => PreemptionInv
<1> SUFFICES ASSUME Init PROVE PreemptionInv
  OBVIOUS
<1> USE PreemptionAssumption
<1>1. PICK t \in Thread : SCHED = <<t>> /\ state = [u \in Thread |-> IF u = t THEN "READY" ELSE "FREE"]
  BY DEF Init
<1>2. \A u \in Thread : ~OnCore(u)
  BY DEF Init, OnCore
<1>3. Range(SCHED) = {t} /\ IsInjective(SCHED)
  BY <1>1 DEF Range, IsInjective
<1>4. PlaceFits
  BY <1>1, <1>2, <1>3 DEF Init, PlaceFits
<1>5. \A c \in Core : CoreFits(c)
  BY DEF Init, CoreFits
<1>6. \A c \in Core, u \in Thread : RunFits(c, u)
  BY DEF Init, RunFits, Runs
<1>7. \A u \in Thread : WaitFits(u) /\ ThreadFits(u)
  BY DEF Init, WaitFits, ThreadFits, Preemptive, NonPreemptive
<1> QED BY <1>4, <1>5, <1>6, <1>7, TypeInit, InvParts

\* A step of the thread t that does not concern preemption.
LEMMA QuietStep ==
  ASSUME PreemptionInv, TypeInv', NEW c \in Core, NEW t \in Thread, Runs(c, t),
         UNCHANGED <<cores, interrupts, queue>>, UNCHANGED <<driver, oldpre, preempt>>,
         \A u \in Thread \ {t} : pc'[u] = pc[u] /\ then'[u] = then[u] /\ tcb'[u] = tcb[u],
         Preemptive(t)' <=> Preemptive(t), ThreadFits(t)'
  PROVE  PreemptionInv'
<1>0. /\ PlaceFits /\ \A d \in Core : CoreFits(d)
      /\ \A d \in Core, u \in Thread : RunFits(d, u)
  BY InvParts
<1>1. PlaceFits'
  BY <1>0, PlaceSame DEF cores, queue
<1>2. \A d \in Core \ {c} : SameCore(d)
  BY DEF SameCore, cores, interrupts
<1>3. \A u \in Thread \ {t} : SameThread(u)
  BY DEF SameThread
<1>4. CoreFits(c)' /\ RunFits(c, t)' /\ mode'[c] = "run" /\ current' = current
  BY <1>0 DEF CoreFits, RunFits, Runs, On, Off, cores, interrupts
<1> QED BY <1>1, <1>2, <1>3, <1>4, ThreadStep

LEMMA PreemptionStep == PreemptionInv /\ [SteadyNext]_vars => PreemptionInv'
<1> SUFFICES ASSUME PreemptionInv, [SteadyNext]_vars PROVE PreemptionInv'
  OBVIOUS
<1> USE PreemptionAssumption DEF At, Jump
<1>0. /\ TypeInv /\ TypeInv' /\ TypeOK /\ LocalsFit /\ PlaceFits
      /\ \A c \in Core : CoreFits(c)
      /\ \A c \in Core, t \in Thread : RunFits(c, t)
      /\ \A t \in Thread : WaitFits(t) /\ ThreadFits(t)
  <2>1. TypeInv
    BY InvParts
  <2>2. [Next]_vars
    BY DEF SteadyNext, Next
  <2> QED BY <2>1, <2>2, InvParts, TypeStep DEF TypeInv
<1>1. ASSUME NEW c \in Core, NEW t \in Thread, curr_core(c, t) PROVE PreemptionInv'
  <2>1. ThreadFits(t)' /\ (Preemptive(t)' <=> Preemptive(t))
    BY <1>0, <1>1 DEF curr_core, ThreadFits, Preemptive, NonPreemptive, TypeOK
  <2> QED BY <1>0, <1>1, <2>1, QuietStep DEF curr_core, TypeOK
<1>2. ASSUME NEW c \in Core, NEW t \in Thread, Mutex_Lock_yield(c, t) PROVE PreemptionInv'
  <2>1. ThreadFits(t)' /\ (Preemptive(t)' <=> Preemptive(t))
    BY <1>0, <1>2 DEF Mutex_Lock_yield, ThreadFits, Preemptive, NonPreemptive, TypeOK
  <2> QED BY <1>0, <1>2, <2>1, QuietStep DEF Mutex_Lock_yield, TypeOK
<1>3. ASSUME NEW c \in Core, NEW t \in Thread, kernel_lock(c, t) PROVE PreemptionInv'
  <2>1. /\ Runs(c, t) /\ UNCHANGED <<cores, interrupts, queue>>
        /\ UNCHANGED <<driver, oldpre, preempt, then, tcb>>
    BY <1>3 DEF kernel_lock, locals
  <2>2. PICK l \in {"lock", "locked", "syscall", "read", "cur_thread"} :
          pc' = [pc EXCEPT ![t] = l] /\ (l = "read" => driver[t])
    BY <1>3 DEF kernel_lock, call_sleep
  <2>3. pc[t] \in {"user", "lock", "locked"}
    BY <1>3 DEF kernel_lock
  <2>4. ThreadFits(t)' /\ (Preemptive(t)' <=> Preemptive(t))
    BY <1>0, <2>1, <2>2, <2>3 DEF ThreadFits, Preemptive, NonPreemptive, TypeOK
  <2> QED BY <1>0, <2>1, <2>2, <2>4, QuietStep DEF TypeOK
<1>4. ASSUME NEW c \in Core, NEW t \in Thread, kernel_unlock(c, t) PROVE PreemptionInv'
  <2>1. /\ Runs(c, t) /\ UNCHANGED <<cores, interrupts, queue>>
        /\ UNCHANGED <<driver, oldpre, preempt, tcb>>
    BY <1>4 DEF kernel_unlock, locals
  <2>2. PICK l \in {"signal", "signalled", "preempt_off", "user", "cur_thread"} :
          /\ pc' = [pc EXCEPT ![t] = l]
          /\ then' = then \/ then' = [then EXCEPT ![t] = "wakeup"]
          /\ l = "preempt_off" => then' = [then EXCEPT ![t] = "wakeup"]
    BY <1>4 DEF kernel_unlock, call_sleep, locals
  <2>3. pc[t] \in {"unlock", "signal", "signalled"}
    BY <1>4 DEF kernel_unlock
  <2>4. ThreadFits(t)' /\ (Preemptive(t)' <=> Preemptive(t))
    BY <1>0, <2>1, <2>2, <2>3 DEF ThreadFits, Preemptive, NonPreemptive, TypeOK
  <2> QED BY <1>0, <2>1, <2>2, <2>4, QuietStep DEF TypeOK
<1>5. ASSUME NEW c \in Core, NEW t \in Thread, NEW f \in Call, syscall(c, t, f) PROVE PreemptionInv'
  <2>1. /\ Runs(c, t) /\ UNCHANGED <<cores, interrupts, queue>> /\ pc[t] = "syscall"
        /\ UNCHANGED <<driver, oldpre, preempt, tcb>>
    BY <1>5 DEF syscall
  <2>2. PICK l \in {"unlock", "preempt_off"} :
          /\ pc' = [pc EXCEPT ![t] = l]
          /\ then' = then \/ then' = [then EXCEPT ![t] = "read"]
          /\ l = "preempt_off" => then' = [then EXCEPT ![t] = "read"]
    BY <1>5 DEF syscall
  <2>3. ThreadFits(t)' /\ (Preemptive(t)' <=> Preemptive(t))
    BY <1>0, <2>1, <2>2 DEF ThreadFits, Preemptive, NonPreemptive, TypeOK
  <2> QED BY <1>0, <2>1, <2>2, <2>3, QuietStep DEF TypeOK
<1>6. ASSUME NEW c \in Core, NEW t \in Thread, spawn_thread(c, t) PROVE PreemptionInv'
  <2>1. /\ Runs(c, t) /\ UNCHANGED <<cores, interrupts, queue>> /\ pc[t] \in {"spawn_lock", "spawn"}
        /\ UNCHANGED <<driver, oldpre, preempt, tcb>>
    BY <1>6 DEF spawn_thread, locals
  <2>2. PICK l \in {"spawn", "preempt_off"} :
          /\ pc' = [pc EXCEPT ![t] = l]
          /\ then' = then \/ then' = [then EXCEPT ![t] = "wakeup"]
          /\ l = "preempt_off" => then' = [then EXCEPT ![t] = "wakeup"]
    BY <1>6 DEF spawn_thread, locals
  <2>3. ThreadFits(t)' /\ (Preemptive(t)' <=> Preemptive(t))
    BY <1>0, <2>1, <2>2 DEF ThreadFits, Preemptive, NonPreemptive, TypeOK
  <2> QED BY <1>0, <2>1, <2>2, <2>3, QuietStep DEF TypeOK
<1>7. ASSUME NEW c \in Core, NEW t \in Thread, Steady(c, t), sleep_CURTHREAD(c, t)
      PROVE  PreemptionInv'
  <2>1. core[t] = c /\ current[c] = t
    BY <1>7 DEF sleep_CURTHREAD, Steady, Runs
  <2>2. tcb'[t] = t
    BY <1>0, <1>7, <2>1 DEF sleep_CURTHREAD, CURTHREAD, TypeOK
  <2>3. ThreadFits(t)' /\ (Preemptive(t)' <=> Preemptive(t))
    BY <1>0, <1>7, <2>2 DEF sleep_CURTHREAD, ThreadFits, Preemptive, NonPreemptive, TypeOK
  <2> QED BY <1>0, <1>7, <2>3, QuietStep DEF sleep_CURTHREAD, TypeOK
<1>8. ASSUME NEW c \in Core, NEW t \in Thread, Steady(c, t), cpu_disable_interrupts(c, t)
      PROVE  PreemptionInv'
  <2>1. /\ core[t] = c /\ Runs(c, t) /\ pc[t] = "disable" /\ current' = current
        /\ UNCHANGED <<prev, queue, tcb>>
    BY <1>8 DEF cpu_disable_interrupts, Steady
  <2>2. IF driver[t] THEN Off(c) ELSE On(c)
    BY <1>0, <2>1 DEF RunFits, Preemptive, NonPreemptive
  <2>3. /\ IF int_disabled[c]
           THEN UNCHANGED <<int_disabled, blocked>>
           ELSE /\ blocked' = [blocked EXCEPT ![c] = TRUE]
                /\ int_disabled' = [int_disabled EXCEPT ![c] = TRUE]
        /\ preemption' = [preemption EXCEPT ![c] = FALSE]
    BY <1>8, <2>1 DEF cpu_disable_interrupts
  <2>4. Off(c)'
    BY <1>0, <2>2, <2>3 DEF On, Off, TypeOK
  <2>5. \A d \in Core \ {c} : /\ preemption'[d] = preemption[d]
                              /\ int_disabled'[d] = int_disabled[d] /\ blocked'[d] = blocked[d]
    BY <1>0, <2>3 DEF TypeOK
  <2>6. \A d \in Core \ {c} : SameCore(d)
    BY <1>0, <1>8, <2>1, <2>5 DEF SameCore, cpu_disable_interrupts, TypeOK
  <2>7. /\ then[t] \in {"lock", "unlock", "spawn_lock", "sleep", "wakeup", "read"}
        /\ pc'[t] = then[t] /\ tcb' = tcb /\ then'[t] = "user"
    BY <1>0, <1>8 DEF cpu_disable_interrupts, LocalsFit, TypeOK
  <2>8. driver'[t] = (driver[t] \/ then[t] = "read")
    BY <1>0, <1>8 DEF cpu_disable_interrupts, TypeOK
  <2>9. then[t] \in {"sleep", "wakeup"} => oldpre'[t] = preemption[c]
    BY <1>0, <1>8 DEF cpu_disable_interrupts, TypeOK
  <2>10. preemption[c] <=> ~driver[t]
    BY <2>2 DEF On, Off
  <2>11. ThreadFits(t)'
    <3>1. then[t] = "sleep" => tcb[t] = t
      BY <1>0, <2>1 DEF ThreadFits
    <3> QED BY <2>7, <2>8, <2>9, <2>10, <3>1 DEF ThreadFits
  <2>12. \A u \in Thread \ {t} : SameThread(u)
    BY <1>0, <1>8 DEF cpu_disable_interrupts, SameThread, TypeOK
  <2>13. CASE then[t] \in {"lock", "unlock", "spawn_lock"}
    <3>1. preempt'[t] = preemption[c] /\ mode'[c] = "yield"
      BY <1>0, <1>8, <2>13 DEF cpu_disable_interrupts, TypeOK
    <3>2. Preemptive(t)' <=> ~driver[t]
      BY <2>7, <2>8, <2>13 DEF Preemptive, NonPreemptive
    <3>3. preempt'[t] <=> Preemptive(t)'
      BY <2>10, <3>1, <3>2
    <3>4. CoreFits(c)' /\ RunFits(c, t)'
      BY <2>4, <3>1 DEF CoreFits, RunFits, Runs
    <3>5. PlaceFits'
      BY <1>0, <2>1, PlaceSame DEF queue
    <3> QED BY <1>0, <2>1, <2>6, <2>11, <2>12, <3>3, <3>4, <3>5, ThreadStep
  <2>14. CASE then[t] \notin {"lock", "unlock", "spawn_lock"}
    <3>1. mode' = mode
      BY <1>8, <2>14 DEF cpu_disable_interrupts
    <3>2. ~Preemptive(t)'
      BY <2>7, <2>14 DEF Preemptive, NonPreemptive
    <3>3. CoreFits(c)' /\ RunFits(c, t)' /\ mode'[c] = "run"
      BY <2>1, <2>4, <3>1, <3>2 DEF CoreFits, RunFits, Runs
    <3>4. PlaceFits'
      BY <1>0, <2>1, PlaceSame DEF queue
    <3> QED BY <1>0, <2>1, <2>6, <2>11, <2>12, <3>3, <3>4, ThreadStep
  <2> QED BY <2>13, <2>14
<1>9. ASSUME NEW c \in Core, NEW t \in Thread, sys_Exec(c, t) PROVE PreemptionInv'
  <2>1. /\ Runs(c, t) /\ pc[t] = "syscall"
        /\ UNCHANGED <<cores, interrupts, SCHED, then, tcb, oldpre>>
    BY <1>9 DEF sys_Exec
  <2>2. CASE \A u \in Thread : state[u] # "FREE"
    <3>1. pc' = [pc EXCEPT ![t] = "unlock"] /\ UNCHANGED <<state, driver, preempt>>
      BY <1>9, <2>2 DEF sys_Exec
    <3>2. ThreadFits(t)' /\ (Preemptive(t)' <=> Preemptive(t))
      BY <1>0, <2>1, <3>1 DEF ThreadFits, Preemptive, NonPreemptive, TypeOK
    <3> QED BY <1>0, <2>1, <3>1, <3>2, QuietStep DEF TypeOK, queue
  <2>3. CASE ~ \A u \in Thread : state[u] # "FREE"
    <3>1. PICK u \in Thread :
            /\ state[u] = "FREE" /\ state' = [state EXCEPT ![u] = "INIT"]
            /\ pc' = [pc EXCEPT ![t] = "spawn_lock", ![u] = "user"]
            /\ driver' = [driver EXCEPT ![u] = FALSE]
            /\ preempt' = [preempt EXCEPT ![u] = TRUE]
      BY <1>9, <2>3 DEF sys_Exec
    <3>2. ~OnCore(u) /\ u # t
      BY <1>0, <2>1, <3>1 DEF PlaceFits, OnCore, Runs
    <3>3. NewThread(u) /\ pc'[t] = "spawn_lock" /\ driver'[t] = driver[t]
      BY <1>0, <3>1, <3>2 DEF NewThread, TypeOK
    <3>4. \A v \in Thread \ {t} : SameThread(v) \/ NewThread(v)
      BY <1>0, <2>1, <3>1, <3>3 DEF SameThread, TypeOK
    <3>5. PlaceFits'
      <4>1. \A v : OnCore(v)' <=> OnCore(v)
        BY <2>1 DEF OnCore, cores
      <4>2. u \notin Range(SCHED) /\ \A v \in Range(SCHED) : v \in Thread
        BY <1>0, <3>1, RangeType DEF PlaceFits, TypeOK
      <4>3. \A v \in Thread : state'[v] = IF v = u THEN "INIT" ELSE state[v]
        BY <1>0, <3>1 DEF TypeOK
      <4>4. current' = current /\ prev' = prev /\ SCHED' = SCHED
        BY <2>1 DEF cores
      <4> QED BY <1>0, <3>2, <4>1, <4>2, <4>3, <4>4 DEF PlaceFits
    <3>6. \A d \in Core \ {c} : SameCore(d)
      BY <2>1 DEF SameCore, cores, interrupts
    <3>7. ThreadFits(t)' /\ (Preemptive(t)' <=> Preemptive(t))
      BY <2>1, <3>3 DEF ThreadFits, Preemptive, NonPreemptive
    <3>8. CoreFits(c)' /\ RunFits(c, t)' /\ mode'[c] = "run" /\ current' = current
      BY <1>0, <2>1, <3>7 DEF CoreFits, RunFits, Runs, On, Off, cores, interrupts
    <3> QED BY <1>0, <2>1, <3>4, <3>5, <3>6, <3>7, <3>8, ThreadStep
  <2> QED BY <2>2, <2>3
<1>10. ASSUME NEW c \in Core, NEW t \in Thread, serial_read(c, t) PROVE PreemptionInv'
  <2>1. /\ Runs(c, t) /\ pc[t] = "read" /\ driver[t]
        /\ pc' = [pc EXCEPT ![t] = "unlock"]
        /\ UNCHANGED <<cores, queue, then, tcb, oldpre, preempt>>
    BY <1>0, <1>10 DEF serial_read, LocalsFit
  <2>2. ThreadFits(t)' /\ pc'[t] = "unlock"
    BY <1>0, <2>1 DEF ThreadFits, TypeOK
  <2>3. CASE UNCHANGED <<interrupts, driver>>
    <3>1. Preemptive(t)' <=> Preemptive(t)
      BY <2>1, <2>2, <2>3 DEF Preemptive, NonPreemptive
    <3> QED BY <1>0, <2>1, <2>2, <2>3, <3>1, QuietStep DEF TypeOK
  <2>4. CASE preempt_on(c) /\ driver' = [driver EXCEPT ![t] = FALSE]
    <3>1. Off(c) /\ mode[c] = "run"
      BY <1>0, <2>1 DEF RunFits, Runs, Preemptive, NonPreemptive
    <3>2. On(c)'
      BY <1>0, <2>4, <3>1, OnLemma
    <3>3. driver'[t] = FALSE
      BY <1>0, <2>4 DEF TypeOK
    <3>4. Preemptive(t)'
      BY <2>2, <3>3 DEF Preemptive, NonPreemptive
    <3>5. CoreFits(c)' /\ RunFits(c, t)' /\ mode'[c] = "run" /\ current' = current
      BY <2>1, <3>1, <3>2, <3>4 DEF CoreFits, RunFits, Runs, cores
    <3>6. restore(c, TRUE)
      BY <2>4 DEF restore
    <3>7. \A d \in Core \ {c} : SameCore(d)
      BY <1>0, <2>1, <3>6, OthersSame DEF SameCore, cores
    <3>8. \A u \in Thread \ {t} : SameThread(u)
      BY <1>0, <2>1, <2>4 DEF SameThread, TypeOK
    <3>9. PlaceFits'
      BY <1>0, <2>1, PlaceSame DEF cores, queue
    <3> QED BY <1>0, <2>1, <2>2, <3>5, <3>7, <3>8, <3>9, ThreadStep
  <2> QED BY <1>10, <2>3, <2>4 DEF serial_read
<1>11. ASSUME NEW c \in Core, NEW t \in Thread, Runs(c, t), pc[t] \in {"wakeup", "slept"},
              restore(c, oldpre[t]), NEW l \in {"lock", "unlock", "signal", "signalled"},
              pc' = [pc EXCEPT ![t] = l], UNCHANGED <<cores, then, driver, tcb>>, PlaceFits',
              \A u \in Thread \ {t} : oldpre'[u] = oldpre[u] /\ preempt'[u] = preempt[u]
       PROVE  PreemptionInv'
  <2>1. Off(c) /\ mode[c] = "run" /\ (oldpre[t] <=> ~driver[t])
    BY <1>0, <1>11 DEF RunFits, ThreadFits, Runs, Preemptive, NonPreemptive
  <2>2. IF oldpre[t] THEN On(c)' ELSE Off(c)'
    BY <1>0, <1>11, <2>1, RestoreLemma
  <2>3. pc'[t] = l /\ \A u \in Thread \ {t} : pc'[u] = pc[u]
    BY <1>0, <1>11 DEF TypeOK
  <2>4. Preemptive(t)' <=> ~driver[t]
    BY <1>11, <2>3 DEF Preemptive, NonPreemptive
  <2>5. CoreFits(c)' /\ RunFits(c, t)' /\ mode'[c] = "run" /\ current' = current
    BY <1>11, <2>1, <2>2, <2>4 DEF CoreFits, RunFits, Runs, cores
  <2>6. ThreadFits(t)'
    BY <2>3 DEF ThreadFits
  <2>7. \A d \in Core \ {c} : SameCore(d)
    BY <1>0, <1>11, OthersSame DEF SameCore, cores
  <2>8. \A u \in Thread \ {t} : SameThread(u)
    BY <1>11, <2>3 DEF SameThread
  <2> QED BY <1>0, <1>11, <2>5, <2>6, <2>7, <2>8, ThreadStep
<1>12. ASSUME NEW c \in Core, NEW t \in Thread, wakeup(c, t) PROVE PreemptionInv'
  <2>1. wakee[t] \in Thread
    BY <1>0, <1>12 DEF wakeup, LocalsFit
  <2>2. PlaceFits'
    BY <1>0, <1>12, <2>1, PlaceReady DEF wakeup, cores
  <2>3. PICK l \in {"unlock", "signalled", "signal"} : pc' = [pc EXCEPT ![t] = l]
    BY <1>12 DEF wakeup
  <2>4. restore(c, oldpre[t])
    BY <1>12 DEF wakeup, wakeup_restore
  <2>5. \A u \in Thread \ {t} : oldpre'[u] = oldpre[u] /\ preempt'[u] = preempt[u]
    BY <1>0, <1>12 DEF wakeup, TypeOK
  <2> QED BY <1>11, <1>12, <2>2, <2>3, <2>4, <2>5 DEF wakeup
<1>13. ASSUME NEW c \in Core, NEW t \in Thread, sleep_return(c, t) PROVE PreemptionInv'
  <2>1. PlaceFits'
    BY <1>0, <1>13, PlaceSame DEF sleep_return, cores, queue
  <2>2. \A u \in Thread \ {t} : oldpre'[u] = oldpre[u] /\ preempt'[u] = preempt[u]
    BY <1>0, <1>13 DEF sleep_return, TypeOK
  <2> QED BY <1>11, <1>13, <2>1, <2>2 DEF sleep_return
<1>14. ASSUME NEW c \in Core, NEW t \in Thread, sleep_releasing(c, t) PROVE PreemptionInv'
  <2>1. /\ Runs(c, t) /\ pc[t] = "sleep" /\ tcb[t] = t /\ (oldpre[t] <=> ~driver[t])
        /\ current' = current /\ mode'[c] = "yield" /\ pc'[t] = "slept"
        /\ UNCHANGED <<prev, SCHED, then, driver, oldpre>>
    BY <1>0, <1>14 DEF sleep_releasing, ThreadFits, TypeOK
  <2>2. Off(c)' /\ ~preemption[c]
    BY <1>0, <1>14, <2>1, OffLemma DEF sleep_releasing, RunFits, Preemptive, NonPreemptive, Off
  <2>3. preempt'[t] = preemption[c]
    BY <1>0, <1>14 DEF sleep_releasing, TypeOK
  <2>4. ~Preemptive(t)' /\ ~preempt'[t]
    BY <2>1, <2>2, <2>3 DEF Preemptive, NonPreemptive
  <2>5. ThreadFits(t)' /\ CoreFits(c)' /\ RunFits(c, t)'
    BY <2>1, <2>2 DEF ThreadFits, CoreFits, RunFits, Runs
  <2>6. \A d \in Core \ {c} : SameCore(d)
    <3>1. \A d \in Core \ {c} : /\ preemption'[d] = preemption[d]
                                /\ int_disabled'[d] = int_disabled[d] /\ blocked'[d] = blocked[d]
      BY <1>0, <1>14, OthersSame DEF sleep_releasing
    <3> QED BY <1>0, <1>14, <3>1 DEF sleep_releasing, SameCore, TypeOK
  <2>7. \A u \in Thread \ {t} : SameThread(u)
    BY <1>0, <1>14 DEF sleep_releasing, SameThread, TypeOK
  <2>8. PlaceFits'
    <3>1. \A v : OnCore(v)' <=> OnCore(v)
      BY <2>1 DEF OnCore
    <3>2. OnCore(t) /\ t \notin Range(SCHED) /\ \A v \in Range(SCHED) : v \in Thread
      BY <1>0, <2>1, RangeType DEF PlaceFits, TypeOK, OnCore, Runs
    <3>3. \A v \in Thread : v # t => state'[v] = state[v]
      BY <1>14, <2>1 DEF sleep_releasing
    <3>4. state'[t] \in {"EXITED", "STOPPED"}
      BY <1>14, <2>1 DEF sleep_releasing
    <3> QED BY <1>0, <2>1, <3>1, <3>2, <3>3, <3>4 DEF PlaceFits
  <2> QED BY <1>0, <2>1, <2>4, <2>5, <2>6, <2>7, <2>8, ThreadStep
<1>15. ASSUME NEW c \in Core, NEW at \in {"yield", "rx"}, Interrupt(c, at) PROVE PreemptionInv'
  <2>1. /\ mode[c] = "run" /\ mode'[c] = at /\ current' = current
        /\ UNCHANGED <<prev, queue, pc, then, driver, tcb, oldpre>>
    BY <1>0, <1>15 DEF Interrupt, TypeOK
  <2>2. Off(c)'
    BY <1>0, <1>15, OffLemma DEF Interrupt
  <2>3. \A d \in Core \ {c} : SameCore(d)
    <3>1. \A d \in Core \ {c} : /\ preemption'[d] = preemption[d]
                                /\ int_disabled'[d] = int_disabled[d] /\ blocked'[d] = blocked[d]
      BY <1>0, <1>15, OthersSame DEF Interrupt
    <3> QED BY <1>0, <1>15, <3>1 DEF Interrupt, SameCore, TypeOK
  <2>4. \A t \in Thread : preempt'[t] = IF Runs(c, t) THEN preemption[c] ELSE preempt[t]
    <3>1. current[c] = Nil \/ current[c] \in Thread
      BY <1>0 DEF TypeOK
    <3> QED BY <1>0, <1>15, <2>1, <3>1 DEF Interrupt, Runs, TypeOK
  <2>5. PlaceFits'
    BY <1>0, <2>1, PlaceSame DEF queue
  <2> QED BY <1>0, <2>1, <2>2, <2>3, <2>4, <2>5, AwayStep
<1>16. ASSUME NEW c \in Core, serial_rx_handler(c), ~Interrupt(c, "rx") PROVE PreemptionInv'
  <2>1. mode[c] = "rx" /\ Off(c)
    BY <1>0, <1>16 DEF serial_rx_handler, CoreFits
  <2>2. CASE rx_ready = {}
    <3>1. /\ mode' = [mode EXCEPT ![c] = "run"] /\ resume(c)
          /\ UNCHANGED <<current, prev, queue, pc, locals>>
      BY <1>16, <2>2 DEF serial_rx_handler
    <3>2. PlaceFits'
      BY <1>0, <3>1, PlaceSame DEF queue
    <3> QED BY <1>0, <2>1, <3>1, <3>2, ResumeStep
  <2>3. CASE rx_ready # {}
    <3>1. /\ \E u \in rx_ready : sched_make_ready(u)
          /\ restore(c, preemption[c]) /\ UNCHANGED <<cores, pc, locals>>
      BY <1>16, <2>3 DEF serial_rx_handler
    <3>2. UNCHANGED interrupts
      BY <2>1, <3>1 DEF restore, Off
    <3>3. PlaceFits'
      <4>1. rx_ready \subseteq Thread
        BY <1>0 DEF TypeOK
      <4> QED BY <1>0, <3>1, <4>1, PlaceReady DEF cores
    <3>4. Off(c)' /\ mode'[c] # "run" /\ \A d \in Core \ {c} : SameCore(d)
      BY <2>1, <3>1, <3>2 DEF Off, SameCore, cores, interrupts
    <3>5. \A t \in Thread : preempt'[t] = IF Runs(c, t) THEN preemption[c] ELSE preempt[t]
      BY <2>1, <3>1 DEF Runs, locals
    <3> QED BY <1>0, <3>1, <3>3, <3>4, <3>5, AwayStep DEF locals
  <2> QED BY <2>2, <2>3
<1>17. ASSUME NEW c \in Core, yield(c) PROVE PreemptionInv'
  <2>1. /\ mode[c] = "yield" /\ mode'[c] = "gain" /\ UNCHANGED <<interrupts, pc, locals>>
        /\ \A d \in Core \ {c} : mode'[d] = mode[d] /\ current'[d] = current[d]
    BY <1>0, <1>17 DEF yield, TypeOK
  <2>2. Off(c)'
    BY <1>0, <2>1 DEF CoreFits, Off, interrupts
  <2>3. \A d \in Core \ {c} : SameCore(d)
    BY <2>1 DEF SameCore, interrupts
  <2>4. \A t \in Thread : preempt'[t] = IF Runs(c, t) THEN preemption[c] ELSE preempt[t]
    BY <2>1 DEF Runs, locals
  <2>5. PlaceFits'
    BY <1>0, <1>17, PlaceYield
  <2> QED BY <1>0, <2>1, <2>2, <2>3, <2>4, <2>5, AwayStep DEF locals
<1>18. ASSUME NEW c \in Core, gain(c) PROVE PreemptionInv'
  <2>1. mode[c] = "gain" /\ UNCHANGED <<current, pc, locals>> /\ PlaceFits'
    BY <1>0, <1>18, PlaceGain DEF gain
  <2>2. CASE resume(c) /\ mode' = [mode EXCEPT ![c] = "run"]
    BY <1>0, <2>1, <2>2, ResumeStep
  <2>3. CASE UNCHANGED interrupts /\ mode' = [mode EXCEPT ![c] = "release"]
    <3>1. /\ mode'[c] = "release" /\ \A d \in Core \ {c} : mode'[d] = mode[d]
      BY <1>0, <2>3 DEF TypeOK
    <3>2. Off(c)'
      BY <1>0, <2>1, <2>3 DEF CoreFits, Off, interrupts
    <3>3. \A d \in Core \ {c} : SameCore(d)
      BY <2>1, <2>3, <3>1 DEF SameCore, interrupts
    <3>4. \A t \in Thread : preempt'[t] = IF Runs(c, t) THEN preemption[c] ELSE preempt[t]
      BY <2>1 DEF Runs, locals
    <3> QED BY <1>0, <2>1, <3>1, <3>2, <3>3, <3>4, AwayStep DEF locals
  <2> QED BY <1>18, <2>2, <2>3 DEF gain
<1>19. ASSUME NEW c \in Core, release_TCB(c) PROVE PreemptionInv'
  <2>1. PlaceFits'
    BY <1>0, <1>19, PlaceSame DEF release_TCB, queue
  <2> QED BY <1>0, <1>19, <2>1, ResumeStep DEF release_TCB
<1>20. ASSUME NEW c \in Core, idle_thread(c) PROVE PreemptionInv'
  <2>1. /\ current[c] = Nil /\ mode'[c] = "yield" /\ current' = current
        /\ UNCHANGED <<prev, queue, pc, locals>> /\ preempt_off(c)
        /\ \A d \in Core \ {c} : mode'[d] = mode[d]
    BY <1>0, <1>20 DEF idle_thread, Runs, TypeOK
  <2>2. Off(c)'
    BY <1>0, <2>1, OffLemma
  <2>3. \A d \in Core \ {c} : SameCore(d)
    <3>1. \A d \in Core \ {c} : /\ preemption'[d] = preemption[d]
                                /\ int_disabled'[d] = int_disabled[d] /\ blocked'[d] = blocked[d]
      BY <1>0, <2>1, OthersSame
    <3> QED BY <2>1, <3>1 DEF SameCore
  <2>4. \A t \in Thread : preempt'[t] = IF Runs(c, t) THEN preemption[c] ELSE preempt[t]
    BY <2>1 DEF Runs, locals
  <2>5. PlaceFits'
    BY <1>0, <2>1, PlaceSame DEF queue
  <2> QED BY <1>0, <2>1, <2>2, <2>3, <2>4, <2>5, AwayStep DEF locals
<1>21. CASE UNCHANGED vars
  <2>1. UNCHANGED <<current, prev, SCHED, state, mode, interrupts, pc, locals>>
    BY <1>21 DEF vars, cores, queue
  <2>2. PlaceFits'
    BY <1>0, <2>1, PlaceSame
  <2>3. /\ \A c \in Core : CoreFits(c)'
        /\ \A c \in Core, t \in Thread : RunFits(c, t)'
    BY <1>0, <2>1 DEF CoreFits, RunFits, Runs, Preemptive, On, Off, interrupts, locals
  <2>4. \A t \in Thread : WaitFits(t)' /\ ThreadFits(t)'
    BY <1>0, <2>1 DEF WaitFits, ThreadFits, Runs, Preemptive, locals
  <2> QED BY <1>0, <2>2, <2>3, <2>4, InvPartsNext
<1> QED BY <1>1, <1>2, <1>3, <1>4, <1>5, <1>6, <1>7, <1>8, <1>9, <1>10, <1>12, <1>13, <1>14, <1>15,
           <1>16, <1>17, <1>18, <1>19, <1>20, <1>21
           DEF SteadyNext, CoreStep, Scheduling, Step, yield_handler, serial_rx_handler

----------------------------------------------------------------------------
\* The control points, the locks and the queue keep their types, and the local
\* variables are set where they are used, however threads are moved while they
\* turn preemption off.
THEOREM PreemptionTypes == Spec => [](TypeOK /\ LocalsFit)
<1>1. TypeInv => TypeOK /\ LocalsFit
  BY DEF TypeInv
<1> QED BY <1>1, TypeInit, TypeStep, PTL DEF Spec

\* With any number of cores and threads, preemption and interrupts are on in
\* the preemptive code of the thread that runs on a core and off in its
\* critical sections, nested as they may be (set_core_preemption(), wakeup(),
\* sleep_releasing(), serial_read(), yield(), gain(), serial_rx_handler()), as
\* long as no thread uses the number of a core that it has left.
THEOREM PreemptionCorrect == SteadySpec => []PreemptionInv
BY PreemptionInit, PreemptionStep, PTL DEF SteadySpec
----------------------------------------------------------------------------
(***************************************************************************)
(* Booting and stopping, for any number of cores and of boots: the order   *)
(* in which vm_boot() and the cores go through their barriers.             *)
(***************************************************************************)

LEMMA BootInit == MachineInit => MachineInv
<1> SUFFICES ASSUME MachineInit PROVE MachineInv
  OBVIOUS
<1>1. PIC_active \in BOOLEAN /\ initialized \in BOOLEAN
  BY Zenon DEF MachineInit
<1>2. MachineTypeOK
  BY <1>1, MachineAssumption DEF MachineInit, MachineTypeOK
<1>3. BarrierInv /\ cpu[core0] = "none" /\ Usr1Blocked
  BY MachineAssumption DEF MachineInit, BarrierInv, CoresIn, Usr1Blocked
<1> QED BY <1>2, <1>3 DEF MachineInv

\* A step that leaves the PIC and the cores where they are.
LEMMA DeviceStep ==
  ASSUME MachineInv, MachineTypeOK', pic' = pic, cpu' = cpu, initialized' = initialized,
         usr1' = usr1
  PROVE  MachineInv'
<1>1. BarrierInv'
  BY DEF MachineInv, BarrierInv, CoresIn
<1> QED BY <1>1 DEF MachineInv, Usr1Blocked

\* A core goes on by itself: it stays between the same two barriers.
LEMMA CoreMoves ==
  ASSUME MachineInv, MachineTypeOK', NEW c \in Core, NEW from, NEW to, Goto(c, from, to),
         pic' = pic,
         \/ from = "start" /\ to = "system1"
         \/ from = "boot" /\ to = "core1"
         \/ from = "run" /\ to = "reset"
         \/ from = "reset" /\ to = "core2"
         \/ from = "stop" /\ to = "system2"
  PROVE  BarrierInv'
<1>1. /\ cpu[c] = from /\ \A d \in Core : cpu'[d] = IF d = c THEN to ELSE cpu[d]
  BY DEF MachineInv, MachineTypeOK, Goto
<1>2. \A S : CoresIn(S) /\ (from \in S => to \in S) => CoresIn(S)'
  BY <1>1 DEF CoresIn
<1>3. \A S : from \notin S => ~CoresIn(S)
  BY <1>1 DEF CoresIn
<1>4. BarrierInv
  BY DEF MachineInv
<1> QED BY <1>2, <1>3, <1>4 DEF BarrierInv

\* The PIC goes on by itself.
LEMMA PICMoves ==
  ASSUME MachineInv, MachineTypeOK', cpu' = cpu, initialized' = initialized,
         \/ pic = "open" /\ pic' = "system1"
         \/ pic = "loop" /\ pic' \in {"select", "system2"}
         \/ pic = "select" /\ pic' = "loop"
         \/ pic = "drain" /\ pic' = "restore"
         \/ pic = "restore" /\ pic' \in {"join", "killed"}
         \/ pic = "join" /\ pic' = "off",
         (usr1' = usr1 /\ pic # "drain") \/ usr1' = 0
  PROVE  MachineInv'
<1>1. \A S : CoresIn(S)' <=> CoresIn(S)
  BY DEF CoresIn
<1>2. CoresIn({"exited"}) => CoresIn({"none", "exited"})
  BY DEF CoresIn
<1>3. BarrierInv'
  BY <1>1, <1>2 DEF MachineInv, BarrierInv
<1>4. Usr1Blocked'
  BY DEF MachineInv, Usr1Blocked
<1> QED BY <1>3, <1>4 DEF MachineInv

LEMMA BootStep == MachineInv /\ [MachineNext]_mvars => MachineInv'
<1> SUFFICES ASSUME MachineInv, [MachineNext]_mvars PROVE MachineInv'
  OBVIOUS
<1>0. /\ MachineTypeOK /\ BarrierInv /\ Usr1Blocked
      /\ core0 \in Core /\ MaxUsr1 \in Nat /\ MaxBoots \in Nat
  BY MachineAssumption DEF MachineInv
<1>1. CASE vm_boot
  <2>0. PIC_active' \in BOOLEAN /\ initialized' \in BOOLEAN
    BY <1>1, Zenon DEF vm_boot
  <2>1. MachineTypeOK'
    BY <1>0, <1>1, <2>0 DEF vm_boot, MachineTypeOK, PIC_goto
  <2>2. BarrierInv'
    BY <1>1 DEF vm_boot, PIC_goto, BarrierInv, CoresIn
  <2> QED BY <1>0, <1>1, <2>1, <2>2 DEF vm_boot, PIC_goto, MachineInv,
             Usr1Blocked
<1>2. ASSUME NEW c \in Core, create(c) PROVE MachineInv'
  <2>1. MachineTypeOK'
    BY <1>0, <1>2 DEF create, Goto, MachineTypeOK
  <2>2. BarrierInv'
    <3>1. \A d \in Core : cpu'[d] = IF d = c THEN "start" ELSE cpu[d]
      BY <1>0, <1>2 DEF create, Goto, MachineTypeOK
    <3>2. CoresIn({"none", "start", "system1"})
      BY <1>0, <1>2 DEF create, BarrierInv
    <3>3. CASE \A d \in Core \ {c} : cpu[d] # "none"
      <4>1. CoresIn({"start", "system1"})'
        BY <3>1, <3>2, <3>3 DEF CoresIn
      <4> QED BY <1>2, <3>3, <4>1 DEF create, BarrierInv
    <3>4. CASE ~ \A d \in Core \ {c} : cpu[d] # "none"
      <4>1. CoresIn({"none", "start", "system1"})'
        BY <3>1, <3>2 DEF CoresIn
      <4> QED BY <1>2, <3>4, <4>1 DEF create, BarrierInv
    <3> QED BY <3>3, <3>4
  <2>3. cpu'[core0] \in {"none", "start", "system1"}
    BY <1>0, <1>2 DEF create, Goto, BarrierInv, CoresIn, MachineTypeOK
  <2>4. Usr1Blocked'
    BY <1>0, <1>2 DEF create, Usr1Blocked
  <2> QED BY <2>1, <2>2, <2>3, <2>4 DEF MachineInv
<1>3. CASE PIC_start \/ PIC_loop \/ PIC_select \/ PIC_end \/ join
  <2>1. MachineTypeOK'
    BY <1>0, <1>3 DEF PIC_start, PIC_loop, PIC_select, PIC_end, join,
       PIC_goto, pic_drain_sigusr1, MachineTypeOK
  <2> QED BY <1>3, <2>1, PICMoves DEF PIC_start, PIC_loop, PIC_select, PIC_end,
             join, PIC_goto, pic_drain_sigusr1
<1>4. CASE Barriers
  <2>1. MachineTypeOK' /\ initialized' = initialized /\ usr1' = usr1
    BY <1>0, <1>4 DEF Barriers, system_barrier, core_barrier, PIC_goto,
       MachineTypeOK
  <2>2. CASE system_barrier("system1", "loop", "boot")
    <3>1. BarrierInv' /\ cpu'[core0] = "boot" /\ pic' = "loop"
      BY <1>0, <2>2 DEF system_barrier, PIC_goto, BarrierInv, CoresIn
    <3> QED BY <2>1, <3>1 DEF MachineInv, Usr1Blocked
  <2>3. CASE system_barrier("system2", "drain", "exited")
    <3>1. BarrierInv' /\ cpu[core0] = "system2" /\ pic' = "drain"
      BY <1>0, <2>3 DEF system_barrier, PIC_goto, BarrierInv, CoresIn
    <3> QED BY <2>1, <3>1 DEF MachineInv, Usr1Blocked
  <2>4. ASSUME NEW from, NEW to, core_barrier(from, to),
               \/ from = "core1" /\ to = "run"
               \/ from = "core2" /\ to = "stop"
        PROVE  MachineInv'
    <3>1. cpu[core0] = from /\ pic' = pic /\ \A c \in Core : cpu'[c] = to
      BY <1>0, <2>4 DEF core_barrier
    <3>2. pic \in {"loop", "select", "system2"}
      BY <1>0, <2>4, <3>1 DEF BarrierInv, CoresIn
    <3>3. BarrierInv'
      BY <2>4, <3>1, <3>2 DEF BarrierInv, CoresIn
    <3> QED BY <1>0, <2>1, <2>4, <3>1, <3>3 DEF MachineInv, Usr1Blocked
  <2> QED BY <1>4, <2>2, <2>3, <2>4 DEF Barriers
<1>5. ASSUME NEW c \in Core, Advance(c) PROVE MachineInv'
  <2>1. MachineTypeOK'
    <3>1. PIC_active' \in BOOLEAN /\ initialized' \in BOOLEAN
      BY <1>0, <1>5, Zenon DEF Advance, bootfunc_start, boot_tinyos_kernel,
         run_scheduler_returns, bootfunc_reset, bootfunc_end, stop_PIC,
         MachineTypeOK
    <3>2. cpu' \in [Core -> {"none", "start", "system1", "boot", "core1", "run", "reset", "core2",
                             "stop", "system2", "exited"}]
      BY <1>0, <1>5 DEF Advance, bootfunc_start, boot_tinyos_kernel,
         run_scheduler_returns, bootfunc_reset, bootfunc_end, Goto,
         boot_barrier, last_barrier, MachineTypeOK
    <3>3. pic' = pic /\ boots' = boots /\ usr1' \in 0 .. MaxUsr1
      BY <1>0, <1>5 DEF Advance, bootfunc_start, boot_tinyos_kernel,
         run_scheduler_returns, bootfunc_reset, bootfunc_end, stop_PIC,
         MachineTypeOK
    <3>4. irq' \subseteq Core /\ timer' \subseteq Core /\ alarm' \subseteq Core
      BY <1>0, <1>5 DEF Advance, bootfunc_start, boot_tinyos_kernel,
         run_scheduler_returns, bootfunc_reset, bootfunc_end, MachineTypeOK
    <3> QED BY <1>0, <3>1, <3>2, <3>3, <3>4 DEF MachineTypeOK
  <2>2. BarrierInv'
    BY <1>5, <2>1, CoreMoves DEF Advance, bootfunc_start, boot_tinyos_kernel,
       run_scheduler_returns, bootfunc_reset, bootfunc_end, boot_barrier,
       last_barrier
  <2>3. cpu'[core0] \notin {"none", "start", "system1", "boot"} => initialized'
    BY <1>0, <1>5 DEF Advance, bootfunc_start, boot_tinyos_kernel,
       run_scheduler_returns, bootfunc_reset, bootfunc_end, Goto,
       boot_barrier, last_barrier, MachineInv, MachineTypeOK
  <2>4. Usr1Blocked'
    <3>1. CASE bootfunc_end(c)
      <4>1. cpu[c] = "stop" /\ pic' = pic
        BY <3>1 DEF bootfunc_end, Goto
      <4>2. pic \in {"loop", "select", "system2"}
        BY <1>0, <4>1 DEF BarrierInv, CoresIn
      <4> QED BY <4>1, <4>2 DEF Usr1Blocked
    <3>2. CASE ~bootfunc_end(c)
      BY <1>0, <1>5, <3>2 DEF Advance, bootfunc_start, boot_tinyos_kernel,
         run_scheduler_returns, bootfunc_reset, Usr1Blocked
    <3> QED BY <3>1, <3>2
  <2> QED BY <2>1, <2>2, <2>3, <2>4 DEF MachineInv
<1>6. ASSUME NEW c \in Core, interrupt_pic_thread(c) PROVE MachineInv'
  <2>1. MachineTypeOK' /\ pic' = pic /\ cpu' = cpu /\ initialized' = initialized
    BY <1>0, <1>6 DEF interrupt_pic_thread, MachineTypeOK
  <2>2. pic \in {"loop", "select", "system2"}
    BY <1>0, <1>6 DEF interrupt_pic_thread, BarrierInv, CoresIn
  <2>3. BarrierInv'
    BY <1>0, <2>1 DEF BarrierInv, CoresIn
  <2> QED BY <2>1, <2>2, <2>3 DEF MachineInv, Usr1Blocked
<1>7. ASSUME NEW c \in Core,
             \/ bios_set_timer(c) \/ expire(c) \/ dispatch_interrupts(c)
             \/ \E d \in Core : cpu_ici(c, d)
      PROVE  MachineInv'
  <2>1. MachineTypeOK'
    BY <1>0, <1>7 DEF bios_set_timer, expire, dispatch_interrupts, cpu_ici,
       MachineTypeOK
  <2> QED BY <1>7, <2>1, DeviceStep DEF bios_set_timer, expire, dispatch_interrupts,
             cpu_ici
<1>8. CASE UNCHANGED mvars
  <2>1. MachineTypeOK'
    BY <1>0, <1>8 DEF mvars, MachineTypeOK
  <2> QED BY <1>8, <2>1, DeviceStep DEF mvars
<1> QED BY <1>1, <1>2, <1>3, <1>4, <1>5, <1>6, <1>7, <1>8 DEF MachineNext, PIC

\* The machine satisfies its inductive invariant, for any number of cores.
THEOREM MachineCorrect == MachineSpec => []MachineInv
BY BootInit, BootStep, PTL DEF MachineSpec

\* Interrupts are sent only to threads that exist, and no core enters the
\* scheduler before core 0 has initialized the kernel (vm_boot(),
\* bootfunc_wrapper(), boot_tinyos_kernel()).
THEOREM BootOrdered == MachineSpec => []BootOrder
<1>1. MachineInv => SchedulerAfterBoot
  <2> SUFFICES ASSUME MachineInv, NEW c \in Core, cpu[c] = "run" PROVE initialized
    BY DEF SchedulerAfterBoot
  <2>1. CoresIn({"run", "reset", "core2"})
    BY DEF MachineInv, BarrierInv, CoresIn
  <2> QED BY <2>1, MachineAssumption DEF MachineInv, CoresIn
<1>2. MachineInv => InterruptsReachThreads
  <2> SUFFICES ASSUME MachineInv, pic \in {"loop", "select"} \/ \E d \in Core : cpu[d] = "run",
                      NEW c \in Core
               PROVE  cpu[c] \notin {"none", "exited"}
    BY DEF InterruptsReachThreads
  <2>1. pic \in {"loop", "select", "system2"}
    BY DEF MachineInv, BarrierInv, CoresIn
  <2> QED BY <2>1 DEF MachineInv, BarrierInv, CoresIn
<1>3. MachineInv => BootOrder
  BY <1>1, <1>2 DEF BootOrder, MachineInv
<1> QED BY <1>3, MachineCorrect, PTL

\* No SIGUSR1 reaches the PIC outside its loop, and none is left over for the
\* next boot (PIC_daemon(), pic_drain_sigusr1()).
THEOREM SignalsBlocked == MachineSpec => []Usr1Blocked
<1>1. MachineInv => Usr1Blocked
  BY DEF MachineInv
<1> QED BY <1>1, MachineCorrect, PTL
=============================================================================
