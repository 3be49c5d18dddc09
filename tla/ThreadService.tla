--------------------------- MODULE ThreadService ---------------------------
(***************************************************************************)
(* What the scheduler promises to the rest of the kernel, with no queues,  *)
(* locks, phases or idle threads: threads that can be created, blocked and *)
(* awakened, and processors that execute one runnable thread each.         *)
(***************************************************************************)
CONSTANTS Thread, Core, Nil

VARIABLES
  status,   \* none, blocked, runnable or exited, for each thread
  cpu,      \* the thread that each core is executing, or Nil
  off       \* the cores that have been switched off

svars == <<status, cpu, off>>

Executing(t) == \E c \in Core : cpu[c] = t

SInit ==
  \E init \in Thread :
    /\ status = [t \in Thread |-> IF t = init THEN "runnable" ELSE "none"]
    /\ cpu = [c \in Core |-> Nil]
    /\ off = {}

\* Only a thread that is being executed creates another one.
Create(t) ==
  /\ \E u \in Thread : Executing(u)
  /\ status[t] = "none"
  /\ status' = [status EXCEPT ![t] = "blocked"]
  /\ UNCHANGED <<cpu, off>>

Wake(t) ==
  /\ status[t] = "blocked"
  /\ status' = [status EXCEPT ![t] = "runnable"]
  /\ UNCHANGED <<cpu, off>>

\* The thread on c gives up its core, to sleep or for ever.
Stop(c, newstatus) ==
  /\ cpu[c] \in Thread
  /\ status' = [status EXCEPT ![cpu[c]] = newstatus]
  /\ cpu' = [cpu EXCEPT ![c] = Nil]
  /\ UNCHANGED off

Preempt(c) ==
  /\ cpu[c] \in Thread
  /\ cpu' = [cpu EXCEPT ![c] = Nil]
  /\ UNCHANGED <<status, off>>

\* A thread is executed only when it is runnable, and by one core.
Dispatch(c, t) ==
  /\ cpu[c] = Nil
  /\ c \notin off
  /\ status[t] = "runnable"
  /\ ~Executing(t)
  /\ cpu' = [cpu EXCEPT ![c] = t]
  /\ UNCHANGED <<status, off>>

\* A core may free a thread that has exited and start another in one step.
Reap(t) ==
  /\ status[t] = "exited"
  /\ ~Executing(t)
  /\ status' = [status EXCEPT ![t] = "none"]
  /\ UNCHANGED off
  /\ \/ UNCHANGED cpu
     \/ \E c \in Core, u \in Thread :
          /\ cpu[c] = Nil
          /\ c \notin off
          /\ status[u] = "runnable"
          /\ ~Executing(u)
          /\ cpu' = [cpu EXCEPT ![c] = u]

\* A core is switched off only when no thread exists.
PowerOff(c) ==
  /\ \A t \in Thread : status[t] = "none"
  /\ off' = off \cup {c}
  /\ UNCHANGED <<status, cpu>>

SNext ==
  \/ \E t \in Thread : Create(t) \/ Wake(t) \/ Reap(t)
  \/ \E c \in Core :
       \/ Preempt(c)
       \/ PowerOff(c)
       \/ \E newstatus \in {"blocked", "exited"} : Stop(c, newstatus)
       \/ \E t \in Thread : Dispatch(c, t)

SSpec == SInit /\ [][SNext]_svars
=============================================================================
