--------------------------- MODULE KernelMonitor ---------------------------
(***************************************************************************)
(* What kernel_cc.c promises to the system calls: the kernel is a monitor. *)
(* One thread owns it; waiting on a condition gives it up in the very step *)
(* in which the thread becomes a waiter, and a thread that is awakened     *)
(* competes for the kernel again.                                          *)
(***************************************************************************)
CONSTANTS Thread, Cond, Nil

VARIABLES
  owner,    \* the thread that has the kernel locked, or Nil
  blocked,  \* the condition that each thread waits for, or Nil
  gone      \* the threads that have exited

mvars == <<owner, blocked, gone>>

MInit ==
  /\ owner = Nil
  /\ blocked = [t \in Thread |-> Nil]
  /\ gone = {}

Enter(t) ==
  /\ owner = Nil
  /\ blocked[t] = Nil
  /\ t \notin gone
  /\ owner' = t
  /\ UNCHANGED <<blocked, gone>>

Leave(t) ==
  /\ owner = t
  /\ owner' = Nil
  /\ UNCHANGED <<blocked, gone>>

Wait(t, c) ==
  /\ owner = t
  /\ owner' = Nil
  /\ blocked' = [blocked EXCEPT ![t] = c]
  /\ UNCHANGED gone

\* Notified, or after a timeout; whoever owns the kernel meanwhile.
Wake(t) ==
  /\ blocked[t] # Nil
  /\ blocked' = [blocked EXCEPT ![t] = Nil]
  /\ UNCHANGED <<owner, gone>>

Exit(t) ==
  /\ owner = t
  /\ owner' = Nil
  /\ gone' = gone \cup {t}
  /\ UNCHANGED blocked

MNext == \E t \in Thread : \/ Enter(t) \/ Leave(t) \/ Wake(t) \/ Exit(t)
                           \/ \E c \in Cond : Wait(t, c)

MSpec == MInit /\ [][MNext]_mvars
=============================================================================
