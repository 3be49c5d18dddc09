------------------------------ MODULE MCCores ------------------------------
(***************************************************************************)
(* The two modules about what cores do, in one run: they share the cores   *)
(* and nothing else, so a behaviour is about one of them.                  *)
(***************************************************************************)
EXTENDS Preemption, Machine

VARIABLE part  \* "boot" (Machine) or "threads" (Preemption)

CoresInit == Init /\ MachineInit /\ part \in {"boot", "threads"}

Boot(A) == part = "boot" /\ A /\ UNCHANGED <<part, vars>>
Threads(A) == part = "threads" /\ A /\ UNCHANGED <<part, mvars>>

CoresNext == Boot(MachineNext) \/ Threads(SteadyNext)

all == <<part, vars, mvars>>

CoresSpec ==
  /\ CoresInit /\ [][CoresNext]_all
  /\ WF_all(Boot(PIC)) /\ WF_all(Boot(Barriers)) /\ \A c \in Core : WF_all(Boot(Advance(c)))
=============================================================================
