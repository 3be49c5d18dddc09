SPECIFICATION FairSpec
CONSTANTS
  Core = {c1}
  Raised = {2, 3}
  AlarmTimely = TRUE
  MaxDepth = 3
  Nil = Nil
INVARIANTS InterruptsInv
PROPERTIES InterruptHandled
