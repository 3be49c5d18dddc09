SPECIFICATION CoresSpec
CONSTANTS
  Core = {c0, c1, c2}
  core0 = c0
  MaxBoots = 2
  MaxUsr1 = 2
  Thread = {t1, t2}
  Call = {"Exec", "Exit", "Read", "other"}
  Nil = Nil
INVARIANTS PreemptionInv BootOrder Usr1Blocked
PROPERTIES MachineStops
CHECK_DEADLOCK FALSE
