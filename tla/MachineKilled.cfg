SPECIFICATION MachineFairSpec
CONSTANTS
  Core = {c0, c1}
  core0 = c0
  MaxBoots = 1
  MaxUsr1 = 2
PROPERTY VmBootReturns
CHECK_DEADLOCK FALSE
