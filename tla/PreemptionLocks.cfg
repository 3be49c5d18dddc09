SPECIFICATION FairSpec
CONSTANTS
  Core = {c1}
  Thread = {t1, t2}
  Call = {"Exec", "Read"}
  Nil = Nil
PROPERTY LocksReleased
CHECK_DEADLOCK FALSE
