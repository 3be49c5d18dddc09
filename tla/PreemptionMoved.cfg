SPECIFICATION Spec
CONSTANTS
  Core = {c1, c2}
  Thread = {t1, t2}
  Call = {"Exec", "other"}
  Nil = Nil
INVARIANT SleeperIsCaller
CHECK_DEADLOCK FALSE
