SPECIFICATION MCSpec
CONSTANTS
  MAX_PROC = 7
  MAX_FILEID = 5
  FCB = {f1, f2, f3, f4, f5, f6, f7}
  Device = {null, term0, term1}
  Nil = Nil
  null = null
  term0 = term0
  term1 = term1
  N = 2
  L = 2
  Philosophers = 4
  bites = 1
  Sessions <- MCSessions
  Program <- MCProgram
INVARIANTS TestsPass SymposiumSafe ShellKeepsStreams
PROPERTIES TestsEnd
CHECK_DEADLOCK FALSE
