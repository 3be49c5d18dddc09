SPECIFICATION SerialFairSpec
CONSTANTS
  Reader = {r1}
  Writer = {w1, w2}
  Size = 2
  Capacity = 1
  MaxTyped = 2
  MaxCalls = 1
  Nil = Nil
INVARIANTS TerminalExact
PROPERTIES ReadsEnd WritesEnd
