SPECIFICATION TestUtilSpec
CONSTANTS
  Tests <- MCTests
  CoreArg <- MCCoreArg
  TermArg <- MCTermArg
  Message <- MCMessage
  Byte = {1, 2}
  MaxWritten = 3
  Capacity = 1
  Node = {1, 2, 3, 4}
  MaxDepth = 6
  MaxHandlers = 1
INVARIANTS OkMeansPassed CleanBetween ExceptionsSound
PROPERTIES ExecutionsEnd DaemonsEnd ListsBehave
CHECK_DEADLOCK FALSE
