SPECIFICATION TestUtilSpec
CONSTANTS
  Tests <- MCBareTests
  CoreArg <- MCCoreArg
  TermArg <- MCTermArg
  Message <- MCMessage
  Byte = {1, 2}
  MaxWritten = 0
  Capacity = 1
  Node = {1}
  MaxDepth = 1
  MaxHandlers = 1
PROPERTY RunsEnd
CHECK_DEADLOCK FALSE
