SPECIFICATION MCSpec
CONSTANTS
  MAX_PROC = 5
  MaxSharing = 3
  FCB = {f1, f2}
  MAX_FILEID = 2
  Device = {d1, d2}
  Nil = Nil
INVARIANTS
  TreeInv
  SleepersWait
  CallsSound
  StreamsSound
PROPERTIES
  StreamStable
  ImplementsStreams
  EveryWaitReturns
  InitExits
