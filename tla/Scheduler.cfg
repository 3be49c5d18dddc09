SPECIFICATION FairSpec
CONSTANTS
  Thread = {t1, t2}
  Core = {c1, c2}
  Timeouts = {0, 1}
  MaxClock = 1
  Nil = Nil
INVARIANTS
  SchedulerSafety
  ShutdownSound
  SchedulerInv
PROPERTIES
  SelectWakesExpired
  ImplementsThreadService
  EveryReadyThreadRuns
  EverySleeperWakes
  ShutdownCompletes
