SPECIFICATION Spec
CONSTANTS
  Thread = {t1, t2, t3}
  Cond = {c}
  kernel_sem_cv = sem
  Nil = Nil
SYMMETRY Interchangeable
CHECK_DEADLOCK FALSE
INVARIANTS
  KernelSafety
  KernelInv
PROPERTIES
  SignalNotSwallowed
  ImplementsKernelMonitor
