SPECIFICATION DispatcherSpec
CONSTANTS
  t1 = t1
  t2 = t2
  isr = isr
  Callers <- MCCallers
  Isrs <- MCIsrs
  Worker = worker
  Jobs = {j1, j2, j3}
  NoJob = NoJob
INVARIANTS
  OneWorker
  NoLostWakeup
PROPERTIES
  ImplementsExecutor
