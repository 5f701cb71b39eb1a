SPECIFICATION FairWorkerSpec
CONSTANTS
  j1 = j1
  j2 = j2
  w1 = w1
  w2 = w2
  NoRun = NoRun
  NoWorker = NoWorker
  Jobs = {j1}
  MaxTime = 1
  Workers = {w1, w2}
  Slots = {1, 2}
  MaxWorkerFaults = 2
INVARIANTS
  AtMostOnce
  ClaimsExclude
  RunningIsHeld
PROPERTIES
  WorkerImplementsLedger
  QueuedIsClaimed
  LoopsComeBack
CHECK_DEADLOCK FALSE
