SPECIFICATION FairKronwrkSpec
CONSTANTS
  j1 = j1
  s1 = s1
  s2 = s2
  a = a
  w1 = w1
  w2 = w2
  NoRun = NoRun
  NoWorker = NoWorker
  Jobs = {j1}
  Schedulers = {s1}
  Names = {a}
  Waits = {0, 1}
  Occurs <- OccursAlways
  MaxTime = 2
  MaxSkew = 1
  MaxEvents = 1
  MaxFaults = 1
  Workers = {w1}
  Slots = {1}
  MaxWorkerFaults = 0
PROPERTIES
  NoStuckWaiter
  LateRunsLeave
  DueOccurrencesEnd
