SPECIFICATION KronwrkSpec
CONSTANTS
  j1 = j1
  s1 = s1
  s2 = s2
  a = a
  w1 = w1
  w2 = w2
  NoRun = NoRun
  NoWorker = NoWorker
  Jobs = {j1}
  Schedulers = {s1, s2}
  Names = {a}
  Waits = {1}
  Occurs <- OccursAlways
  MaxTime = 2
  MaxSkew = 1
  MaxEvents = 1
  MaxFaults = 0
  Workers = {w1}
  Slots = {1, 2}
  MaxWorkerFaults = 0
INVARIANTS
  SpentEventsReachWorkers
PROPERTY KronwrkImplementsLedger
SYMMETRY Twins
