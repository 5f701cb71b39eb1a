SPECIFICATION ReadySpec
CONSTANTS
  j1 = j1
  s1 = s1
  s2 = s2
  a = a
  b = b
  NoRun = NoRun
  Jobs = {j1}
  Schedulers = {s1, s2}
  Names = {a, b}
  Waits = {0, 1, 2}
  Occurs <- OccursOnce
  MaxTime = 3
  MaxSkew = 1
  MaxEvents = 1
  MaxFaults = 1
SYMMETRY Twins
INVARIANT WaitsAreKept
