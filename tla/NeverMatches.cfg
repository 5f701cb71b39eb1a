SPECIFICATION Spec
CONSTANTS
  j1 = j1
  s1 = s1
  NoRun = NoRun
  Jobs = {j1}
  Schedulers = {s1}
  Names = {}
  Waits = {}
  Occurs <- OccursNever
  MaxTime = 1
  MaxSkew = 1
  MaxEvents = 0
  MaxFaults = 0
INVARIANT NoRunAtZeroTime
