SPECIFICATION ReadySpec
CONSTANTS
  j1 = j1
  s1 = s1
  s2 = s2
  a = a
  b = b
  NoRun = NoRun
  Jobs = {j1}
  Schedulers = {s1, s2}
  Names = {a, b}
  Waits = {1}
  Occurs <- OccursAlways
  MaxTime = 2
  MaxSkew = 1
  MaxEvents = 2
  MaxFaults = 1
SYMMETRY Twins
INVARIANTS
  NoLostOccurrence
  RunsAreOccurrences
  OldestEventFirst
PROPERTIES
  ImplementsLedger
  PromotionBeatsExpiry
