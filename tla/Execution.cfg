SPECIFICATION FairExecutionSpec
CONSTANTS
  k1 = k1
  k2 = k2
  Kids = {k1, k2}
  PipeSize = 2
  MaxOutput = 2
  MaxWrites = 4
  MaxFaults = 1
INVARIANTS
  OutcomeIsTrue
  KillIsTotal
  OutputIsFaithful
PROPERTIES
  ExecutionImplementsLoop
  CommandNeverBlocked
  LoopIsReleased
CHECK_DEADLOCK FALSE
