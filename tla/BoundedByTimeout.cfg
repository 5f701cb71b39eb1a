SPECIFICATION FairExecutionSpec
CONSTANTS
  k1 = k1
  k2 = k2
  Kids = {k1}
  PipeSize = 1
  MaxOutput = 1
  MaxWrites = 0
  MaxFaults = 0
PROPERTY BoundedByTimeout
CHECK_DEADLOCK FALSE
