SPECIFICATION FairMonitorSpec
CONSTANTS
  Slots = {1, 2}
  MaxJobs = 2
  MaxRev = 1
  MaxFaults = 1
  Terminals = {16, 22}
  Content <- SomeContent
INVARIANTS
  TablesMatchViews
  HeadingIsTrue
  QuietScreenIsCurrent
  FitIsSound
PROPERTIES
  EnterIsAnswered
CHECK_DEADLOCK FALSE
