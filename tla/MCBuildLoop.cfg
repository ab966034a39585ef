CONSTANTS
  None = None
  NumRoutes = 2
  MaxAttempts = 2
  BreakAt = 2
  KeySets = {{}, {1, 2}}
  MaxFailures = 3
  MaxRuns = 1
  MaxOutside = 2
  MaxRounds = 3
  MaxTools = 0
  MaxJobs = 0
  MaxMsgs = 2
  MaxQueue = 1
  GuidanceBytes = 2
  Size <- MCSize
SPECIFICATION Spec
CHECK_DEADLOCK FALSE
INVARIANTS
  TypeOK
  CauseStays
  RefusedLeavesNothing
  
  SelfHealFirst
  SpendAttributed
  ProbeOnce
  GuidanceStays
PROPERTIES
  OutageStops
  LoopEnds
