CONSTANTS
  None = None
  Pids = {console, builder}
  Watchers = {console}
  MaxRuns = 1
  MaxCrashes = 2
SPECIFICATION Spec
CHECK_DEADLOCK FALSE
INVARIANTS
  TypeOK
PROPERTIES
  LiveWorkerKept
  KeepsRunLife
  CancelCompletes
  AbandonedSettled
