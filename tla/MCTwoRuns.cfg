CONSTANTS
  None = None
  Pids = {console}
  Watchers = {console}
  MaxRuns = 2
  MaxCrashes = 0
SPECIFICATION Spec
CHECK_DEADLOCK FALSE
INVARIANT OneThread
PROPERTY KeepsRunLife
