CONSTANTS
  None = None
  Pids = {console, builder}
  Watchers = {console}
  MaxRuns = 1
  MaxCrashes = 0
SPECIFICATION Spec
CHECK_DEADLOCK FALSE
PROPERTY ParkedStaysParked
