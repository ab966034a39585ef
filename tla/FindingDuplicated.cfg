CONSTANTS
  None = None
  MaxRuns = 1
  MaxCommits = 2
  MaxCommands = 0
  MaxDeaths = 0
SPECIFICATION Spec
CHECK_DEADLOCK FALSE
INVARIANT OneDecisionPerStop
