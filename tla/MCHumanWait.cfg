CONSTANTS
  None = None
  MaxRuns = 2
  MaxCommits = 2
  MaxCommands = 1
  MaxDeaths = 1
SPECIFICATION Spec
CHECK_DEADLOCK FALSE
INVARIANTS
  TypeOK
  DecisionNamesStopped
PROPERTIES
  VerdictOutranks
  ParkGetsDecision
  TornStopHealed
  RulingReachesRun
  StopClosesDecisions
