CONSTANTS
  None = None
  root = root
  rev = rev
  Commits <- MCCommits
  Parent <- MCParent
  Descends <- MCDescends
  Rank <- MCRank
  Rules = {c0, c1}
  Audits = {a1, a2, a3}
  Verifiers = {v1, v2}
  MaxRounds = 2
  RoundCap = 3
  MaxStops = 1
SYMMETRY Symmetry
SPECIFICATION Spec
CHECK_DEADLOCK FALSE
INVARIANTS
  TypeOK
  AdmittedOnce
  PassIsBacked
  OneStandardPerCycle
  OneDecisionPerRound
  SpentBudgetEscalates
PROPERTIES
  PassStands
  RulingRequired
  ImplementsApprovals
