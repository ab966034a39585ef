CONSTANTS
  None = None
  root = root
  rev = rev
  Commits <- MCCommits
  Parent <- MCParent
  Descends <- MCDescends
  Rank <- MCRank
  Rules = {c0}
  Audits = {a1, a2}
  Verifiers = {v1}
  MaxRounds = 2
  RoundCap = 3
  MaxStops = 0
SPECIFICATION Spec
CHECK_DEADLOCK FALSE
PROPERTY DecisionsNeverErased
