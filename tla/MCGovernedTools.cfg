CONSTANTS
  None = None
  Writers = {r1, r2, other}
  Runs = {r1, r2}
  Tools <- MCTools
  Level <- MCLevel
  Writing <- MCWriting
  What <- MCWhat
  MaxCalls = 2
  MaxActs = 1
  MaxFaults = 1
SPECIFICATION Spec
CHECK_DEADLOCK FALSE
INVARIANTS
  TypeOK
  OneChain
  RecordedFirst
  Consent
PROPERTIES
  HonestAbsence
  ImplementsLog
  CardSettled
