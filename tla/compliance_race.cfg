SPECIFICATION Spec
CONSTANTS
  Callers = {c1, c2}
  Countries = {x, y}
  Amounts = {10000, 10001, 50001}
  Rules <- MCRules
  MaxAssessments = 1
  Faults = TRUE
  None = None
SYMMETRY Symmetry
INVARIANTS
  TypeOK
  AnswersRecorded
  DecisionsFollowRecord
  SteadilyBlockedRejected
CHECK_DEADLOCK FALSE
