\* One caller, no failure: a user is verified at one level, then at another.
SPECIFICATION Spec
CONSTANTS
  Callers = {c1}
  Organizations = {o1}
  Users = {u1}
  Roles = {}
  Levels = {"LEVEL_1", "LEVEL_3"}
  Faults = FALSE
  None = None
PROPERTY TrustScoreAsAnswered
CHECK_DEADLOCK FALSE
