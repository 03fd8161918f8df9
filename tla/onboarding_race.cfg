SPECIFICATION Spec
CONSTANTS
  Callers = {c1, c2}
  Organizations = {o1}
  Users = {u1, u2}
  Roles = {r1, r2}
  Levels = {"LEVEL_3", "unknown"}
  Faults = TRUE
  None = None
SYMMETRY Symmetry
INVARIANTS
  TypeOK
  VerificationsRecorded
  InvitationsTruthful
CHECK_DEADLOCK FALSE
