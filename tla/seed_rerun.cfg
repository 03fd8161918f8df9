SPECIFICATION SeededSpec
CONSTANTS
  Callers = {c1}
  Organizations = {o1, o2}
  Users = {Admin}
  Roles = {SuperAdmin, r1}
  Levels = {"LEVEL_3"}
  Faults = TRUE
  None = None
  SeedRuns = {s1, s2}
  Admin = Admin
  SuperAdmin = SuperAdmin
SYMMETRY Symmetry
INVARIANTS
  SeededTypeOK
  OneTenantFilled
  ProfileMeansComplete
CHECK_DEADLOCK FALSE
