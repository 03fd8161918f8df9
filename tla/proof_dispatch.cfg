SPECIFICATION Spec
CONSTANTS
  Callers = {c1, c2}
  Settlements = {s1, s2}
  ProofIds = {p1, p2}
  IdStart <- SameStart
  Handlers = {h1, h2}
  Throwing = {h1}
  MaxSubscriptions = 3
  Faults = TRUE
  None = None
SYMMETRY Symmetry
INVARIANTS
  TypeOK
  EventsTruthful
  OncePerSubscription
  CertificatesAreCuts
PROPERTIES
  DispatchReachesAll
  AuditComesLast
CHECK_DEADLOCK FALSE
