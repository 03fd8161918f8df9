\* One caller, no failure: a certificate, one more proof, and another certificate.
SPECIFICATION Spec
CONSTANTS
  Callers = {c1}
  Settlements = {s1}
  ProofIds = {p1, p2}
  IdStart <- SameStart
  Handlers = {}
  Throwing = {}
  MaxSubscriptions = 0
  Faults = FALSE
  None = None
INVARIANT CertificateBindsProofs
CHECK_DEADLOCK FALSE
