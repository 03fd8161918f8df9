\* One caller, no failure: the organization is funded once and reserves twice.
SPECIFICATION Spec
CONSTANTS
  Callers = {c1}
  Settlements = {s1}
  TxIds = {t1, t2, t3}
  Amounts = {10, 20}
  Faults = FALSE
  None = None
INVARIANT ReservationsCovered
CHECK_DEADLOCK FALSE
