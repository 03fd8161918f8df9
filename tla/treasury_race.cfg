\* Two racing calls on one organization's ledger, failing at any step.
SPECIFICATION Spec
CONSTANTS
  Callers = {c1, c2}
  Settlements = {s1, s2}
  TxIds = {t1, t2, t3, t4}
  Amounts = {4, 10}
  Faults = TRUE
  None = None
SYMMETRY Symmetry
INVARIANTS
  TypeOK
  DoubleEntry
  AuditedReservationsExist
PROPERTY LedgerSpec
CHECK_DEADLOCK FALSE
