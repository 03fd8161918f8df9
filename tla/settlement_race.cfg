\* Two racing calls on one settlement, with a failure possible at every step.
SPECIFICATION FairSpec
CONSTANTS
  Callers = {c1, c2}
  Settlements = {s1}
  None = None
  Correlation = {"uuid", "malformed"}
  MaxTimeline = 4
  Faults = TRUE
INVARIANTS
  TypeOK
  TimelineMatchesStatus
  TimelineJustified
  AuditOnlyCommitted
  AnnouncedWhenDurable
  AuditEveryChange
PROPERTIES
  SettledForGood
  EveryCallEnds
  RequestedAnnounced
CHECK_DEADLOCK FALSE
