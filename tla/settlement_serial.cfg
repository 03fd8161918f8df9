\* One call at a time, each of which may fail at any step, over the whole protocol.
SPECIFICATION Spec
CONSTANTS
  Callers = {c1}
  Settlements = {s1}
  None = None
  Correlation = {"uuid"}
  MaxTimeline = 11
  Faults = TRUE
INVARIANT CompletedAfterEveryStage
PROPERTIES
  LifecycleSpec
  TerminalIrreversible
CHECK_DEADLOCK FALSE
