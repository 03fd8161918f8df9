\* Two racing calls: one overwrites the terminal status the other reached.
SPECIFICATION Spec
CONSTANTS
  Callers = {c1, c2}
  Settlements = {s1}
  None = None
  Correlation = {"uuid"}
  MaxTimeline = 4
  Faults = FALSE
PROPERTY TerminalIrreversible
CHECK_DEADLOCK FALSE
