SPECIFICATION Spec
CONSTANTS
  Last = 2
  Kinds = {"bar"}
  Layouts = {{"bar"}}
  PaneCloses = FALSE
  TabCloses = TRUE
  MaxFaults = 0
  Faults = {}
INVARIANTS SharedRuntimeLives
CHECK_DEADLOCK FALSE
