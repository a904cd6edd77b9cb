SPECIFICATION Spec
CONSTANTS
  Last = 3
  Kinds = {"bar", "manager"}
  Layouts = {{"bar", "own"}, {"bar", "manager"}}
  PaneCloses = TRUE
  TabCloses = TRUE
  MaxFaults = 1
  Faults = {"late", "schedule", "quiesce", "cleanup", "load"}
INVARIANTS TypeOK CountsExact RejectedLeavesNothing
PROPERTIES ClosingSparesOthers
CHECK_DEADLOCK FALSE
