SPECIFICATION Spec
CONSTANTS
  Shapes = {{"runtimes", "projectors"}}
  Attempts = 2
  MaxLost = 0
  MaxFaults = 2
  Faults = {"load", "activate"}
  UserCloses = FALSE
INVARIANTS CompensationReplayed
