SPECIFICATION Spec
CONSTANTS
  Shapes = {{"runtimes"}}
  Attempts = 2
  MaxLost = 4
  MaxFaults = 3
  Faults = {"schedule", "quiesce", "cleanup"}
  UserCloses = FALSE
INVARIANTS CleanRejectionAcked
