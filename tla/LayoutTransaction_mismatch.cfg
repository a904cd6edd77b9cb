SPECIFICATION FairSpec
CONSTANTS
  Shapes = {{}, {"runtimes"}}
  Attempts = 2
  MaxLost = 0
  MaxFaults = 1
  Faults = {"prepare"}
  UserCloses = TRUE
PROPERTIES MismatchResolved
