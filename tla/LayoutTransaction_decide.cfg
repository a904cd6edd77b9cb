SPECIFICATION FairSpec
CONSTANTS
  Shapes = {{}, {"runtimes"}, {"projectors"}, {"runtimes", "projectors"}}
  Attempts = 2
  MaxLost = 4
  MaxFaults = 3
  Faults = {"schedule", "quiesce", "cleanup", "prepare", "activate", "close", "reserve", "load"}
  UserCloses = TRUE
INVARIANTS
  TypeOK CommitIsWhole RejectionLeavesNothing QuarantineKeepsTab GateOpens
PROPERTIES
  EndIsFinal KeepsPromise Decides
