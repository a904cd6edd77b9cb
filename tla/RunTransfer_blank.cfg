SPECIFICATION FairSpec
CONSTANTS
  Buckets = {"Finalized runs", "Needs attention"}
  Tokens = {1, 2}
  MaxFaults = 1
  Outcomes <- Revised
  FirstOutcome <- Distrusted
  MaxSettled = 2
  OriginTabs = {"o1", "o2"}
  First = "o1"
  HasTranscript = TRUE
PROPERTY ConfirmedIsShown
CHECK_DEADLOCK FALSE
