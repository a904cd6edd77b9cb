SPECIFICATION FairSpec
CONSTANTS
  LastId = 1
  Running = 1
  Clients = {1, 2, 3}
  Connected = {1}
  Broadcast = TRUE
  MaxLines = 2
  MaxEvents = 0
  CacheCap = 10
  Holders = {}
  PipeCalls = {}
  EventCalls = {}
  Renders = {TRUE, FALSE}
  Attaches = {2, 3}
  Unloads = {}
  Faults = {}
PROPERTIES PipedIsCalled
\* after its last line the CLI client is gone and nothing is left to do
CHECK_DEADLOCK FALSE
