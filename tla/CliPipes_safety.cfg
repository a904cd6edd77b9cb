SPECIFICATION Spec
CONSTANTS
  LastId = 3
  Running = 1
  Clients = {1, 2}
  Connected = {1}
  Broadcast = FALSE
  MaxLines = 2
  MaxEvents = 1
  CacheCap = 1
  Holders = {1, 2}
  PipeCalls = {"Block", "Unblock"}
  EventCalls = {"Block", "Unblock"}
  Renders = {TRUE, FALSE}
  Attaches = {2}
  Unloads = {1}
  Faults = {"crash", "load"}
INVARIANTS TypeOK UnloadFrees
\* after its last line the CLI client is gone and nothing is left to do
CHECK_DEADLOCK FALSE
