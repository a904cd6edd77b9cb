SPECIFICATION FairSpec
CONSTANTS
  LastId = 3
  Running = 1
  Clients = {1, 2}
  Connected = {1, 2}
  Broadcast = FALSE
  MaxLines = 4
  MaxEvents = 0
  CacheCap = 10
  Holders = {1}
  PipeCalls = {"Block", "Unblock"}
  EventCalls = {}
  Renders = {TRUE, FALSE}
  Attaches = {}
  Unloads = {1, 2}
  Faults = {}
INVARIANTS NobodyForgotten LineByLine
PROPERTIES LineReleased
\* after its last line the CLI client is gone and nothing is left to do
CHECK_DEADLOCK FALSE
