SPECIFICATION FairSpec
CONSTANTS
    p1 = p1
    p2 = p2
    Panes = {p1, p2}
    Readers = {p1}
    MaxPending = 1
    Clients = {c1}
    Scripts <- MCScripts
    MaxHeld = 2
    MaxTroubles = 2
INVARIANTS TypeOK AnswersInOrder OutputKept
PROPERTIES Settles
\* every program may have printed all it prints
CHECK_DEADLOCK FALSE
