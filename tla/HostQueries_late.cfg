SPECIFICATION Spec
CONSTANTS
    p1 = p1
    p2 = p2
    Panes = {p1, p2}
    Readers = {p1}
    MaxPending = 1
    Clients = {c1}
    Scripts <- MCScripts
    MaxHeld = 2
    MaxTroubles = 2
INVARIANT OwnAnswers
CHECK_DEADLOCK FALSE
