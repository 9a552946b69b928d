CONSTANTS
    Callers = {c1, c2, c3}
    Interval = 2
    Window = 3
    NULL = NULL
SPECIFICATION FairSpec
INVARIANTS IInv
PROPERTIES EveryCallIsSent
