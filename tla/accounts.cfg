CONSTANTS
    Clients = {c1, c2}
    Emails = {e1}
    AccessLife = 1
    RefreshLife = 2
    MaxClock = 3
    NoOne = NoOne
SPECIFICATION Spec
INVARIANTS IInv
PROPERTIES BookSpec DisablingTakesHold
