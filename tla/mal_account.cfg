CONSTANTS
    Connects = {c1, c2}
    Runs = {s1, s2}
    Users = {u1, u2}
    Errors = {e1, e2}
    Grants = {g1}
    NULL = NULL
SPECIFICATION Spec
INVARIANTS PairInv AccountInv
PROPERTIES PairsMoveOn
