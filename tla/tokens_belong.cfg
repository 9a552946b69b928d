CONSTANTS
    Connects = {c1}
    Runs = {s1}
    Users = {u1, u2}
    Errors = {e1, e2}
    Grants = {g1}
    NULL = NULL
SPECIFICATION Spec
INVARIANTS TokensBelong
