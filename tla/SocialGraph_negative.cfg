SPECIFICATION Spec
CONSTANTS
    Users = {u1, u2}
    Requests = {r1, r2}
    NoUser = NoUser
    Completed = {u1, u2}
SYMMETRY Symmetry
INVARIANTS CountersNeverNegative
CHECK_DEADLOCK FALSE
