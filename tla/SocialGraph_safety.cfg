SPECIFICATION Spec
CONSTANTS
    Users = {u1, u2, u3}
    Requests = {r1, r2, r3}
    NoUser = NoUser
    Completed = {u1, u2, u3}
SYMMETRY Symmetry
INVARIANTS TypeOK GraphWellFormed CountersExact EventsMatchGraph
CHECK_DEADLOCK FALSE
