SPECIFICATION Spec
CONSTANTS
    owner = owner
    guest = guest
    Users = {owner, guest}
    PostAuthor = owner
    Comments = {c1, c2}
    Writer <- ByGuest
    Requests = {r1, r2, r3, r4}
    None = None
SYMMETRY Symmetry
INVARIANTS TypeOK CountersExact EventsMatchRows
CHECK_DEADLOCK FALSE
