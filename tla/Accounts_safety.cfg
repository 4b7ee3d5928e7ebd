SPECIFICATION Spec
CONSTANTS
    Users = {u1, u2}
    Usernames = {n1, n2}
    Posts = {p1}
    Requests = {r1, r2, r3}
    Failures = TRUE
    None = None
SYMMETRY Symmetry
INVARIANTS TypeOK CompleteMatchesProfile AnnouncedMatchesProfile PostsCountExact
PROPERTIES DeletedStaysDeleted
CHECK_DEADLOCK FALSE
