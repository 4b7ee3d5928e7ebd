SPECIFICATION Spec
CONSTANTS
    author = author
    Users = {author, u1}
    Posts = {p1, p2}
    Slots = {s1, s2}
    Author <- OneAuthor
    BackfillLimit = 1
    ChunkSize = 1
    Audiences = {"PUBLIC"}
    Outages = TRUE
    None = None
SYMMETRY Symmetry
INVARIANTS FeedComplete FeedSound
CHECK_DEADLOCK FALSE
