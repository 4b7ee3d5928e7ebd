SPECIFICATION FairSpec
CONSTANTS
    author = author
    Users = {author, u1}
    Posts = {p1}
    Slots = {s1, s2}
    Author <- OneAuthor
    BackfillLimit = 1
    ChunkSize = 1
    Audiences = {"PUBLIC", "RESTRICTED"}
    Outages = TRUE
    None = None
INVARIANTS TypeOK FeedSound
PROPERTIES PostsReachFollowers
CHECK_DEADLOCK FALSE
