SPECIFICATION Spec
CONSTANTS
    alice = alice
    bob = bob
    reply = reply
    Participants = {alice, bob}
    Messages = {m1, reply}
    Sender <- SenderOf
    Requests = {r1, r2, r3}
    Failures = TRUE
    None = None
SYMMETRY Symmetry
INVARIANTS TypeOK PushesNeverAhead SenderToldOfSeen LastMessageIsNewest
PROPERTIES ImplementsMessageStatus
CHECK_DEADLOCK FALSE
