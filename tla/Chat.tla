-------------------------------- MODULE Chat --------------------------------
(***************************************************************************)
(* One conversation: its messages' statuses, and what the sender is told.  *)
(*                                                                         *)
(* A request is one call of sendMessage or markConversationAsSeen, over    *)
(* HTTP or a socket, with an await between its steps.  Statuses are ranked *)
(* 1 SENT, 2 DELIVERED, 3 SEEN; 0 is a message not stored, or stored no    *)
(* more.  display is the status a sender's sockets were told last, by a    *)
(* chat:status push or by the chat:message push of the message itself.     *)
(*                                                                         *)
(* toldSeen, missed and crossed are history variables that no action reads. *)
(***************************************************************************)
EXTENDS Integers, FiniteSets, FiniteSetsExt

CONSTANTS
    Participants,   \* the two users
    Messages,
    Sender,         \* the sender of each message
    Requests,       \* calls, each made once
    Failures,       \* TRUE: a query may fail
    None

ASSUME ParticipantsAssumption ==
    IsFiniteSet(Participants) /\ Cardinality(Participants) = 2 /\ None \notin Participants
ASSUME MessagesAssumption == IsFiniteSet(Messages)
ASSUME SenderAssumption == Sender \in [Messages -> Participants] /\ None \notin Messages

VARIABLES
    conversation,    \* TRUE while the row exists
    status,          \* of each message row
    createdAt,       \* of each message, 0 before it has one
    lastMessageAt,   \* column of the conversation, 0 for null
    online,          \* participants with a socket in their room
    display,         \* of each message: what its sender was told last, 0 for nothing
    pc,
    job,
    toldSeen,        \* history: messages whose sender was pushed SEEN
    missed,          \* history: messages a push or a failed call kept from their sender
    crossed          \* history: two sends overlapped, or a send failed

rows == <<conversation, status, createdAt, lastMessageAt>>
told == <<toldSeen, missed>>
history == <<told, crossed>>
vars == <<rows, online, display, pc, job, history>>

-----------------------------------------------------------------------------
SENT == 1
DELIVERED == 2
SEEN == 3

Other(u) == CHOOSE v \in Participants : v # u

Clock == Cardinality({m \in Messages : createdAt[m] # 0})

SendSteps == {"insert", "isOnline", "deliver", "refetch", "touch", "push"}

SeenSteps == {"find", "mark", "conversation"}

Job(user, message, held, batch) ==
    [user |-> user, message |-> message, held |-> held, batch |-> batch]

NoJob == Job(None, None, 0, {})

Init ==
    /\ conversation = TRUE
    /\ status = [m \in Messages |-> 0]
    /\ createdAt = [m \in Messages |-> 0]
    /\ lastMessageAt = 0
    /\ online \in SUBSET Participants
    /\ display = [m \in Messages |-> 0]
    /\ pc = [r \in Requests |-> "idle"]
    /\ job = [r \in Requests |-> NoJob]
    /\ toldSeen = {}
    /\ missed = {}
    /\ crossed = FALSE

Await(r, step, args) ==
    /\ pc' = [pc EXCEPT ![r] = step]
    /\ job' = [job EXCEPT ![r] = args]

Finish(r, outcome) == Await(r, outcome, NoJob)

Goto(r, step) == Await(r, step, job[r])

(* sendToUser: a no-op for a user without a socket                           *)
Tell(messages, s) ==
    LET present == {m \in messages : Sender[m] \in online}
    IN  /\ display' = [m \in Messages |-> IF m \in present THEN s ELSE display[m]]
        /\ toldSeen' = IF s = SEEN THEN toldSeen \cup present ELSE toldSeen
        /\ missed' = missed \cup (messages \ present)

-----------------------------------------------------------------------------
(* ChatService.sendMessage.  createdAt is the start of the INSERT, so        *)
(* messages may be stored in another order than they are dated.              *)

SendMessage(r, m) ==
    /\ pc[r] = "idle"
    /\ createdAt[m] = 0
    /\ IF conversation
         THEN /\ createdAt' = [createdAt EXCEPT ![m] = Clock + 1]
              /\ Await(r, "insert", Job(Sender[m], m, 0, {}))
         ELSE /\ Finish(r, "failed")
              /\ UNCHANGED createdAt
    /\ crossed' = (crossed \/ \E q \in Requests : pc[q] \in SendSteps)
    /\ UNCHANGED <<conversation, status, lastMessageAt, online, display, told>>

Insert(r) ==
    LET m == job[r].message
    IN  /\ pc[r] = "insert"
        /\ IF conversation
             THEN /\ status' = [status EXCEPT ![m] = SENT]
                  /\ Await(r, "isOnline", Job(job[r].user, m, SENT, {}))
             ELSE /\ Finish(r, "failed")
                  /\ UNCHANGED status
        /\ UNCHANGED <<conversation, createdAt, lastMessageAt, online, display, history>>

(* isUserOnline: an error of fetchSockets counts as offline                  *)
IsOnline(r) ==
    /\ pc[r] = "isOnline"
    /\ \/ Other(job[r].user) \in online /\ Goto(r, "deliver")
       \/ (Other(job[r].user) \notin online \/ Failures) /\ Goto(r, "touch")
    /\ UNCHANGED <<rows, online, display, history>>

(* Bug: the UPDATE has no condition on the status it finds                   *)
DeliverAnyway(r) ==
    LET m == job[r].message
    IN  /\ pc[r] = "deliver"
        /\ status' = [status EXCEPT ![m] = IF @ = 0 THEN 0 ELSE DELIVERED]
        /\ Goto(r, "refetch")
        /\ UNCHANGED <<conversation, createdAt, lastMessageAt, online, display, history>>

(* updateStatus(id, DELIVERED): only from SENT                               *)
Deliver(r) ==
    LET m == job[r].message
    IN  /\ pc[r] = "deliver"
        /\ status' = [status EXCEPT ![m] = IF @ = SENT THEN DELIVERED ELSE @]
        /\ Goto(r, "refetch")
        /\ UNCHANGED <<conversation, createdAt, lastMessageAt, online, display, history>>

(* The copy keeps what the row says now, the push says DELIVERED             *)
Refetch(r) ==
    LET m == job[r].message
        found == IF status[m] = 0 THEN job[r].held ELSE status[m]
    IN  /\ pc[r] = "refetch"
        /\ Tell({m}, DELIVERED)
        /\ Await(r, "touch", Job(job[r].user, m, found, {}))
        /\ UNCHANGED <<rows, online, crossed>>

(* Bug: only a message that was delivered counts as activity                 *)
TouchDelivered(r) ==
    /\ pc[r] = "touch"
    /\ lastMessageAt' = IF conversation /\ job[r].held # SENT
                          THEN createdAt[job[r].message] ELSE lastMessageAt
    /\ Goto(r, "push")
    /\ UNCHANGED <<conversation, status, createdAt, online, display, history>>

(* Bug: the conversation is dated one past the newest message, not by its own *)
TouchNext(r) ==
    /\ pc[r] = "touch"
    /\ lastMessageAt' = IF conversation THEN Clock + 1 ELSE lastMessageAt
    /\ Goto(r, "push")
    /\ UNCHANGED <<conversation, status, createdAt, online, display, history>>

Touch(r) ==
    /\ pc[r] = "touch"
    /\ lastMessageAt' = IF conversation THEN createdAt[job[r].message] ELSE lastMessageAt
    /\ Goto(r, "push")
    /\ UNCHANGED <<conversation, status, createdAt, online, display, history>>

PushMessage(r) ==
    /\ pc[r] = "push"
    /\ Tell({job[r].message}, job[r].held)
    /\ Finish(r, "done")
    /\ UNCHANGED <<rows, online, crossed>>

-----------------------------------------------------------------------------
(* ChatService.markConversationAsSeen                                        *)

MarkAsSeen(r, u) ==
    /\ pc[r] = "idle"
    /\ IF conversation THEN Await(r, "find", Job(u, None, 0, {})) ELSE Finish(r, "failed")
    /\ UNCHANGED <<rows, online, display, history>>

(* Bug: senders are told as soon as the unread messages are found            *)
FindAndTell(r) ==
    LET u == job[r].user
        unseen == {m \in Messages : Sender[m] # u /\ status[m] \in {SENT, DELIVERED}}
    IN  /\ pc[r] = "find"
        /\ Tell(unseen, SEEN)
        /\ Await(r, "mark", Job(u, None, 0, unseen))
        /\ UNCHANGED <<rows, online, crossed>>

FindUnseen(r) ==
    LET u == job[r].user
        unseen == {m \in Messages : Sender[m] # u /\ status[m] \in {SENT, DELIVERED}}
    IN  /\ pc[r] = "find"
        /\ IF unseen = {} THEN Finish(r, "done") ELSE Await(r, "mark", Job(u, None, 0, unseen))
        /\ UNCHANGED <<rows, online, display, history>>

(* Bug: the ids to push are those the UPDATE was asked for that were still   *)
(* SENT, as if DELIVERED ones had been pushed before                         *)
MarkSent(r) ==
    /\ pc[r] = "mark"
    /\ status' = [m \in Messages |->
         IF m \in job[r].batch /\ status[m] # 0 THEN SEEN ELSE status[m]]
    /\ Await(r, "conversation",
             Job(job[r].user, None, 0, {m \in job[r].batch : status[m] = SENT}))
    /\ UNCHANGED <<conversation, createdAt, lastMessageAt, online, display, history>>

MarkSeen(r) ==
    /\ pc[r] = "mark"
    /\ status' = [m \in Messages |->
         IF m \in job[r].batch /\ status[m] # 0 THEN SEEN ELSE status[m]]
    /\ Goto(r, "conversation")
    /\ UNCHANGED <<conversation, createdAt, lastMessageAt, online, display, history>>

PushSeen(r) ==
    /\ pc[r] = "conversation"
    /\ IF conversation THEN Tell(job[r].batch, SEEN) ELSE UNCHANGED <<display, told>>
    /\ Finish(r, "done")
    /\ UNCHANGED <<rows, online, crossed>>

(* A query throws: the client gets chat:error or a 500, and what the call    *)
(* has written stays.                                                        *)
CallFails(r) ==
    /\ Failures
    /\ pc[r] \in SendSteps \cup SeenSteps
    /\ missed' = missed \cup job[r].batch
    /\ crossed' = (crossed \/ pc[r] \in SendSteps)
    /\ Finish(r, "failed")
    /\ UNCHANGED <<rows, online, display, toldSeen>>

-----------------------------------------------------------------------------
(* The environment: sockets come and go; deleting an account deletes the     *)
(* conversation and its messages by cascade.                                 *)

Connect(u) ==
    /\ online' = online \cup {u}
    /\ UNCHANGED <<rows, display, pc, job, history>>

Disconnect(u) ==
    /\ online' = online \ {u}
    /\ UNCHANGED <<rows, display, pc, job, history>>

DropConversation ==
    /\ conversation
    /\ conversation' = FALSE
    /\ status' = [m \in Messages |-> 0]
    /\ lastMessageAt' = 0
    /\ UNCHANGED <<createdAt, online, display, pc, job, history>>

Arrive(r) ==
    \/ \E m \in Messages : SendMessage(r, m)
    \/ \E u \in Participants : MarkAsSeen(r, u)

Continue(r) ==
    \/ Insert(r) \/ IsOnline(r) \/ Deliver(r) \/ Refetch(r) \/ Touch(r) \/ PushMessage(r)
    \/ FindUnseen(r) \/ MarkSeen(r) \/ PushSeen(r)
    \/ CallFails(r)

Next ==
    \/ \E r \in Requests : Arrive(r) \/ Continue(r)
    \/ \E u \in Participants : Connect(u) \/ Disconnect(u)
    \/ DropConversation

Spec == Init /\ [][Next]_vars

-----------------------------------------------------------------------------
(* Correctness                                                               *)

TypeOK ==
    /\ conversation \in BOOLEAN
    /\ status \in [Messages -> 0 .. 3]
    /\ createdAt \in [Messages -> 0 .. Cardinality(Messages)]
    /\ lastMessageAt \in 0 .. Cardinality(Messages)
    /\ online \in SUBSET Participants
    /\ display \in [Messages -> 0 .. 3]
    /\ pc \in [Requests -> {"idle", "done", "failed"} \cup SendSteps \cup SeenSteps]
    /\ job \in [Requests -> [user: Participants \cup {None}, message: Messages \cup {None},
                             held: 0 .. 3, batch: SUBSET Messages]]
    /\ toldSeen \in SUBSET Messages
    /\ missed \in SUBSET Messages
    /\ crossed \in BOOLEAN

(* Chat implements MessageStatus: however the DELIVERED of a send, the SEEN  *)
(* of a reader, their failures, the pushes and the loss of the conversation  *)
(* interleave, a stored message's status only moves forward, a batch is seen *)
(* at once and by the other participant, nothing is stored in a conversation *)
(* that is gone, and every push reports a status that was reached.           *)
Abstract == INSTANCE MessageStatus WITH
    open <- conversation,
    told <- [m \in Messages |-> IF status[m] = 0 THEN 0 ELSE display[m]]

ImplementsMessageStatus == Abstract!Spec

(* A sender is never told more than the database knows: a push follows the   *)
(* update it reports.                                                        *)
PushesNeverAhead ==
    \A m \in Messages : status[m] # 0 => display[m] <= status[m]

(* The sender of a message that was seen has been pushed SEEN, as soon as no *)
(* call about it is in flight, unless the sender was offline or it failed.   *)
SenderToldOfSeen ==
    \A m \in Messages :
        /\ status[m] = SEEN
        /\ \A r \in Requests : m \notin job[r].batch
        => m \in toldSeen \cup missed

(* What the conversation list is ordered by, its most recent activity:       *)
(* lastMessageAt is the date of the newest message, once no send is in       *)
(* flight, unless two sends overlapped or one failed.                        *)
LastMessageIsNewest ==
    /\ conversation /\ ~ crossed
    /\ \A r \in Requests : pc[r] \notin SendSteps
    => lastMessageAt = Max({0} \cup {createdAt[m] : m \in {x \in Messages : status[x] # 0}})
=============================================================================
