------------------------------ MODULE Messaging ------------------------------
(***************************************************************************)
(* The path of a domain event to RabbitMQ: EventBridgeService hands it to  *)
(* MessagingService, which publishes it on a confirm channel, or keeps it  *)
(* in a buffer that is flushed when a connection has been made.            *)
(*                                                                         *)
(* connect is one chain of awaits: the connection, the channel, the        *)
(* exchange, then the confirm of every buffered message in turn.  A close  *)
(* that rejects one of its awaits sets a second reconnect timer in the     *)
(* same instant as the first; the two fire together, the second finds      *)
(* isConnecting set, and one flag stands for both.                         *)
(*                                                                         *)
(* queued, refused, doubted and forgotten are history variables that no    *)
(* action reads.                                                           *)
(***************************************************************************)
EXTENDS Integers, Sequences, SequencesExt, TLC

CONSTANTS
    Events,        \* the names of the domain events, in the order of their emit
    MaxCloses      \* bound on the connections that are lost

ASSUME EventsAssumption == Events \in Seq(STRING)
ASSUME ClosesAssumption == MaxCloses \in Nat

VARIABLES
    next,        \* the position in Events of the next emit
    pc,          \* where connect is; isConnecting is set unless it is "idle"
    channel,     \* this.channel is not null
    timer,       \* a reconnect timer is pending
    buffer,      \* this.buffer
    pending,     \* flushBuffer: the messages it still awaits, the first one sent
    wire,        \* published on the channel, not yet taken by the broker
    confirms,    \* the broker's confirms on their way back
    published,   \* what the broker has accepted, in order
    closes,      \* connections lost so far
    queued,      \* history: buffered because there was no channel
    refused,     \* history: answered by a nack
    doubted,     \* history: unconfirmed when the channel closed, and buffered again
    forgotten    \* history: unconfirmed when the channel closed, callback never called

connection == <<pc, channel, timer, closes>>
traffic == <<wire, confirms, published>>
history == <<queued, refused, doubted, forgotten>>
vars == <<next, connection, buffer, pending, traffic, history>>

-----------------------------------------------------------------------------
(* The bridge: one handler for each of these events                          *)

UserKeys ==
    "user.profile.completed" :> "social.user.profile-completed" @@
    "user.profile.updated" :> "social.user.profile-updated" @@
    "user.profile.deleted" :> "social.user.profile-deleted"

BrandKeys ==
    "brand.profile.completed" :> "social.brand.profile-completed" @@
    "brand.profile.updated" :> "social.brand.profile-updated" @@
    "brand.profile.deleted" :> "social.brand.profile-deleted"

PostKeys ==
    "post.created" :> "social.post.created" @@
    "post.updated" :> "social.post.updated" @@
    "post.deleted" :> "social.post.deleted"

FollowKeys ==
    "follow.followed" :> "social.follow.followed" @@
    "follow.unfollowed" :> "social.follow.unfollowed"

InteractionKeys ==
    "post.reacted" :> "social.interaction.reacted" @@
    "post.unreacted" :> "social.interaction.unreacted" @@
    "comment.created" :> "social.interaction.commented"

ChatKeys ==
    "chat.message.sent" :> "social.chat.message-sent" @@
    "chat.message.read" :> "social.chat.message-read"

RoutingKey == UserKeys @@ BrandKeys @@ PostKeys @@ FollowKeys @@ InteractionKeys @@ ChatKeys

Bridged == {i \in 1 .. Len(Events) : Events[i] \in DOMAIN RoutingKey}

Message(i) == [routingKey |-> RoutingKey[Events[i]], payload |-> i]

Messages == {Message(i) : i \in Bridged}

-----------------------------------------------------------------------------
(* The process has started: onModuleInit awaits the first connect, which     *)
(* ends with a channel or with a reconnect timer.                            *)
Init ==
    /\ next = 1
    /\ pc = "idle"
    /\ channel \in BOOLEAN
    /\ timer = ~ channel
    /\ closes = 0
    /\ buffer = <<>> /\ pending = <<>>
    /\ wire = <<>> /\ confirms = <<>> /\ published = <<>>
    /\ queued = {} /\ refused = {} /\ doubted = {} /\ forgotten = {}

(* An event is emitted; its handler, if it has one, calls publish            *)
Emit ==
    /\ next <= Len(Events)
    /\ next' = next + 1
    /\ IF next \notin Bridged
         THEN UNCHANGED <<buffer, wire, queued>>
         ELSE IF channel
         THEN /\ wire' = Append(wire, Message(next))
              /\ UNCHANGED <<buffer, queued>>
         ELSE /\ buffer' = Append(buffer, Message(next))
              /\ queued' = queued \cup {Message(next)}
              /\ UNCHANGED wire
    /\ UNCHANGED <<connection, pending, confirms, published, refused, doubted, forgotten>>

-----------------------------------------------------------------------------
(* connect and reconnect                                                     *)

(* connect returns at once while another one is in flight                    *)
TimerFires ==
    /\ timer
    /\ timer' = FALSE
    /\ pc' = IF pc = "idle" THEN "dial" ELSE pc
    /\ UNCHANGED <<next, channel, closes, buffer, pending, traffic, history>>

DialOk ==
    /\ pc = "dial"
    /\ pc' = "channel"
    /\ UNCHANGED <<next, channel, timer, closes, buffer, pending, traffic, history>>

(* Bug: a failed connect is only logged                                      *)
DialGivesUp ==
    /\ pc = "dial"
    /\ pc' = "idle"
    /\ UNCHANGED <<next, channel, timer, closes, buffer, pending, traffic, history>>

DialFails ==
    /\ pc = "dial"
    /\ pc' = "idle"
    /\ timer' = TRUE
    /\ UNCHANGED <<next, channel, closes, buffer, pending, traffic, history>>

(* createConfirmChannel returns; the exchange is still to be asserted, but   *)
(* publish finds a channel from here on                                      *)
ChannelOk ==
    /\ pc = "channel"
    /\ pc' = "assert"
    /\ channel' = TRUE
    /\ UNCHANGED <<next, timer, closes, buffer, pending, traffic, history>>

(* flushBuffer publishes the batch, awaiting each confirm before the next    *)
Flush(batch) ==
    /\ pc' = IF batch = <<>> THEN "idle" ELSE "flush"
    /\ pending' = batch
    /\ wire' = IF batch = <<>> THEN wire ELSE Append(wire, Head(batch))

(* Bug: the buffer is not emptied                                            *)
AssertKeeps ==
    /\ pc = "assert"
    /\ Flush(buffer)
    /\ UNCHANGED <<next, buffer, channel, timer, closes, confirms, published, history>>

(* Bug: the buffer is not flushed                                           *)
AssertUnflushed ==
    /\ pc = "assert"
    /\ Flush(<<>>)
    /\ UNCHANGED <<next, buffer, channel, timer, closes, confirms, published, history>>

(* Bug: the newest message is flushed first                                  *)
AssertReversed ==
    /\ pc = "assert"
    /\ Flush(Reverse(buffer))
    /\ buffer' = <<>>
    /\ UNCHANGED <<next, channel, timer, closes, confirms, published, history>>

(* assertExchange returns, and flushBuffer takes the buffer                  *)
AssertOk ==
    /\ pc = "assert"
    /\ Flush(buffer)
    /\ buffer' = <<>>
    /\ UNCHANGED <<next, channel, timer, closes, confirms, published, history>>

-----------------------------------------------------------------------------
(* Confirms                                                                  *)

(* The broker takes a message, or cannot and says so                         *)
Receive ==
    /\ wire # <<>>
    /\ \E ok \in BOOLEAN :
        /\ confirms' = Append(confirms, [message |-> Head(wire), ok |-> ok])
        /\ published' = IF ok THEN Append(published, Head(wire)) ELSE published
    /\ wire' = Tail(wire)
    /\ UNCHANGED <<next, connection, buffer, pending, history>>

(* flushBuffer goes on when it is the message it awaits that was confirmed   *)
GoOn(message) ==
    IF pending # <<>> /\ Head(pending) = message
      THEN Flush(Tail(pending))
      ELSE UNCHANGED <<pc, pending, wire>>

Ack ==
    /\ confirms # <<>> /\ Head(confirms).ok
    /\ confirms' = Tail(confirms)
    /\ GoOn(Head(confirms).message)
    /\ UNCHANGED <<next, channel, timer, closes, buffer, published, history>>

(* Bug: a message that was refused is only logged                            *)
NackDropped ==
    /\ confirms # <<>> /\ ~ Head(confirms).ok
    /\ confirms' = Tail(confirms)
    /\ refused' = refused \cup {Head(confirms).message}
    /\ GoOn(Head(confirms).message)
    /\ UNCHANGED <<next, channel, timer, closes, buffer, published, queued, doubted, forgotten>>

(* The callback's error puts the message back; it stays until a reconnect    *)
Nack ==
    /\ confirms # <<>> /\ ~ Head(confirms).ok
    /\ confirms' = Tail(confirms)
    /\ buffer' = Append(buffer, Head(confirms).message)
    /\ refused' = refused \cup {Head(confirms).message}
    /\ GoOn(Head(confirms).message)
    /\ UNCHANGED <<next, channel, timer, closes, published, queued, doubted, forgotten>>

-----------------------------------------------------------------------------
(* The connection closes                                                     *)

Connected == channel \/ pc = "channel"

Unconfirmed == [i \in 1 .. Len(confirms) |-> confirms[i].message] \o wire

(* Bug: reconnect does not reset this.channel                                *)
ReconnectKeepsChannel ==
    /\ Connected
    /\ closes < MaxCloses
    /\ closes' = closes + 1
    /\ timer' = TRUE
    /\ wire' = <<>> /\ confirms' = <<>> /\ pending' = <<>>
    /\ UNCHANGED <<channel, next, published, queued, refused>>

(* The close handler calls reconnect; the channel's traffic is gone          *)
Reconnect ==
    /\ Connected
    /\ closes < MaxCloses
    /\ closes' = closes + 1
    /\ channel' = FALSE
    /\ timer' = TRUE
    /\ wire' = <<>> /\ confirms' = <<>> /\ pending' = <<>>
    /\ UNCHANGED <<next, published, queued, refused>>

(* The library fails the callbacks: publish puts the messages back, then     *)
(* flushBuffer finds no channel for the rest of its batch                    *)
CloseFails ==
    /\ Reconnect
    /\ pc' = "idle"
    /\ buffer' = buffer \o Unconfirmed \o SubSeq(pending, 2, Len(pending))
    /\ doubted' = doubted \cup ToSet(Unconfirmed)
    /\ UNCHANGED forgotten

(* The library drops the callbacks: publish never returns, and with it the   *)
(* connect that was flushing, which keeps isConnecting set                   *)
CloseSilent ==
    /\ Reconnect
    /\ Unconfirmed # <<>>
    /\ pc' = IF pc = "flush" THEN "hung" ELSE "idle"
    /\ forgotten' = forgotten \cup ToSet(Unconfirmed) \cup ToSet(pending)
    /\ UNCHANGED <<buffer, doubted>>

Next ==
    \/ Emit \/ TimerFires \/ DialOk \/ DialFails \/ ChannelOk \/ AssertOk
    \/ Receive \/ Ack \/ Nack \/ CloseFails \/ CloseSilent

Spec == Init /\ [][Next]_vars

(* Node runs due timers, an open connection answers, and a broker that is    *)
(* dialled again and again answers at last                                   *)
FairSpec ==
    /\ Spec
    /\ WF_vars(TimerFires) /\ SF_vars(DialOk) /\ WF_vars(ChannelOk) /\ WF_vars(AssertOk)
    /\ WF_vars(Receive) /\ WF_vars(Ack \/ Nack)

-----------------------------------------------------------------------------
(* Correctness                                                               *)

TypeOK ==
    /\ next \in 1 .. Len(Events) + 1
    /\ pc \in {"idle", "dial", "channel", "assert", "flush", "hung"}
    /\ channel \in BOOLEAN /\ timer \in BOOLEAN
    /\ \A s \in {buffer, pending, wire, published} : s \in Seq(Messages)
    /\ confirms \in Seq([message : Messages, ok : BOOLEAN])
    /\ closes \in 0 .. MaxCloses
    /\ \A s \in {queued, refused, doubted, forgotten} : s \subseteq Messages
    /\ pc \in {"assert", "flush"} => channel
    /\ channel => pc \in {"idle", "assert", "flush"}
    /\ pc = "flush" <=> pending # <<>>

(* Whenever connect is over there is a channel to publish on or a timer that *)
(* will call it again, never neither and never both.                         *)
NeverStranded == pc = "idle" => channel # timer

(* A bridged event is at every moment at the broker, on its way there, in    *)
(* the buffer or in the batch being flushed; only a callback that the        *)
(* library never calls loses it.                                             *)
NothingVanishes ==
    \A i \in Bridged : i < next =>
        Message(i) \in ToSet(published) \cup ToSet(wire) \cup ToSet(buffer) \cup ToSet(pending)
            \cup {c.message : c \in {c \in ToSet(confirms) : ~ c.ok}} \cup forgotten

(* Messaging implements Outbox: a bridged event is accepted when it is       *)
(* emitted, and from then on each step of publish, flushBuffer, the confirms *)
(* and the closes either leaves it in exactly one of the places where it     *)
(* waits, or delivers it once, or gives it up.  The broker gets an event a   *)
(* second time only after a close that left its confirm unanswered.          *)
Waiting ==
    ToSet(wire) \cup ToSet(buffer) \cup ToSet(SubSeq(pending, 2, Len(pending)))
        \cup {c.message : c \in {c \in ToSet(confirms) : ~ c.ok}}

Abstract == INSTANCE Outbox WITH
    accepted <- {Message(i) : i \in {i \in Bridged : i < next}},
    outstanding <- Waiting,
    lost <- forgotten \ ToSet(published)

ImplementsOutbox == Abstract!Spec

(* The broker accepts events in the order of their emit.  An older event is  *)
(* overtaken only if it was refused or doubted, or if it waited in the       *)
(* buffer and the newer one found a channel.                                 *)
OrderKept ==
    \A i, j \in 1 .. Len(published) :
        i < j /\ published[j].payload < published[i].payload =>
            \/ published[j] \in refused \cup doubted
            \/ published[j] \in queued /\ published[i] \notin queued

(* An event that was buffered for lack of a channel, or by a close, reaches  *)
(* the broker, unless the broker refuses it or the library drops a callback, *)
(* which may leave connect waiting forever.                                  *)
BufferedIsPublished ==
    \A m \in Messages :
        m \in queued \cup doubted ~> m \in ToSet(published) \cup refused \cup forgotten \/ pc = "hung"
=============================================================================
