--------------------------- MODULE MessagingProofs ---------------------------
(***************************************************************************)
(* Messaging for every sequence of events and every number of lost         *)
(* connections: MessagingService never ends up with neither a channel nor  *)
(* a reconnect timer, no bridged event vanishes on its way to the broker,  *)
(* events are accepted in order but for the excuses that OrderKept names,  *)
(* and Messaging implements Outbox.                                        *)
(*                                                                         *)
(* The places where a message waits are four sequences: the confirms on    *)
(* their way back, the wire, the rest of the batch and the buffer.  Each   *)
(* step moves a message from one to the next; the lemmas before the steps  *)
(* say what such a move does to sequences without duplicates and to the    *)
(* order across them, for any sequences.                                   *)
(***************************************************************************)
EXTENDS Messaging, SequenceTheorems, TLAPS

Steps == {"idle", "dial", "channel", "assert", "flush", "hung"}

(* NeverStranded speaks of the end of connect only.  Inductive is what holds *)
(* on the way: the channel and the timer exclude each other, the channel is  *)
(* there exactly in the later steps of connect, and a batch is awaited only  *)
(* while flushing.                                                           *)
ConnectOK ==
    /\ pc \in Steps
    /\ channel \in BOOLEAN
    /\ timer \in BOOLEAN
    /\ NeverStranded
    /\ pc \in {"assert", "flush"} => channel /\ ~ timer
    /\ pc \in {"dial", "channel"} => ~ channel /\ ~ timer
    /\ pc = "hung" => ~ channel
    /\ pending # <<>> => pc = "flush"

-----------------------------------------------------------------------------
(* Starting or going on with a flush over a live channel keeps ConnectOK     *)
LEMMA FlushKeeps ==
    ASSUME NEW batch, ConnectOK, Flush(batch), channel, ~ timer, UNCHANGED <<channel, timer>>
    PROVE  ConnectOK'
<1>1. channel' \in BOOLEAN /\ timer' \in BOOLEAN /\ channel' /\ ~ timer'
  BY DEF ConnectOK
<1>2. (pc' = "idle" /\ pending' = <<>>) \/ pc' = "flush"
  BY DEF Flush
<1> QED
  BY <1>1, <1>2 DEF ConnectOK, NeverStranded, Steps

(* A confirm of the awaited message goes on with the flush; any other leaves *)
(* connect where it is                                                       *)
LEMMA GoOnKeeps ==
    ASSUME NEW message, ConnectOK, GoOn(message), UNCHANGED <<channel, timer>>
    PROVE  ConnectOK'
<1>1. CASE pending # <<>> /\ Head(pending) = message
  <2>1. Flush(Tail(pending)) /\ channel /\ ~ timer
    BY <1>1 DEF GoOn, ConnectOK
  <2> QED
    BY <2>1, FlushKeeps
<1>2. CASE ~ (pending # <<>> /\ Head(pending) = message)
  BY <1>2 DEF GoOn, ConnectOK, NeverStranded
<1> QED
  BY <1>1, <1>2

(* A close leaves no channel, no batch and a timer, wherever connect was     *)
LEMMA ReconnectKeeps ==
    ASSUME Reconnect, pc' \in {"idle", "hung"}
    PROVE  ConnectOK'
BY DEF Reconnect, ConnectOK, NeverStranded, Steps

(* Each step of connect, of publish and of the broker keeps ConnectOK        *)
LEMMA StepKeeps ==
    ASSUME ConnectOK, [Next]_vars
    PROVE  ConnectOK'
<1> USE DEF ConnectOK, NeverStranded, Steps, connection, traffic, history
<1>1. CASE Emit
  BY <1>1 DEF Emit
<1>2. CASE TimerFires
  BY <1>2 DEF TimerFires
<1>3. CASE DialOk
  BY <1>3 DEF DialOk
<1>4. CASE DialFails
  BY <1>4 DEF DialFails
<1>5. CASE ChannelOk
  BY <1>5 DEF ChannelOk
<1>6. CASE AssertOk
  <2>1. Flush(buffer) /\ channel /\ ~ timer /\ UNCHANGED <<channel, timer>>
    BY <1>6 DEF AssertOk
  <2> QED
    BY <2>1, FlushKeeps
<1>7. CASE Receive
  BY <1>7 DEF Receive
<1>8. CASE Ack
  <2>1. GoOn(Head(confirms).message) /\ UNCHANGED <<channel, timer>>
    BY <1>8 DEF Ack
  <2> QED
    BY <2>1, GoOnKeeps
<1>9. CASE Nack
  <2>1. GoOn(Head(confirms).message) /\ UNCHANGED <<channel, timer>>
    BY <1>9 DEF Nack
  <2> QED
    BY <2>1, GoOnKeeps
<1>10. CASE CloseFails
  BY <1>10, ReconnectKeeps DEF CloseFails
<1>11. CASE CloseSilent
  BY <1>11, ReconnectKeeps DEF CloseSilent
<1>12. CASE UNCHANGED vars
  BY <1>12 DEF vars
<1> QED
  BY <1>1, <1>2, <1>3, <1>4, <1>5, <1>6, <1>7, <1>8, <1>9, <1>10, <1>11, <1>12 DEF Next

(* At all times, when connect is over there is either a channel to publish   *)
(* on or a timer that will call connect again: no order of failed dials,     *)
(* closes and confirms leaves MessagingService down for good, except inside  *)
(* a connect that never returns.                                             *)
THEOREM ConnectionNeverStranded == Spec => []NeverStranded
<1>1. Init => ConnectOK
  BY DEF Init, ConnectOK, NeverStranded, Steps
<1>2. ConnectOK /\ [Next]_vars => ConnectOK'
  BY StepKeeps
<1>3. ConnectOK => NeverStranded
  BY DEF ConnectOK
<1> QED
  BY <1>1, <1>2, <1>3, PTL DEF Spec

-----------------------------------------------------------------------------
(* Where a message is                                                        *)

(* The batch without its first message, which is already on the wire         *)
RestOf(batch) == SubSeq(batch, 2, Len(batch))

RepliesTo(c) == [i \in 1 .. Len(c) |-> c[i].message]

RefusalsIn(c) == {x.message : x \in {y \in ToSet(c) : ~ y.ok}}

Rest == RestOf(pending)

Replies == RepliesTo(confirms)

Refusals == RefusalsIn(confirms)

Confirmation == [message : Messages, ok : BOOLEAN]

Emitted == {Message(i) : i \in {i \in Bridged : i < next}}

Typed ==
    /\ next \in 1 .. Len(Events) + 1
    /\ buffer \in Seq(Messages) /\ pending \in Seq(Messages)
    /\ wire \in Seq(Messages) /\ published \in Seq(Messages)
    /\ confirms \in Seq(Confirmation)
    /\ closes \in 0 .. MaxCloses
    /\ queued \subseteq Messages /\ refused \subseteq Messages
    /\ doubted \subseteq Messages /\ forgotten \subseteq Messages
    /\ pc = "flush" => pending # <<>>

(* Nothing is on a channel that is closed                                    *)
Quiet == ~ channel => wire = <<>> /\ confirms = <<>>

(* No message is in two of the places where it may wait, nor twice in one    *)
Separate(r, w, t, b) ==
    /\ IsInjective(r) /\ IsInjective(w) /\ IsInjective(t) /\ IsInjective(b)
    /\ ToSet(r) \cap ToSet(w) = {} /\ ToSet(r) \cap ToSet(t) = {} /\ ToSet(r) \cap ToSet(b) = {}
    /\ ToSet(w) \cap ToSet(t) = {} /\ ToSet(w) \cap ToSet(b) = {} /\ ToSet(t) \cap ToSet(b) = {}

Placed == Separate(Replies, wire, Rest, buffer)

(* What is anywhere has been emitted, and what was forgotten waits nowhere   *)
Known ==
    /\ ToSet(Replies) \cup ToSet(wire) \cup ToSet(Rest) \cup ToSet(buffer) \cup ToSet(published)
           \cup queued \cup forgotten
       \subseteq Emitted
    /\ forgotten \cap (ToSet(Replies) \cup ToSet(wire) \cup ToSet(Rest) \cup ToSet(buffer)) = {}

(* A batch waits for a message that is on its way, and what was confirmed    *)
(* has been published                                                        *)
Awaited ==
    /\ pending # <<>> => Head(pending) \in ToSet(Replies) \cup ToSet(wire)
    /\ ToSet(Replies) \subseteq Refusals \cup ToSet(published)

(* Nothing is lost                                                           *)
Kept == Emitted \subseteq ToSet(published) \cup Waiting \cup forgotten

-----------------------------------------------------------------------------
(* In what order messages wait                                               *)

(* Message a may come after message b                                        *)
Excused(b, a, late, first) ==
    b.payload <= a.payload \/ a \in late \/ (a \in first /\ b \notin first)

Ordered(s, late, first) ==
    \A i, j \in 1 .. Len(s) : i < j => Excused(s[i], s[j], late, first)

Follow(B, A, late, first) == \A b \in B, a \in A : Excused(b, a, late, first)

(* Every two messages that will reach the broker one after the other may do  *)
(* so; a batch may also be put back behind the buffer                        *)
InOrder(p, n, w, t, b, late, first) ==
    /\ Ordered(p, late, first) /\ Ordered(w, late, first)
    /\ Ordered(t, late, first) /\ Ordered(b, late, first)
    /\ Follow(ToSet(p) \cup n, ToSet(w) \cup ToSet(t) \cup ToSet(b), late, first)
    /\ Follow(ToSet(w), ToSet(t) \cup ToSet(b), late, first)
    /\ Follow(ToSet(b), ToSet(t), late, first)

Late == refused \cup doubted

OrderOK == InOrder(published, Refusals, wire, Rest, buffer, Late, queued)

(* Why a message was buffered                                                *)
Buffered ==
    /\ ToSet(buffer) \cup ToSet(Rest) \subseteq queued \cup refused \cup doubted
    /\ channel /\ pc # "assert" => ToSet(buffer) \subseteq refused

(* The inductive invariant: where connect is, and where the messages are     *)
Data == Typed /\ Quiet /\ Placed /\ Known /\ Awaited /\ Kept /\ OrderOK /\ Buffered

IInv == ConnectOK /\ Data

-----------------------------------------------------------------------------
(* Sequences                                                                 *)

LEMMA Elements ==
    ASSUME NEW S, NEW s \in Seq(S)
    PROVE  /\ ToSet(s) = {s[i] : i \in 1 .. Len(s)} /\ ToSet(s) \subseteq S
           /\ Len(s) \in Nat
           /\ IsInjective(s) <=> \A i, j \in 1 .. Len(s) : s[i] = s[j] => i = j
BY LenProperties, ElementOfSeq DEF ToSet, IsInjective

LEMMA EmptyFacts ==
    /\ ToSet(<<>>) = {} /\ IsInjective(<<>>) /\ Len(<<>>) = 0
    /\ \A S : <<>> \in Seq(S)
<1>1. <<>> \in Seq({}) /\ Len(<<>>) = 0
  BY EmptySeq
<1>2. DOMAIN <<>> = 1 .. 0
  BY <1>1, LenProperties
<1>3. DOMAIN <<>> = {}
  BY <1>2
<1>4. ToSet(<<>>) = {} /\ IsInjective(<<>>)
  BY <1>3 DEF ToSet, IsInjective
<1> QED
  BY <1>1, <1>4, EmptySeq

LEMMA AppendFacts ==
    ASSUME NEW S, NEW s \in Seq(S), NEW e \in S
    PROVE  /\ Append(s, e) \in Seq(S)
           /\ Append(s, e) # <<>>
           /\ ToSet(Append(s, e)) = ToSet(s) \cup {e}
           /\ IsInjective(s) /\ e \notin ToSet(s) => IsInjective(Append(s, e))
           /\ Len(Append(s, e)) = Len(s) + 1
           /\ \A i \in 1 .. Len(s) : Append(s, e)[i] = s[i]
           /\ Append(s, e)[Len(s) + 1] = e
<1> DEFINE t == Append(s, e)
<1>1. t \in Seq(S) /\ t # <<>>
  BY AppendProperties
<1>2. Len(s) \in Nat /\ Len(t) = Len(s) + 1 /\ t[Len(s) + 1] = e
  BY Elements
<1>3. \A i \in 1 .. Len(s) : t[i] = s[i]
  OBVIOUS
<1> HIDE DEF t
<1>4. ToSet(t) = {t[i] : i \in 1 .. Len(t)} /\ ToSet(s) = {s[i] : i \in 1 .. Len(s)}
  BY <1>1, Elements
<1>5. ToSet(t) = ToSet(s) \cup {e}
  <2>1. ToSet(t) \subseteq ToSet(s) \cup {e}
    <3> SUFFICES ASSUME NEW i \in 1 .. Len(t) PROVE t[i] \in ToSet(s) \cup {e}
      BY <1>4
    <3>1. i \in 1 .. Len(s) \/ i = Len(s) + 1
      BY <1>2
    <3> QED
      BY <1>2, <1>3, <1>4, <3>1
  <2>2. ToSet(s) \subseteq ToSet(t)
    BY <1>2, <1>3, <1>4
  <2>3. e \in ToSet(t)
    <3>1. Len(s) + 1 \in 1 .. Len(t)
      BY <1>2
    <3> QED
      BY <1>2, <1>4, <3>1
  <2> QED
    BY <2>1, <2>2, <2>3
<1>6. ASSUME IsInjective(s), e \notin ToSet(s) PROVE IsInjective(t)
  <2>1. \A i, j \in 1 .. Len(s) : s[i] = s[j] => i = j
    BY <1>6, Elements
  <2>2. ASSUME NEW i \in 1 .. Len(t), NEW j \in 1 .. Len(t), t[i] = t[j] PROVE i = j
    <3>1. \A k \in 1 .. Len(t) : k \in 1 .. Len(s) \/ k = Len(s) + 1
      BY <1>2
    <3>2. \A k \in 1 .. Len(s) : t[k] # e
      BY <1>3, <1>4, <1>6
    <3> QED
      BY <1>2, <1>3, <2>1, <2>2, <3>1, <3>2
  <2> QED
    BY <1>1, <2>2, Elements
<1> QED
  BY <1>1, <1>2, <1>3, <1>5, <1>6 DEF t

LEMMA TailFacts ==
    ASSUME NEW S, NEW s \in Seq(S), s # <<>>
    PROVE  /\ Head(s) \in ToSet(s) /\ Head(s) \in S /\ Head(s) = s[1]
           /\ Tail(s) \in Seq(S)
           /\ ToSet(s) = {Head(s)} \cup ToSet(Tail(s))
           /\ IsInjective(s) => IsInjective(Tail(s)) /\ Head(s) \notin ToSet(Tail(s))
           /\ Len(Tail(s)) = Len(s) - 1 /\ Len(s) \in Nat \ {0}
           /\ \A i \in 1 .. Len(Tail(s)) : Tail(s)[i] = s[i + 1]
<1> DEFINE t == Tail(s)
<1>1. /\ Head(s) \in S /\ Head(s) = s[1] /\ t \in Seq(S) /\ Len(t) = Len(s) - 1
      /\ \A i \in 1 .. Len(t) : t[i] = s[i + 1]
  BY HeadTailProperties
<1>2. Len(s) \in Nat \ {0}
  BY EmptySeq
<1>3. /\ ToSet(t) = {t[i] : i \in 1 .. Len(t)} /\ ToSet(s) = {s[i] : i \in 1 .. Len(s)}
      /\ IsInjective(s) <=> \A i, j \in 1 .. Len(s) : s[i] = s[j] => i = j
      /\ IsInjective(t) <=> \A i, j \in 1 .. Len(t) : t[i] = t[j] => i = j
  BY <1>1, Elements, ZenonT(60)
<1> HIDE DEF t
<1>4. Head(s) \in ToSet(s)
  BY <1>1, <1>2, <1>3
<1>5. ToSet(s) \subseteq {Head(s)} \cup ToSet(t)
  <2> SUFFICES ASSUME NEW i \in 1 .. Len(s) PROVE s[i] = Head(s) \/ s[i] \in ToSet(t)
    BY <1>3
  <2>1. CASE i = 1
    BY <1>1, <2>1
  <2>2. CASE i # 1
    <3>1. i - 1 \in 1 .. Len(t) /\ t[i - 1] = s[i]
      BY <1>1, <1>2, <2>2
    <3> QED
      BY <1>3, <3>1
  <2> QED
    BY <2>1, <2>2
<1>6. ToSet(t) \subseteq ToSet(s)
  BY <1>1, <1>2, <1>3
<1>7. ASSUME IsInjective(s) PROVE IsInjective(t) /\ Head(s) \notin ToSet(t)
  <2>1. IsInjective(t)
    BY <1>1, <1>2, <1>3, <1>7
  <2>2. ASSUME NEW i \in 1 .. Len(t), t[i] = s[1] PROVE FALSE
    BY <1>1, <1>2, <1>3, <1>7, <2>2
  <2> QED
    BY <1>1, <1>3, <2>1, <2>2
<1> QED
  BY <1>1, <1>2, <1>4, <1>5, <1>6, <1>7 DEF t

LEMMA ConcatFacts ==
    ASSUME NEW S, NEW s \in Seq(S), NEW u \in Seq(S)
    PROVE  /\ s \o u \in Seq(S)
           /\ ToSet(s \o u) = ToSet(s) \cup ToSet(u)
           /\ IsInjective(s) /\ IsInjective(u) /\ ToSet(s) \cap ToSet(u) = {}
                => IsInjective(s \o u)
<1> DEFINE t == s \o u
<1>1. /\ t \in Seq(S) /\ Len(t) = Len(s) + Len(u)
      /\ \A i \in 1 .. Len(s) + Len(u) : t[i] = IF i <= Len(s) THEN s[i] ELSE u[i - Len(s)]
  BY ConcatProperties
<1> HIDE DEF t
<1>2. Len(s) \in Nat /\ Len(u) \in Nat
  BY Elements
<1>3. /\ ToSet(t) = {t[i] : i \in 1 .. Len(t)}
      /\ IsInjective(t) <=> \A i, j \in 1 .. Len(t) : t[i] = t[j] => i = j
  BY <1>1, Elements
<1>s. /\ ToSet(s) = {s[i] : i \in 1 .. Len(s)}
      /\ IsInjective(s) <=> \A i, j \in 1 .. Len(s) : s[i] = s[j] => i = j
  BY Elements
<1>u. /\ ToSet(u) = {u[i] : i \in 1 .. Len(u)}
      /\ IsInjective(u) <=> \A i, j \in 1 .. Len(u) : u[i] = u[j] => i = j
  BY Elements
<1>4. \A i \in 1 .. Len(s) : i \in 1 .. Len(t) /\ t[i] = s[i]
  BY <1>1, <1>2
<1>v. \A i \in 1 .. Len(u) : Len(s) + i \in 1 .. Len(t) /\ t[Len(s) + i] = u[i]
  <2> SUFFICES ASSUME NEW i \in 1 .. Len(u)
               PROVE  Len(s) + i \in 1 .. Len(t) /\ t[Len(s) + i] = u[i]
    OBVIOUS
  <2>1. /\ Len(s) + i \in 1 .. Len(s) + Len(u) /\ ~ (Len(s) + i <= Len(s))
        /\ (Len(s) + i) - Len(s) = i
    BY <1>2
  <2> QED
    BY <1>1, <2>1
<1>5. \A i \in 1 .. Len(t) :
         \/ i \in 1 .. Len(s) /\ t[i] = s[i]
         \/ i - Len(s) \in 1 .. Len(u) /\ t[i] = u[i - Len(s)]
  BY <1>1, <1>2
<1>6. ToSet(t) = ToSet(s) \cup ToSet(u)
  <2>1. ToSet(t) \subseteq ToSet(s) \cup ToSet(u)
    BY <1>3, <1>s, <1>u, <1>5, SMTT(30)
  <2>2. ToSet(s) \subseteq ToSet(t)
    BY <1>3, <1>s, <1>4
  <2>3. ToSet(u) \subseteq ToSet(t)
    BY <1>3, <1>u, <1>v
  <2> QED
    BY <2>1, <2>2, <2>3
<1>7. ASSUME IsInjective(s), IsInjective(u), ToSet(s) \cap ToSet(u) = {} PROVE IsInjective(t)
  <2> SUFFICES ASSUME NEW i \in 1 .. Len(t), NEW j \in 1 .. Len(t), t[i] = t[j] PROVE i = j
    BY <1>3
  <2>1. CASE i \in 1 .. Len(s) /\ t[i] = s[i] /\ j \in 1 .. Len(s) /\ t[j] = s[j]
    BY <1>s, <1>7, <2>1
  <2>2. CASE /\ i - Len(s) \in 1 .. Len(u) /\ t[i] = u[i - Len(s)]
             /\ j - Len(s) \in 1 .. Len(u) /\ t[j] = u[j - Len(s)]
    <3>1. i - Len(s) = j - Len(s)
      BY <1>u, <1>7, <2>2
    <3> QED
      BY <1>2, <3>1
  <2>3. \A k \in 1 .. Len(s), n \in 1 .. Len(u) : s[k] # u[n]
    <3> TAKE k \in 1 .. Len(s), n \in 1 .. Len(u)
    <3>1. s[k] \in ToSet(s) /\ u[n] \in ToSet(u)
      BY <1>s, <1>u
    <3> QED
      BY <1>7, <3>1
  <2>4. CASE /\ i \in 1 .. Len(s) /\ t[i] = s[i]
             /\ j - Len(s) \in 1 .. Len(u) /\ t[j] = u[j - Len(s)]
    BY <2>3, <2>4
  <2>5. CASE /\ i - Len(s) \in 1 .. Len(u) /\ t[i] = u[i - Len(s)]
             /\ j \in 1 .. Len(s) /\ t[j] = s[j]
    BY <2>3, <2>5
  <2> QED
    BY <1>5, <2>1, <2>2, <2>4, <2>5
<1> QED
  BY <1>1, <1>6, <1>7 DEF t

LEMMA ConcatOrdered ==
    ASSUME NEW S, NEW s \in Seq(S), NEW u \in Seq(S), NEW late, NEW first,
           Ordered(s, late, first), Ordered(u, late, first),
           Follow(ToSet(s), ToSet(u), late, first)
    PROVE  Ordered(s \o u, late, first)
<1> DEFINE t == s \o u
<1>1. /\ t \in Seq(S) /\ Len(t) = Len(s) + Len(u)
      /\ \A i \in 1 .. Len(s) + Len(u) : t[i] = IF i <= Len(s) THEN s[i] ELSE u[i - Len(s)]
  BY ConcatProperties
<1> HIDE DEF t
<1>2. Len(s) \in Nat /\ Len(u) \in Nat
  BY Elements
<1>3. ToSet(s) = {s[i] : i \in 1 .. Len(s)}
  BY Elements
<1>4. ToSet(u) = {u[i] : i \in 1 .. Len(u)}
  BY Elements
<1>5. \A i \in 1 .. Len(t) :
         \/ i \in 1 .. Len(s) /\ t[i] = s[i]
         \/ i - Len(s) \in 1 .. Len(u) /\ t[i] = u[i - Len(s)]
  BY <1>1, <1>2
<1>6. ASSUME NEW i \in 1 .. Len(t), NEW j \in 1 .. Len(t), i < j
      PROVE  Excused(t[i], t[j], late, first)
  <2>1. CASE i \in 1 .. Len(s) /\ t[i] = s[i] /\ j \in 1 .. Len(s) /\ t[j] = s[j]
    BY <1>6, <2>1 DEF Ordered
  <2>2. CASE /\ i \in 1 .. Len(s) /\ t[i] = s[i]
             /\ j - Len(s) \in 1 .. Len(u) /\ t[j] = u[j - Len(s)]
    BY <1>3, <1>4, <2>2 DEF Follow
  <2>3. CASE /\ i - Len(s) \in 1 .. Len(u) /\ t[i] = u[i - Len(s)]
             /\ j - Len(s) \in 1 .. Len(u) /\ t[j] = u[j - Len(s)]
    <3>1. i - Len(s) < j - Len(s)
      BY <1>2, <1>6
    <3> QED
      BY <2>3, <3>1 DEF Ordered
  <2>4. CASE i - Len(s) \in 1 .. Len(u) /\ j \in 1 .. Len(s)
    BY <1>2, <1>6, <2>4
  <2> QED
    BY <1>5, <2>1, <2>2, <2>3, <2>4
<1> QED
  BY <1>6 DEF Ordered, t

LEMMA AppendOrdered ==
    ASSUME NEW S, NEW s \in Seq(S), NEW e \in S, NEW late, NEW first,
           Ordered(s, late, first), Follow(ToSet(s), {e}, late, first)
    PROVE  Ordered(Append(s, e), late, first)
<1> DEFINE t == Append(s, e)
<1>1. /\ Len(t) = Len(s) + 1 /\ \A i \in 1 .. Len(s) : t[i] = s[i]
      /\ t[Len(s) + 1] = e
  BY AppendFacts
<1>2. Len(s) \in Nat /\ ToSet(s) = {s[i] : i \in 1 .. Len(s)}
  BY Elements
<1> HIDE DEF t
<1>3. ASSUME NEW i \in 1 .. Len(t), NEW j \in 1 .. Len(t), i < j
      PROVE  Excused(t[i], t[j], late, first)
  <2>1. i \in 1 .. Len(s) /\ t[i] = s[i] /\ t[i] \in ToSet(s)
    BY <1>1, <1>2, <1>3
  <2>2. CASE j \in 1 .. Len(s)
    BY <1>1, <1>3, <2>1, <2>2 DEF Ordered
  <2>3. CASE j = Len(s) + 1
    BY <1>1, <2>1, <2>3 DEF Follow
  <2> QED
    BY <1>1, <1>2, <2>2, <2>3
<1> QED
  BY <1>3 DEF Ordered, t

LEMMA TailOrdered ==
    ASSUME NEW S, NEW s \in Seq(S), s # <<>>, NEW late, NEW first, Ordered(s, late, first)
    PROVE  /\ Ordered(Tail(s), late, first)
           /\ Follow({Head(s)}, ToSet(Tail(s)), late, first)
<1> DEFINE t == Tail(s)
<1>1. /\ Head(s) = s[1] /\ t \in Seq(S) /\ Len(t) = Len(s) - 1 /\ Len(s) \in Nat \ {0}
      /\ \A i \in 1 .. Len(t) : t[i] = s[i + 1]
  BY TailFacts
<1> HIDE DEF t
<1>2. ToSet(t) = {t[i] : i \in 1 .. Len(t)}
  BY <1>1, Elements
<1>3. \A i \in 1 .. Len(t) : i + 1 \in 1 .. Len(s) /\ 1 < i + 1 /\ 1 \in 1 .. Len(s)
  BY <1>1
<1>4. ASSUME NEW i \in 1 .. Len(t), NEW j \in 1 .. Len(t), i < j
      PROVE  Excused(t[i], t[j], late, first)
  <2>1. i + 1 < j + 1
    BY <1>4
  <2> QED
    BY <1>1, <1>3, <2>1 DEF Ordered
<1>5. ASSUME NEW i \in 1 .. Len(t) PROVE Excused(Head(s), t[i], late, first)
  BY <1>1, <1>3 DEF Ordered
<1> QED
  BY <1>2, <1>4, <1>5 DEF Ordered, Follow, t

(* More excuses and a new message that nothing here is: what was excused is  *)
LEMMA StillFollow ==
    ASSUME NEW A, NEW B, NEW late, NEW first, NEW late2, NEW first2,
           Follow(B, A, late, first), late \subseteq late2, first \subseteq first2,
           \A b \in B : b \in first2 => b \in first
    PROVE  Follow(B, A, late2, first2)
BY DEF Follow, Excused

LEMMA StillOrdered ==
    ASSUME NEW S, NEW s \in Seq(S), NEW late, NEW first, NEW late2, NEW first2,
           Ordered(s, late, first), late \subseteq late2, first \subseteq first2,
           \A b \in ToSet(s) : b \in first2 => b \in first
    PROVE  Ordered(s, late2, first2)
<1>1. ToSet(s) = {s[i] : i \in 1 .. Len(s)}
  BY Elements
<1>2. ASSUME NEW i \in 1 .. Len(s), NEW j \in 1 .. Len(s), i < j
      PROVE  Excused(s[i], s[j], late2, first2)
  <2>1. Excused(s[i], s[j], late, first)
    BY <1>2 DEF Ordered
  <2>2. s[i] \in ToSet(s)
    BY <1>1
  <2> QED
    BY <2>1, <2>2 DEF Excused
<1> QED
  BY <1>2 DEF Ordered

LEMMA RestFacts ==
    ASSUME NEW S, NEW p \in Seq(S)
    PROVE  /\ p = <<>> => RestOf(p) = <<>>
           /\ p # <<>> => RestOf(p) = Tail(p)
           /\ RestOf(p) \in Seq(S)
           /\ ToSet(p) = ToSet(RestOf(p)) \cup (IF p = <<>> THEN {} ELSE {Head(p)})
<1>1. CASE p = <<>>
  <2>1. Len(p) = 0
    BY <1>1, EmptySeq
  <2>2. RestOf(p) = <<>>
    BY <2>1, SubSeqEmpty DEF RestOf
  <2> QED
    BY <1>1, <2>2, EmptyFacts
<1>2. CASE p # <<>>
  <2>1. RestOf(p) = Tail(p)
    BY <1>2, TailIsSubSeq DEF RestOf
  <2>2. Tail(p) \in Seq(S) /\ ToSet(p) = {Head(p)} \cup ToSet(Tail(p))
    BY <1>2, TailFacts
  <2> QED
    BY <1>2, <2>1, <2>2
<1> QED
  BY <1>1, <1>2

LEMMA RepliesFacts ==
    ASSUME NEW c \in Seq(Confirmation)
    PROVE  /\ RepliesTo(c) \in Seq(Messages)
           /\ Len(RepliesTo(c)) = Len(c)
           /\ \A i \in 1 .. Len(c) : RepliesTo(c)[i] = c[i].message
           /\ RefusalsIn(c) \subseteq ToSet(RepliesTo(c))
           /\ ToSet(RepliesTo(c)) = {x.message : x \in ToSet(c)}
<1> DEFINE t == RepliesTo(c)
<1>1. Len(c) \in Nat /\ ToSet(c) = {c[i] : i \in 1 .. Len(c)}
  BY Elements
<1>2. \A i \in 1 .. Len(c) : c[i] \in Confirmation
  BY ElementOfSeq
<1>3. t \in [1 .. Len(c) -> Messages]
  BY <1>2 DEF RepliesTo, Confirmation
<1>4. t \in Seq(Messages)
  BY <1>1, <1>3, SeqDef
<1>5. Len(t) = Len(c)
  <2>1. DOMAIN t = 1 .. Len(t) /\ Len(t) \in Nat
    BY <1>4, LenProperties
  <2>2. 1 .. Len(t) = 1 .. Len(c)
    BY <1>3, <2>1
  <2> QED
    BY <1>1, <2>1, <2>2
<1>6. \A i \in 1 .. Len(c) : t[i] = c[i].message
  BY DEF RepliesTo
<1> HIDE DEF t
<1>7. ToSet(t) = {t[i] : i \in 1 .. Len(c)}
  BY <1>4, <1>5, Elements
<1>8. ToSet(t) = {x.message : x \in ToSet(c)}
  <2>1. \A i \in 1 .. Len(c) : t[i] \in {x.message : x \in ToSet(c)}
    BY <1>1, <1>6
  <2>2. \A i \in 1 .. Len(c) : c[i].message \in ToSet(t)
    BY <1>6, <1>7
  <2>3. ToSet(t) \subseteq {x.message : x \in ToSet(c)}
    BY <1>7, <2>1
  <2>4. {x.message : x \in ToSet(c)} \subseteq ToSet(t)
    BY <1>1, <2>2
  <2> QED
    BY <2>3, <2>4
<1>9. RefusalsIn(c) \subseteq ToSet(t)
  BY <1>8 DEF RefusalsIn
<1> QED
  BY <1>4, <1>5, <1>6, <1>8, <1>9 DEF t

LEMMA RepliesAppend ==
    ASSUME NEW c \in Seq(Confirmation), NEW m \in Messages, NEW ok \in BOOLEAN,
           NEW d, d = Append(c, [message |-> m, ok |-> ok])
    PROVE  /\ d \in Seq(Confirmation)
           /\ RepliesTo(d) = Append(RepliesTo(c), m)
           /\ RefusalsIn(d) = RefusalsIn(c) \cup IF ok THEN {} ELSE {m}
<1> DEFINE x == [message |-> m, ok |-> ok]
           s == RepliesTo(c)
           u == RepliesTo(d)
<1>1. x \in Confirmation /\ x.message = m /\ x.ok = ok
  BY DEF Confirmation
<1>2. /\ d \in Seq(Confirmation) /\ Len(d) = Len(c) + 1
      /\ \A i \in 1 .. Len(c) : d[i] = c[i]
      /\ d[Len(c) + 1] = x /\ ToSet(d) = ToSet(c) \cup {x}
  BY <1>1, AppendFacts
<1>3. Len(c) \in Nat
  BY Elements
<1> HIDE DEF x
<1>4. RefusalsIn(d) = RefusalsIn(c) \cup IF ok THEN {} ELSE {m}
  BY <1>1, <1>2 DEF RefusalsIn
<1>5. s \in Seq(Messages) /\ Len(s) = Len(c) /\ \A i \in 1 .. Len(c) : s[i] = c[i].message
  BY RepliesFacts
<1>6. u \in Seq(Messages) /\ Len(u) = Len(d) /\ \A i \in 1 .. Len(d) : u[i] = d[i].message
  BY <1>2, RepliesFacts
<1> HIDE DEF s, u
<1>7. /\ Append(s, m) \in Seq(Messages) /\ Len(Append(s, m)) = Len(s) + 1
      /\ \A i \in 1 .. Len(s) : Append(s, m)[i] = s[i]
      /\ Append(s, m)[Len(s) + 1] = m
  BY <1>5, AppendFacts
<1>8. ASSUME NEW i \in 1 .. Len(u) PROVE u[i] = Append(s, m)[i]
  <2>0. Len(u) = Len(c) + 1
    BY <1>2, <1>6
  <2>1. CASE i \in 1 .. Len(c)
    BY <1>2, <1>5, <1>6, <1>7, <2>1
  <2>2. CASE i = Len(c) + 1
    BY <1>1, <1>2, <1>5, <1>6, <1>7, <2>2
  <2> QED
    <3>1. i \in 1 .. Len(c) + 1
      BY <2>0
    <3>2. i \in 1 .. Len(c) \/ i = Len(c) + 1
      BY <1>3, <3>1
    <3> QED
      BY <2>1, <2>2, <3>2
<1>9. Len(u) = Len(Append(s, m))
  BY <1>2, <1>5, <1>6, <1>7
<1>10. u = Append(s, m)
  BY <1>6, <1>7, <1>8, <1>9, SeqEqual
<1> QED
  BY <1>2, <1>4, <1>10 DEF s, u

LEMMA RepliesTail ==
    ASSUME NEW c \in Seq(Confirmation), c # <<>>
    PROVE  /\ Tail(c) \in Seq(Confirmation)
           /\ Head(c) \in Confirmation
           /\ RepliesTo(c) # <<>> /\ RepliesTo(Tail(c)) = Tail(RepliesTo(c))
           /\ Head(RepliesTo(c)) = Head(c).message
           /\ RefusalsIn(c)
                = RefusalsIn(Tail(c)) \cup IF Head(c).ok THEN {} ELSE {Head(c).message}
<1> DEFINE d == Tail(c)
           s == RepliesTo(c)
           u == RepliesTo(d)
<1>1. /\ d \in Seq(Confirmation) /\ Head(c) \in Confirmation /\ Head(c) = c[1]
      /\ ToSet(c) = {Head(c)} \cup ToSet(d)
      /\ Len(d) = Len(c) - 1 /\ Len(c) \in Nat \ {0}
      /\ \A i \in 1 .. Len(d) : d[i] = c[i + 1]
  BY TailFacts
<1> HIDE DEF d
<1>2. RefusalsIn(c) = RefusalsIn(d) \cup IF Head(c).ok THEN {} ELSE {Head(c).message}
  BY <1>1 DEF RefusalsIn
<1>3. s \in Seq(Messages) /\ Len(s) = Len(c) /\ \A i \in 1 .. Len(c) : s[i] = c[i].message
  BY RepliesFacts
<1>4. u \in Seq(Messages) /\ Len(u) = Len(d) /\ \A i \in 1 .. Len(d) : u[i] = d[i].message
  BY <1>1, RepliesFacts
<1> HIDE DEF s, u
<1>5. s # <<>>
  BY <1>1, <1>3, EmptyFacts
<1>6. /\ Tail(s) \in Seq(Messages) /\ Len(Tail(s)) = Len(s) - 1 /\ Head(s) = s[1]
      /\ \A i \in 1 .. Len(Tail(s)) : Tail(s)[i] = s[i + 1]
  BY <1>3, <1>5, TailFacts
<1>7. \A i \in 1 .. Len(d) : i + 1 \in 1 .. Len(c)
  BY <1>1
<1>8. \A i \in 1 .. Len(u) : u[i] = Tail(s)[i]
  BY <1>1, <1>3, <1>4, <1>6, <1>7
<1>9. Len(u) = Len(Tail(s))
  BY <1>1, <1>3, <1>4, <1>6
<1>10. u = Tail(s)
  BY <1>4, <1>6, <1>8, <1>9, SeqEqual
<1>11. Head(s) = Head(c).message
  BY <1>1, <1>3, <1>6
<1> QED
  BY <1>1, <1>2, <1>5, <1>10, <1>11 DEF s, u, d

-----------------------------------------------------------------------------
(* What moving a message does to where messages are, and to their order      *)

LEMMA EmptyOrdered ==
    ASSUME NEW late, NEW first
    PROVE  /\ Ordered(<<>>, late, first)
           /\ \A X : Follow(ToSet(<<>>), X, late, first) /\ Follow(X, ToSet(<<>>), late, first)
BY EmptyFacts DEF Ordered, Follow

(* The next message of the batch is published                                *)
LEMMA SendNext ==
    ASSUME NEW r, NEW w \in Seq(Messages), NEW t \in Seq(Messages), NEW b, t # <<>>,
           Separate(r, w, t, b)
    PROVE  Separate(r, Append(w, Head(t)), Tail(t), b)
<1>1. /\ Head(t) \in Messages /\ ToSet(t) = {Head(t)} \cup ToSet(Tail(t))
      /\ IsInjective(Tail(t)) /\ Head(t) \notin ToSet(Tail(t))
  BY TailFacts DEF Separate
<1>2. /\ ToSet(Append(w, Head(t))) = ToSet(w) \cup {Head(t)}
      /\ Head(t) \notin ToSet(w) => IsInjective(Append(w, Head(t)))
  BY <1>1, AppendFacts DEF Separate
<1> QED
  BY <1>1, <1>2 DEF Separate

LEMMA SendNextInOrder ==
    ASSUME NEW p, NEW n, NEW w \in Seq(Messages), NEW t \in Seq(Messages), NEW b,
           NEW late, NEW first, t # <<>>, InOrder(p, n, w, t, b, late, first),
           ToSet(b) \subseteq late
    PROVE  InOrder(p, n, Append(w, Head(t)), Tail(t), b, late, first)
<1>1. Head(t) \in Messages /\ ToSet(t) = {Head(t)} \cup ToSet(Tail(t))
  BY TailFacts
<1>2. Ordered(Tail(t), late, first) /\ Follow({Head(t)}, ToSet(Tail(t)), late, first)
  BY TailOrdered DEF InOrder
<1>3. ToSet(Append(w, Head(t))) = ToSet(w) \cup {Head(t)}
  BY <1>1, AppendFacts
<1>4. Follow(ToSet(w), {Head(t)}, late, first)
  BY <1>1 DEF InOrder, Follow
<1>5. Ordered(Append(w, Head(t)), late, first)
  BY <1>1, <1>4, AppendOrdered DEF InOrder
<1>6. Follow({Head(t)}, ToSet(b), late, first)
  BY DEF Follow, Excused
<1>7. Follow(ToSet(w) \cup {Head(t)}, ToSet(Tail(t)) \cup ToSet(b), late, first)
  BY <1>1, <1>2, <1>6 DEF InOrder, Follow
<1>8. Follow(ToSet(b), ToSet(Tail(t)), late, first)
  BY <1>1 DEF InOrder, Follow
<1>9. Follow(ToSet(p) \cup n, (ToSet(w) \cup {Head(t)}) \cup ToSet(Tail(t)) \cup ToSet(b), late, first)
  BY <1>1 DEF InOrder, Follow
<1> QED
  BY <1>2, <1>3, <1>5, <1>7, <1>8, <1>9 DEF InOrder

(* The buffer becomes the batch                                              *)
LEMMA TakeBuffer ==
    ASSUME NEW r, NEW w, NEW b, Separate(r, w, <<>>, b)
    PROVE  Separate(r, w, b, <<>>)
BY EmptyFacts DEF Separate

LEMMA TakeBufferInOrder ==
    ASSUME NEW p, NEW n, NEW w, NEW b, NEW late, NEW first,
           InOrder(p, n, w, <<>>, b, late, first)
    PROVE  InOrder(p, n, w, b, <<>>, late, first)
<1>1. ToSet(<<>>) = {} /\ Ordered(<<>>, late, first) /\ Follow({}, ToSet(b), late, first)
  BY EmptyFacts, EmptyOrdered
<1> QED
  BY <1>1 DEF InOrder

(* The broker answers for the first message on the wire                      *)
LEMMA TakeFromWire ==
    ASSUME NEW r \in Seq(Messages), NEW w \in Seq(Messages), NEW t, NEW b, w # <<>>,
           Separate(r, w, t, b)
    PROVE  Separate(Append(r, Head(w)), Tail(w), t, b)
<1>1. /\ Head(w) \in Messages /\ ToSet(w) = {Head(w)} \cup ToSet(Tail(w))
      /\ IsInjective(Tail(w)) /\ Head(w) \notin ToSet(Tail(w))
  BY TailFacts DEF Separate
<1>2. /\ ToSet(Append(r, Head(w))) = ToSet(r) \cup {Head(w)}
      /\ Head(w) \notin ToSet(r) => IsInjective(Append(r, Head(w)))
  BY <1>1, AppendFacts DEF Separate
<1> QED
  BY <1>1, <1>2 DEF Separate

LEMMA PublishInOrder ==
    ASSUME NEW p \in Seq(Messages), NEW n, NEW w \in Seq(Messages), NEW t, NEW b,
           NEW late, NEW first, w # <<>>, InOrder(p, n, w, t, b, late, first)
    PROVE  InOrder(Append(p, Head(w)), n, Tail(w), t, b, late, first)
<1>1. Head(w) \in Messages /\ ToSet(w) = {Head(w)} \cup ToSet(Tail(w))
  BY TailFacts
<1>2. Ordered(Tail(w), late, first) /\ Follow({Head(w)}, ToSet(Tail(w)), late, first)
  BY TailOrdered DEF InOrder
<1>3. ToSet(Append(p, Head(w))) = ToSet(p) \cup {Head(w)}
  BY <1>1, AppendFacts
<1>4. Follow(ToSet(p), {Head(w)}, late, first)
  BY <1>1 DEF InOrder, Follow
<1>5. Ordered(Append(p, Head(w)), late, first)
  BY <1>1, <1>4, AppendOrdered DEF InOrder
<1>6. Follow((ToSet(p) \cup {Head(w)}) \cup n, ToSet(Tail(w)) \cup ToSet(t) \cup ToSet(b), late, first)
  BY <1>1, <1>2 DEF InOrder, Follow
<1>7. Follow(ToSet(Tail(w)), ToSet(t) \cup ToSet(b), late, first)
  BY <1>1 DEF InOrder, Follow
<1> QED
  BY <1>2, <1>3, <1>5, <1>6, <1>7 DEF InOrder

LEMMA RefuseInOrder ==
    ASSUME NEW p, NEW n, NEW w \in Seq(Messages), NEW t, NEW b,
           NEW late, NEW first, w # <<>>, InOrder(p, n, w, t, b, late, first)
    PROVE  InOrder(p, n \cup {Head(w)}, Tail(w), t, b, late, first)
<1>1. Head(w) \in Messages /\ ToSet(w) = {Head(w)} \cup ToSet(Tail(w))
  BY TailFacts
<1>2. Ordered(Tail(w), late, first) /\ Follow({Head(w)}, ToSet(Tail(w)), late, first)
  BY TailOrdered DEF InOrder
<1>3. Follow(ToSet(p) \cup (n \cup {Head(w)}), ToSet(Tail(w)) \cup ToSet(t) \cup ToSet(b), late, first)
  BY <1>1, <1>2 DEF InOrder, Follow
<1>4. Follow(ToSet(Tail(w)), ToSet(t) \cup ToSet(b), late, first)
  BY <1>1 DEF InOrder, Follow
<1> QED
  BY <1>2, <1>3, <1>4 DEF InOrder

(* A message is put at the end of the buffer, or on the wire                 *)
LEMMA PutBack ==
    ASSUME NEW r, NEW w, NEW t, NEW b \in Seq(Messages), NEW m \in Messages,
           Separate(r, w, t, b),
           m \notin ToSet(r) \cup ToSet(w) \cup ToSet(t) \cup ToSet(b)
    PROVE  Separate(r, w, t, Append(b, m))
<1>1. /\ ToSet(Append(b, m)) = ToSet(b) \cup {m}
      /\ m \notin ToSet(b) => IsInjective(Append(b, m))
  BY AppendFacts DEF Separate
<1> QED
  BY <1>1 DEF Separate

LEMMA PutBackInOrder ==
    ASSUME NEW p, NEW n, NEW w, NEW t, NEW b \in Seq(Messages), NEW m \in Messages,
           NEW late, NEW first, InOrder(p, n, w, t, b, late, first),
           Follow(ToSet(p) \cup n \cup ToSet(w) \cup ToSet(b), {m}, late, first),
           Follow({m}, ToSet(t), late, first)
    PROVE  InOrder(p, n, w, t, Append(b, m), late, first)
<1>1. ToSet(Append(b, m)) = ToSet(b) \cup {m}
  BY AppendFacts
<1>2. Ordered(Append(b, m), late, first)
  <2>1. Follow(ToSet(b), {m}, late, first)
    BY DEF Follow
  <2> QED
    BY <2>1, AppendOrdered DEF InOrder
<1>3. Follow(ToSet(p) \cup n, ToSet(w) \cup ToSet(t) \cup (ToSet(b) \cup {m}), late, first)
  BY DEF InOrder, Follow
<1>4. Follow(ToSet(w), ToSet(t) \cup (ToSet(b) \cup {m}), late, first)
  BY DEF InOrder, Follow
<1>5. Follow(ToSet(b) \cup {m}, ToSet(t), late, first)
  BY DEF InOrder, Follow
<1> QED
  BY <1>1, <1>2, <1>3, <1>4, <1>5 DEF InOrder

LEMMA PutOnWire ==
    ASSUME NEW r, NEW w \in Seq(Messages), NEW t, NEW b, NEW m \in Messages,
           Separate(r, w, t, b),
           m \notin ToSet(r) \cup ToSet(w) \cup ToSet(t) \cup ToSet(b)
    PROVE  Separate(r, Append(w, m), t, b)
<1>1. /\ ToSet(Append(w, m)) = ToSet(w) \cup {m}
      /\ m \notin ToSet(w) => IsInjective(Append(w, m))
  BY AppendFacts DEF Separate
<1> QED
  BY <1>1 DEF Separate

LEMMA PutOnWireInOrder ==
    ASSUME NEW p, NEW n, NEW w \in Seq(Messages), NEW t, NEW b, NEW m \in Messages,
           NEW late, NEW first, InOrder(p, n, w, t, b, late, first),
           Follow(ToSet(p) \cup n \cup ToSet(w), {m}, late, first),
           Follow({m}, ToSet(t) \cup ToSet(b), late, first)
    PROVE  InOrder(p, n, Append(w, m), t, b, late, first)
<1>1. ToSet(Append(w, m)) = ToSet(w) \cup {m}
  BY AppendFacts
<1>2. Ordered(Append(w, m), late, first)
  <2>1. Follow(ToSet(w), {m}, late, first)
    BY DEF Follow
  <2> QED
    BY <2>1, AppendOrdered DEF InOrder
<1>3. Follow(ToSet(p) \cup n, (ToSet(w) \cup {m}) \cup ToSet(t) \cup ToSet(b), late, first)
  BY DEF InOrder, Follow
<1>4. Follow(ToSet(w) \cup {m}, ToSet(t) \cup ToSet(b), late, first)
  BY DEF InOrder, Follow
<1> QED
  BY <1>1, <1>2, <1>3, <1>4 DEF InOrder

(* A close puts everything behind the buffer                                 *)
LEMMA CollectAll ==
    ASSUME NEW r \in Seq(Messages), NEW w \in Seq(Messages), NEW t \in Seq(Messages),
           NEW b \in Seq(Messages), Separate(r, w, t, b)
    PROVE  /\ Separate(<<>>, <<>>, <<>>, b \o (r \o w) \o t)
           /\ b \o (r \o w) \o t \in Seq(Messages)
           /\ ToSet(b \o (r \o w) \o t) = ToSet(b) \cup ToSet(r) \cup ToSet(w) \cup ToSet(t)
<1> DEFINE x == r \o w
           y == b \o x
           z == y \o t
<1>1. x \in Seq(Messages) /\ ToSet(x) = ToSet(r) \cup ToSet(w) /\ IsInjective(x)
  BY ConcatFacts DEF Separate
<1> HIDE DEF x
<1>2. y \in Seq(Messages) /\ ToSet(y) = ToSet(b) \cup ToSet(x) /\ IsInjective(y)
  <2>1. ToSet(b) \cap ToSet(x) = {} /\ IsInjective(b)
    BY <1>1 DEF Separate
  <2> QED
    BY <1>1, <2>1, ConcatFacts
<1> HIDE DEF y
<1>3. z \in Seq(Messages) /\ ToSet(z) = ToSet(y) \cup ToSet(t) /\ IsInjective(z)
  <2>1. ToSet(y) \cap ToSet(t) = {} /\ IsInjective(t)
    BY <1>1, <1>2 DEF Separate
  <2> QED
    BY <1>2, <2>1, ConcatFacts
<1> HIDE DEF z
<1>4. Separate(<<>>, <<>>, <<>>, z)
  BY <1>3, EmptyFacts DEF Separate
<1> QED
  BY <1>1, <1>2, <1>3, <1>4 DEF x, y, z

LEMMA CollectInOrder ==
    ASSUME NEW p, NEW n, NEW r \in Seq(Messages), NEW w \in Seq(Messages),
           NEW t \in Seq(Messages), NEW b \in Seq(Messages), NEW late, NEW first,
           InOrder(p, n, w, t, b, late, first),
           ToSet(r) \subseteq n \cup ToSet(p), ToSet(r) \cup ToSet(w) \subseteq late
    PROVE  InOrder(p, {}, <<>>, <<>>, b \o (r \o w) \o t, late, first)
<1>1. \A X : Follow(X, ToSet(r) \cup ToSet(w), late, first)
  BY DEF Follow, Excused
<1> DEFINE x == r \o w
           y == b \o x
           z == y \o t
<1>2. x \in Seq(Messages) /\ ToSet(x) = ToSet(r) \cup ToSet(w)
  BY ConcatFacts
<1> HIDE DEF x
<1>3. Ordered(x, late, first)
  <2>1. ToSet(x) = {x[i] : i \in 1 .. Len(x)}
    BY <1>2, Elements
  <2> QED
    BY <1>2, <2>1 DEF Ordered, Excused
<1>4. y \in Seq(Messages) /\ ToSet(y) = ToSet(b) \cup ToSet(x) /\ Ordered(y, late, first)
  <2>1. Follow(ToSet(b), ToSet(x), late, first) /\ Ordered(b, late, first)
    BY <1>1, <1>2 DEF InOrder
  <2>2. Ordered(y, late, first)
    BY <1>2, <1>3, <2>1, ConcatOrdered
  <2> QED
    BY <1>2, <2>2, ConcatFacts
<1> HIDE DEF y
<1>5. Follow(ToSet(y), ToSet(t), late, first) /\ Ordered(t, late, first)
  BY <1>2, <1>4 DEF InOrder, Follow
<1>6. ToSet(z) = ToSet(b) \cup ToSet(r) \cup ToSet(w) \cup ToSet(t) /\ Ordered(z, late, first)
  <2>1. Ordered(z, late, first)
    BY <1>4, <1>5, ConcatOrdered
  <2> QED
    BY <1>2, <1>4, <2>1, ConcatFacts
<1> HIDE DEF z
<1>7. Follow(ToSet(p), ToSet(b) \cup ToSet(r) \cup ToSet(w) \cup ToSet(t), late, first)
  BY <1>1 DEF InOrder, Follow
<1>8. InOrder(p, {}, <<>>, <<>>, z, late, first)
  BY <1>6, <1>7, EmptyFacts, EmptyOrdered DEF InOrder
<1> QED
  BY <1>8 DEF x, y, z

(* More excuses, fewer refusals                                              *)
LEMMA StillInOrder ==
    ASSUME NEW p \in Seq(Messages), NEW n, NEW w \in Seq(Messages), NEW t \in Seq(Messages),
           NEW b \in Seq(Messages), NEW late, NEW first, NEW n2, NEW late2, NEW first2,
           InOrder(p, n, w, t, b, late, first),
           n2 \subseteq n, late \subseteq late2, first \subseteq first2,
           \A m \in ToSet(p) \cup n \cup ToSet(w) \cup ToSet(t) \cup ToSet(b) :
              m \in first2 => m \in first
    PROVE  InOrder(p, n2, w, t, b, late2, first2)
<1>1. /\ Ordered(p, late2, first2) /\ Ordered(w, late2, first2)
      /\ Ordered(t, late2, first2) /\ Ordered(b, late2, first2)
  BY StillOrdered DEF InOrder
<1>2. Follow(ToSet(p) \cup n2, ToSet(w) \cup ToSet(t) \cup ToSet(b), late2, first2)
  BY DEF InOrder, Follow, Excused
<1>3. Follow(ToSet(w), ToSet(t) \cup ToSet(b), late2, first2)
  BY DEF InOrder, Follow, Excused
<1>4. Follow(ToSet(b), ToSet(t), late2, first2)
  BY DEF InOrder, Follow, Excused
<1> QED
  BY <1>1, <1>2, <1>3, <1>4 DEF InOrder

-----------------------------------------------------------------------------
(* The steps                                                                 *)

LEMMA Basics ==
    ASSUME Typed
    PROVE  /\ Replies \in Seq(Messages) /\ Rest \in Seq(Messages)
           /\ Refusals \subseteq ToSet(Replies)
           /\ pending = <<>> => Rest = <<>>
           /\ pending # <<>> => Rest = Tail(pending)
           /\ ToSet(pending) = ToSet(Rest) \cup (IF pending = <<>> THEN {} ELSE {Head(pending)})
           /\ Waiting = ToSet(wire) \cup ToSet(Rest) \cup ToSet(buffer) \cup Refusals
<1>1. Replies \in Seq(Messages) /\ Refusals \subseteq ToSet(Replies)
  BY RepliesFacts DEF Typed, Replies, Refusals
<1>2. /\ Rest \in Seq(Messages)
      /\ pending = <<>> => Rest = <<>>
      /\ pending # <<>> => Rest = Tail(pending)
      /\ ToSet(pending) = ToSet(Rest) \cup (IF pending = <<>> THEN {} ELSE {Head(pending)})
  BY RestFacts DEF Typed, Rest
<1>3. Waiting = ToSet(wire) \cup ToSet(Rest) \cup ToSet(buffer) \cup Refusals
  BY DEF Waiting, Rest, RestOf, Refusals, RefusalsIn
<1> QED
  BY <1>1, <1>2, <1>3

LEMMA EmittedFacts ==
    ASSUME next \in 1 .. Len(Events) + 1
    PROVE  /\ Emitted \subseteq Messages
           /\ \A m \in Emitted : m.payload \in Nat /\ m.payload < next
           /\ next \in Bridged => Message(next) \in Messages /\ Message(next).payload = next
           /\ next' = next => Emitted' = Emitted
           /\ next' = next + 1 =>
                 Emitted' = Emitted \cup IF next \in Bridged THEN {Message(next)} ELSE {}
<1>1. Bridged \subseteq Nat /\ next \in Nat
  BY EventsAssumption DEF Bridged
<1>2. \A i \in Bridged : Message(i) \in Messages /\ Message(i).payload = i
  BY DEF Messages, Message
<1>3. ASSUME next' = next + 1
      PROVE  Emitted' = Emitted \cup IF next \in Bridged THEN {Message(next)} ELSE {}
  <2>1. \A i \in Bridged : i < next' <=> i < next \/ i = next
    BY <1>1, <1>3
  <2>2. Emitted' = {Message(i) : i \in {i \in Bridged : i < next \/ i = next}}
    BY <2>1 DEF Emitted
  <2> QED
    BY <2>2 DEF Emitted
<1> QED
  BY <1>1, <1>2, <1>3 DEF Emitted

LEMMA FlushMoves ==
    ASSUME NEW batch \in Seq(Messages), wire \in Seq(Messages), Flush(batch),
           NEW r, NEW b, NEW p, NEW n, NEW late, NEW first,
           Separate(r, wire, batch, b), InOrder(p, n, wire, batch, b, late, first),
           batch # <<>> => ToSet(b) \subseteq late
    PROVE  /\ Separate(r, wire', Rest', b)
           /\ InOrder(p, n, wire', Rest', b, late, first)
           /\ wire' \in Seq(Messages) /\ pending' \in Seq(Messages)
           /\ ToSet(wire') \cup ToSet(Rest') = ToSet(wire) \cup ToSet(batch)
           /\ ToSet(Rest') \subseteq ToSet(batch) /\ ToSet(wire) \subseteq ToSet(wire')
           /\ pending' # <<>> => Head(pending') \in ToSet(wire')
           /\ pc' = "flush" => pending' # <<>>
<1>1. CASE batch = <<>>
  <2>1. wire' = wire /\ pending' = <<>> /\ pc' = "idle"
    BY <1>1 DEF Flush
  <2>2. Rest' = <<>>
    BY <2>1, EmptyFacts, RestFacts DEF Rest
  <2> QED
    BY <1>1, <2>1, <2>2, EmptyFacts
<1>2. CASE batch # <<>>
  <2>1. wire' = Append(wire, Head(batch)) /\ pending' = batch
    BY <1>2 DEF Flush
  <2>2. Rest' = Tail(batch)
    BY <1>2, <2>1, RestFacts DEF Rest
  <2>3. Head(batch) \in Messages /\ ToSet(batch) = {Head(batch)} \cup ToSet(Tail(batch))
    BY <1>2, TailFacts
  <2>4. wire' \in Seq(Messages) /\ ToSet(wire') = ToSet(wire) \cup {Head(batch)}
    BY <2>1, <2>3, AppendFacts
  <2>5. Separate(r, wire', Rest', b)
    BY <1>2, <2>1, <2>2, SendNext
  <2>6. InOrder(p, n, wire', Rest', b, late, first)
    BY <1>2, <2>1, <2>2, SendNextInOrder
  <2> QED
    BY <1>2, <2>1, <2>2, <2>3, <2>4, <2>5, <2>6
<1> QED
  BY <1>1, <1>2

LEMMA GoOnMoves ==
    ASSUME Typed, NEW message, GoOn(message),
           NEW r, NEW b, NEW p, NEW n, NEW late, NEW first,
           Separate(r, wire, Rest, b), InOrder(p, n, wire, Rest, b, late, first),
           pending # <<>> => ToSet(b) \subseteq late
    PROVE  /\ Separate(r, wire', Rest', b)
           /\ InOrder(p, n, wire', Rest', b, late, first)
           /\ wire' \in Seq(Messages) /\ pending' \in Seq(Messages)
           /\ ToSet(wire') \cup ToSet(Rest') = ToSet(wire) \cup ToSet(Rest)
           /\ ToSet(Rest') \subseteq ToSet(Rest) /\ ToSet(wire) \subseteq ToSet(wire')
           /\ \/ pending' # <<>> => Head(pending') \in ToSet(wire')
              \/ pending' = pending /\ (pending # <<>> => Head(pending) # message)
           /\ pc' = "flush" => pending' # <<>>
<1>1. CASE pending # <<>> /\ Head(pending) = message
  <2>1. Rest = Tail(pending) /\ Flush(Rest) /\ Rest \in Seq(Messages)
    BY <1>1, Basics DEF GoOn
  <2> QED
    BY <1>1, <2>1, FlushMoves DEF Typed
<1>2. CASE ~ (pending # <<>> /\ Head(pending) = message)
  <2>1. UNCHANGED <<pc, pending, wire>>
    BY <1>2 DEF GoOn
  <2>2. Rest' = Rest
    BY <2>1 DEF Rest
  <2> QED
    BY <1>2, <2>1, <2>2 DEF Typed
<1> QED
  BY <1>1, <1>2

(* Connecting moves no message                                               *)
LEMMA ConnectingKeeps ==
    ASSUME IInv, TimerFires \/ DialOk \/ DialFails \/ ChannelOk
    PROVE  Data' /\ Waiting' = Waiting
<1>1. /\ UNCHANGED <<next, closes, buffer, pending, wire, confirms, published>>
      /\ UNCHANGED <<queued, refused, doubted, forgotten>>
      /\ pc' = pc \/ pc' \in {"dial", "channel", "idle", "assert"}
      /\ channel' => channel \/ pc' = "assert"
      /\ channel' /\ pc' # "assert" => channel /\ pc # "assert"
  BY DEF TimerFires, DialOk, DialFails, ChannelOk, traffic, history, IInv, ConnectOK, NeverStranded
<1>2. /\ Rest' = Rest /\ Replies' = Replies /\ Refusals' = Refusals
      /\ Emitted' = Emitted /\ Waiting' = Waiting /\ Late' = Late
  BY <1>1 DEF Rest, Replies, Refusals, Emitted, Waiting, Late
<1>3. Typed'
  BY <1>1 DEF IInv, Data, Typed
<1>4. Quiet'
  BY <1>1 DEF IInv, Data, Quiet, ConnectOK, TimerFires, DialOk, DialFails, ChannelOk
<1>5. Buffered'
  BY <1>1, <1>2 DEF IInv, Data, Buffered
<1> QED
  BY <1>1, <1>2, <1>3, <1>4, <1>5
  DEF IInv, Data, Placed, Known, Awaited, Kept, OrderOK

(* publish puts an event on the channel, or in the buffer when there is none *)
LEMMA EmitKeeps ==
    ASSUME IInv, Emit
    PROVE  /\ Data'
           /\ UNCHANGED <<published, forgotten>>
           /\ Waiting' = Waiting \cup IF next \in Bridged THEN {Message(next)} ELSE {}
<1> DEFINE m == Message(next)
<1>1. /\ next' = next + 1 /\ next \in 1 .. Len(Events) + 1 /\ next' \in 1 .. Len(Events) + 1
      /\ UNCHANGED <<pc, channel, timer, closes, pending, confirms, published>>
      /\ UNCHANGED <<refused, doubted, forgotten>>
      /\ Rest' = Rest /\ Replies' = Replies /\ Refusals' = Refusals /\ Late' = Late
  BY EventsAssumption DEF Emit, IInv, Data, Typed, connection, Rest, Replies, Refusals, Late
<1>2. /\ Replies \in Seq(Messages) /\ Rest \in Seq(Messages) /\ Refusals \subseteq ToSet(Replies)
      /\ pending = <<>> => Rest = <<>>
      /\ Waiting = ToSet(wire) \cup ToSet(Rest) \cup ToSet(buffer) \cup Refusals
      /\ Waiting' = ToSet(wire') \cup ToSet(Rest) \cup ToSet(buffer') \cup Refusals
  <2>1. Waiting' = ToSet(wire') \cup ToSet(Rest') \cup ToSet(buffer') \cup Refusals'
    BY DEF Waiting, Rest, RestOf, Refusals, RefusalsIn
  <2> QED
    BY <1>1, <2>1, Basics DEF IInv, Data
<1>3. Emitted' = Emitted \cup IF next \in Bridged THEN {m} ELSE {}
  BY <1>1, EmittedFacts
<1>4. CASE next \notin Bridged
  <2>1. UNCHANGED <<buffer, wire, queued>> /\ Emitted' = Emitted
    BY <1>3, <1>4 DEF Emit
  <2>2. Waiting' = Waiting
    BY <1>2, <2>1
  <2>3. Typed' /\ Quiet' /\ Buffered'
    BY <1>1, <2>1 DEF IInv, Data, Typed, Quiet, Buffered
  <2> QED
    BY <1>1, <1>4, <2>1, <2>2, <2>3 DEF IInv, Data, Placed, Known, Awaited, Kept, OrderOK
<1>5. CASE next \in Bridged
  <2>1. /\ m \in Messages /\ Emitted' = Emitted \cup {m}
        /\ m \notin Emitted
        /\ \A b \in Emitted : b.payload <= m.payload /\ b # m
    BY <1>1, <1>3, <1>5, EmittedFacts
  <2> HIDE DEF m
  <2>2. m \notin ToSet(Replies) \cup ToSet(wire) \cup ToSet(Rest) \cup ToSet(buffer) \cup queued
    BY <2>1 DEF IInv, Data, Known
  <2>3. Follow(ToSet(published) \cup Refusals \cup ToSet(wire) \cup ToSet(buffer), {m}, Late, queued')
    BY <1>2, <2>1 DEF IInv, Data, Known, Follow, Excused
  <2>4. buffer \in Seq(Messages) /\ wire \in Seq(Messages) /\ published \in Seq(Messages)
    BY DEF IInv, Data, Typed
  <2>5. CASE channel
    <3>1. wire' = Append(wire, m) /\ UNCHANGED <<buffer, queued>>
      BY <1>5, <2>5 DEF Emit, m
    <3>2. wire' \in Seq(Messages) /\ ToSet(wire') = ToSet(wire) \cup {m}
      BY <2>1, <2>4, <3>1, AppendFacts
    <3>3. Placed'
      BY <1>1, <2>1, <2>2, <2>4, <3>1, PutOnWire DEF IInv, Data, Placed
    <3>4. OrderOK'
      <4>1. Follow({m}, ToSet(Rest) \cup ToSet(buffer), Late, queued)
        BY <2>2 DEF Follow, Excused, Late, IInv, Data, Buffered
      <4>2. Follow(ToSet(published) \cup Refusals \cup ToSet(wire), {m}, Late, queued)
        BY <2>3, <3>1 DEF Follow
      <4>3. InOrder(published, Refusals, Append(wire, m), Rest, buffer, Late, queued)
        BY <2>1, <2>4, <4>1, <4>2, PutOnWireInOrder DEF IInv, Data, OrderOK
      <4> QED
        BY <1>1, <3>1, <4>3 DEF OrderOK
    <3>5. Typed'
      BY <1>1, <3>1, <3>2 DEF IInv, Data, Typed
    <3>6. Quiet' /\ Buffered'
      BY <1>1, <2>5, <3>1 DEF IInv, Data, Quiet, Buffered
    <3>7. Known' /\ Awaited'
      BY <1>1, <2>1, <3>1, <3>2 DEF IInv, Data, Known, Awaited
    <3>8. Waiting' = Waiting \cup {m}
      BY <1>2, <3>1, <3>2
    <3>9. Kept'
      BY <1>1, <2>1, <3>8 DEF IInv, Data, Kept
    <3> QED
      BY <1>1, <1>5, <3>3, <3>4, <3>5, <3>6, <3>7, <3>8, <3>9 DEF Data, m
  <2>6. CASE ~ channel
    <3>1. buffer' = Append(buffer, m) /\ queued' = queued \cup {m} /\ wire' = wire
      BY <1>5, <2>6 DEF Emit, m
    <3>2. buffer' \in Seq(Messages) /\ ToSet(buffer') = ToSet(buffer) \cup {m}
      BY <2>1, <2>4, <3>1, AppendFacts
    <3>3. Placed'
      BY <1>1, <2>1, <2>2, <2>4, <3>1, PutBack DEF IInv, Data, Placed
    <3>4. Rest = <<>>
      BY <1>2, <2>6 DEF IInv, ConnectOK
    <3>5. OrderOK'
      <4>1. Follow({m}, ToSet(Rest), Late, queued')
        BY <3>4, EmptyOrdered
      <4>2. \A x \in ToSet(published) \cup Refusals \cup ToSet(wire) \cup ToSet(Rest) \cup ToSet(buffer) :
               x \in queued' => x \in queued
        BY <1>2, <2>1, <3>1 DEF IInv, Data, Known
      <4>3. InOrder(published, Refusals, wire, Rest, buffer, Late, queued)
        BY DEF IInv, Data, OrderOK
      <4>4. InOrder(published, Refusals, wire, Rest, buffer, Late, queued')
        BY <1>2, <2>4, <3>1, <4>2, <4>3, StillInOrder
      <4>5. InOrder(published, Refusals, wire, Rest, Append(buffer, m), Late, queued')
        BY <2>1, <2>3, <2>4, <4>1, <4>4, PutBackInOrder
      <4> QED
        BY <1>1, <3>1, <4>5 DEF OrderOK
    <3>6. Typed'
      BY <1>1, <2>1, <3>1, <3>2 DEF IInv, Data, Typed
    <3>7. Quiet' /\ Buffered'
      BY <1>1, <2>6, <3>1, <3>2 DEF IInv, Data, Quiet, Buffered
    <3>8. Known' /\ Awaited'
      BY <1>1, <2>1, <3>1, <3>2 DEF IInv, Data, Known, Awaited
    <3>9. Waiting' = Waiting \cup {m}
      BY <1>2, <3>1, <3>2
    <3>10. Kept'
      BY <1>1, <2>1, <3>9 DEF IInv, Data, Kept
    <3> QED
      BY <1>1, <1>5, <3>3, <3>5, <3>6, <3>7, <3>8, <3>9, <3>10 DEF Data, m
  <2> QED
    BY <2>5, <2>6
<1> QED
  BY <1>4, <1>5

(* The broker takes the first message on the wire, or refuses it             *)
LEMMA ReceiveKeeps ==
    ASSUME IInv, Receive
    PROVE  /\ Data' /\ UNCHANGED <<next, forgotten>>
           /\ \/ UNCHANGED <<published, Waiting>>
              \/ /\ Head(wire) \in Waiting
                 /\ published' = Append(published, Head(wire))
                 /\ Waiting' = Waiting \ {Head(wire)}
<1> DEFINE h == Head(wire)
<1>1. PICK ok \in BOOLEAN :
         /\ confirms' = Append(confirms, [message |-> h, ok |-> ok])
         /\ published' = IF ok THEN Append(published, h) ELSE published
  BY DEF Receive
<1>2. /\ wire # <<>> /\ wire' = Tail(wire)
      /\ UNCHANGED <<next, pc, channel, timer, closes, buffer, pending>>
      /\ UNCHANGED <<queued, refused, doubted, forgotten>>
      /\ Rest' = Rest /\ Late' = Late /\ Emitted' = Emitted
  BY DEF Receive, connection, history, Rest, Late, Emitted
<1>3. /\ Replies \in Seq(Messages) /\ Rest \in Seq(Messages) /\ Refusals \subseteq ToSet(Replies)
      /\ Waiting = ToSet(wire) \cup ToSet(Rest) \cup ToSet(buffer) \cup Refusals
      /\ Waiting' = ToSet(wire') \cup ToSet(Rest) \cup ToSet(buffer) \cup Refusals'
  <2>1. Waiting' = ToSet(wire') \cup ToSet(Rest') \cup ToSet(buffer') \cup Refusals'
    BY DEF Waiting, Rest, RestOf, Refusals, RefusalsIn
  <2> QED
    BY <1>2, <2>1, Basics DEF IInv, Data
<1>4. /\ wire \in Seq(Messages) /\ published \in Seq(Messages) /\ confirms \in Seq(Confirmation)
      /\ Placed /\ OrderOK
  BY DEF IInv, Data, Typed
<1>5. /\ h \in Messages /\ wire' \in Seq(Messages) /\ h \in ToSet(wire)
      /\ ToSet(wire) = {h} \cup ToSet(wire') /\ h \notin ToSet(wire')
  BY <1>2, <1>4, TailFacts DEF Placed, Separate
<1> HIDE DEF h
<1>6. /\ confirms' \in Seq(Confirmation)
      /\ Replies' = Append(Replies, h)
      /\ Refusals' = Refusals \cup IF ok THEN {} ELSE {h}
  BY <1>1, <1>4, <1>5, RepliesAppend, ZenonT(60) DEF Replies, Refusals
<1>7. ToSet(Replies') = ToSet(Replies) \cup {h}
  BY <1>3, <1>5, <1>6, AppendFacts
<1>8. published' \in Seq(Messages) /\ ToSet(published') = ToSet(published) \cup IF ok THEN {h} ELSE {}
  BY <1>1, <1>4, <1>5, AppendFacts
<1>9. Placed'
  BY <1>2, <1>3, <1>4, <1>6, TakeFromWire DEF Placed, h
<1>10. OrderOK'
  <2>1. CASE ok
    BY <1>1, <1>2, <1>4, <1>6, <2>1, PublishInOrder DEF OrderOK, h
  <2>2. CASE ~ ok
    BY <1>1, <1>2, <1>4, <1>6, <2>2, RefuseInOrder DEF OrderOK, h
  <2> QED
    BY <2>1, <2>2
<1>11. Typed'
  BY <1>2, <1>5, <1>6, <1>8 DEF IInv, Data, Typed
<1>12. Quiet'
  BY <1>2 DEF IInv, Data, Quiet
<1>13. Known'
  <2>1. h \in Emitted
    BY <1>5 DEF IInv, Data, Known
  <2> QED
    BY <1>2, <1>5, <1>7, <1>8, <2>1 DEF IInv, Data, Known
<1>14. Awaited'
  BY <1>2, <1>5, <1>6, <1>7, <1>8 DEF IInv, Data, Awaited
<1>15. Kept'
  BY <1>2, <1>3, <1>5, <1>6, <1>8 DEF IInv, Data, Kept
<1>16. Buffered'
  BY <1>2 DEF IInv, Data, Buffered
<1>17. CASE ok
  <2>1. h \notin ToSet(Rest) \cup ToSet(buffer) \cup Refusals
    BY <1>3, <1>4, <1>5 DEF Placed, Separate
  <2>2. Waiting' = Waiting \ {h} /\ h \in Waiting
    BY <1>3, <1>5, <1>6, <1>17, <2>1
  <2> QED
    BY <1>1, <1>2, <1>9, <1>10, <1>11, <1>12, <1>13, <1>14, <1>15, <1>16, <1>17, <2>2 DEF Data, h
<1>18. CASE ~ ok
  <2>1. Waiting' = Waiting
    BY <1>3, <1>5, <1>6, <1>18
  <2> QED
    BY <1>1, <1>2, <1>9, <1>10, <1>11, <1>12, <1>13, <1>14, <1>15, <1>16, <1>18, <2>1 DEF Data
<1> QED
  BY <1>17, <1>18

(* flushBuffer takes the buffer as its batch                                 *)
LEMMA AssertOkKeeps ==
    ASSUME IInv, AssertOk
    PROVE  Data' /\ UNCHANGED <<next, published, forgotten, Waiting>>
<1>1. /\ Flush(buffer) /\ buffer' = <<>> /\ channel /\ channel'
      /\ UNCHANGED <<next, closes, confirms, published, queued, refused, doubted, forgotten>>
      /\ Replies' = Replies /\ Refusals' = Refusals /\ Late' = Late /\ Emitted' = Emitted
  BY DEF AssertOk, IInv, ConnectOK, history, Replies, Refusals, Late, Emitted
<1>2. Rest = <<>>
  BY Basics DEF AssertOk, IInv, Data, ConnectOK
<1>3. /\ buffer \in Seq(Messages) /\ wire \in Seq(Messages) /\ <<>> \in Seq(Messages)
      /\ Separate(Replies, wire, buffer, <<>>)
      /\ InOrder(published, Refusals, wire, buffer, <<>>, Late, queued)
      /\ ToSet(<<>>) = {}
  BY <1>2, TakeBuffer, TakeBufferInOrder, EmptyFacts DEF IInv, Data, Typed, Placed, OrderOK
<1>4. /\ Separate(Replies, wire', Rest', <<>>)
      /\ InOrder(published, Refusals, wire', Rest', <<>>, Late, queued)
      /\ wire' \in Seq(Messages) /\ pending' \in Seq(Messages)
      /\ ToSet(wire') \cup ToSet(Rest') = ToSet(wire) \cup ToSet(buffer)
      /\ ToSet(Rest') \subseteq ToSet(buffer)
      /\ pending' # <<>> => Head(pending') \in ToSet(wire')
      /\ pc' = "flush" => pending' # <<>>
  <2>1. ToSet(<<>>) \subseteq Late
    BY <1>3
  <2> QED
    BY <1>1, <1>3, <2>1, FlushMoves
<1>5. Waiting' = Waiting
  <2>1. Waiting' = ToSet(wire') \cup ToSet(Rest') \cup ToSet(buffer') \cup Refusals'
    BY DEF Waiting, Rest, RestOf, Refusals, RefusalsIn
  <2>2. Waiting = ToSet(wire) \cup ToSet(Rest) \cup ToSet(buffer) \cup Refusals
    BY Basics DEF IInv, Data
  <2> QED
    BY <1>1, <1>2, <1>3, <1>4, <2>1, <2>2
<1>6. Placed' /\ OrderOK'
  BY <1>1, <1>4 DEF Placed, OrderOK
<1>7. Typed' /\ Quiet'
  BY <1>1, <1>3, <1>4 DEF IInv, Data, Typed, Quiet
<1>8. Known' /\ Awaited'
  BY <1>1, <1>3, <1>4 DEF IInv, Data, Known, Awaited
<1>9. Kept'
  BY <1>1, <1>5 DEF IInv, Data, Kept
<1>10. Buffered'
  BY <1>1, <1>3, <1>4 DEF IInv, Data, Buffered
<1> QED
  BY <1>1, <1>5, <1>6, <1>7, <1>8, <1>9, <1>10 DEF Data

(* A confirm is dropped, and flushBuffer may go on to its next message       *)
LEMMA AckKeeps ==
    ASSUME IInv, Ack
    PROVE  Data' /\ UNCHANGED <<next, published, forgotten, Waiting>>
<1> DEFINE m == Head(confirms).message
<1>1. /\ confirms # <<>> /\ Head(confirms).ok /\ confirms' = Tail(confirms) /\ GoOn(m)
      /\ UNCHANGED <<next, channel, closes, buffer, published, queued, refused, doubted, forgotten>>
      /\ Late' = Late /\ Emitted' = Emitted
  BY DEF Ack, history, Late, Emitted
<1>2. /\ Typed /\ confirms \in Seq(Confirmation) /\ Replies \in Seq(Messages)
      /\ Waiting = ToSet(wire) \cup ToSet(Rest) \cup ToSet(buffer) \cup Refusals
      /\ pending = <<>> => Rest = <<>>
  BY Basics DEF IInv, Data, Typed
<1>3. /\ confirms' \in Seq(Confirmation)
      /\ Replies # <<>> /\ Replies' = Tail(Replies) /\ Head(Replies) = m
      /\ Refusals' = Refusals
  BY <1>1, <1>2, RepliesTail, ZenonT(60) DEF Replies, Refusals
<1> HIDE DEF m
<1>4. ToSet(Replies) = {m} \cup ToSet(Replies') /\ IsInjective(Replies')
  BY <1>2, <1>3, TailFacts DEF IInv, Data, Placed, Separate
<1>5. /\ Separate(Replies', wire, Rest, buffer)
      /\ InOrder(published, Refusals', wire, Rest, buffer, Late, queued)
  BY <1>3, <1>4 DEF IInv, Data, Placed, Separate, OrderOK
<1>6. pending # <<>> => ToSet(buffer) \subseteq Late
  BY DEF IInv, ConnectOK, Data, Buffered, Late
<1>7. /\ Separate(Replies', wire', Rest', buffer)
      /\ InOrder(published, Refusals', wire', Rest', buffer, Late, queued)
      /\ wire' \in Seq(Messages) /\ pending' \in Seq(Messages)
      /\ ToSet(wire') \cup ToSet(Rest') = ToSet(wire) \cup ToSet(Rest)
      /\ ToSet(Rest') \subseteq ToSet(Rest) /\ ToSet(wire) \subseteq ToSet(wire')
      /\ \/ pending' # <<>> => Head(pending') \in ToSet(wire')
         \/ pending' = pending /\ (pending # <<>> => Head(pending) # m)
      /\ pc' = "flush" => pending' # <<>>
  BY <1>1, <1>2, <1>5, <1>6, GoOnMoves
<1>8. Waiting' = Waiting
  <2>1. Waiting' = ToSet(wire') \cup ToSet(Rest') \cup ToSet(buffer') \cup Refusals'
    BY DEF Waiting, Rest, RestOf, Refusals, RefusalsIn
  <2> QED
    BY <1>1, <1>2, <1>3, <1>7, <2>1
<1>9. Placed' /\ OrderOK'
  BY <1>1, <1>7 DEF Placed, OrderOK
<1>10. Typed'
  BY <1>1, <1>3, <1>7 DEF IInv, Data, Typed
<1>11. Quiet'
  BY <1>1 DEF IInv, Data, Quiet
<1>12. Known'
  BY <1>1, <1>4, <1>7 DEF IInv, Data, Known
<1>13. Awaited'
  BY <1>1, <1>3, <1>4, <1>7 DEF IInv, Data, Awaited
<1>14. Kept'
  BY <1>1, <1>8 DEF IInv, Data, Kept
<1>15. Buffered'
  <2>1. ToSet(buffer') \cup ToSet(Rest') \subseteq queued' \cup refused' \cup doubted'
    BY <1>1, <1>7 DEF IInv, Data, Buffered
  <2>2. channel' /\ pc' # "assert" => channel /\ pc # "assert"
    BY <1>1 DEF GoOn, IInv, ConnectOK
  <2> QED
    BY <1>1, <2>1, <2>2 DEF IInv, Data, Buffered
<1> QED
  BY <1>1, <1>8, <1>9, <1>10, <1>11, <1>12, <1>13, <1>14, <1>15 DEF Data

(* A refused message is put back, and flushBuffer goes on all the same       *)
LEMMA NackKeeps ==
    ASSUME IInv, Nack
    PROVE  Data' /\ UNCHANGED <<next, published, forgotten, Waiting>>
<1> DEFINE m == Head(confirms).message
<1>1. /\ confirms # <<>> /\ ~ Head(confirms).ok /\ confirms' = Tail(confirms) /\ GoOn(m)
      /\ buffer' = Append(buffer, m) /\ refused' = refused \cup {m}
      /\ UNCHANGED <<next, channel, closes, published, queued, doubted, forgotten>>
      /\ Emitted' = Emitted
  BY DEF Nack, Emitted
<1>2. /\ Typed /\ confirms \in Seq(Confirmation) /\ Replies \in Seq(Messages)
      /\ Refusals \subseteq ToSet(Replies)
      /\ Waiting = ToSet(wire) \cup ToSet(Rest) \cup ToSet(buffer) \cup Refusals
      /\ pending = <<>> => Rest = <<>>
      /\ buffer \in Seq(Messages) /\ wire \in Seq(Messages) /\ published \in Seq(Messages)
      /\ Rest \in Seq(Messages)
  BY Basics DEF IInv, Data, Typed
<1>3. /\ confirms' \in Seq(Confirmation)
      /\ Replies # <<>> /\ Replies' = Tail(Replies) /\ Head(Replies) = m
      /\ Refusals = Refusals' \cup {m}
  BY <1>1, <1>2, RepliesTail DEF Replies, Refusals
<1> HIDE DEF m
<1>4. /\ ToSet(Replies) = {m} \cup ToSet(Replies') /\ IsInjective(Replies')
      /\ m \notin ToSet(Replies') /\ m \in Messages
  BY <1>2, <1>3, TailFacts DEF IInv, Data, Placed, Separate
<1>5. buffer' \in Seq(Messages) /\ ToSet(buffer') = ToSet(buffer) \cup {m}
  BY <1>1, <1>2, <1>4, AppendFacts
<1>6. Separate(Replies', wire, Rest, buffer')
  <2>1. /\ Separate(Replies', wire, Rest, buffer)
        /\ m \notin ToSet(Replies') \cup ToSet(wire) \cup ToSet(Rest) \cup ToSet(buffer)
    BY <1>3, <1>4 DEF IInv, Data, Placed, Separate
  <2> QED
    BY <1>1, <1>2, <1>4, <2>1, PutBack
<1>7. InOrder(published, Refusals', wire, Rest, buffer', Late', queued)
  <2>1. Late \subseteq Late' /\ m \in Late'
    BY <1>1 DEF Late
  <2>2. InOrder(published, Refusals, wire, Rest, buffer, Late, queued)
    BY DEF IInv, Data, OrderOK
  <2>3. InOrder(published, Refusals', wire, Rest, buffer, Late', queued)
    BY <1>2, <1>3, <2>1, <2>2, StillInOrder
  <2>4. \A X : Follow(X, {m}, Late', queued)
    BY <2>1 DEF Follow, Excused
  <2>5. Follow({m}, ToSet(Rest), Late, queued)
    BY <1>3, <2>2 DEF InOrder, Follow
  <2>6. Follow({m}, ToSet(Rest), Late', queued)
    BY <2>1, <2>5 DEF Follow, Excused
  <2> QED
    BY <1>1, <1>2, <1>4, <2>3, <2>4, <2>6, PutBackInOrder
<1>8. pending # <<>> => ToSet(buffer') \subseteq Late'
  BY <1>1, <1>5 DEF IInv, ConnectOK, Data, Buffered, Late
<1>9. /\ Separate(Replies', wire', Rest', buffer')
      /\ InOrder(published, Refusals', wire', Rest', buffer', Late', queued)
      /\ wire' \in Seq(Messages) /\ pending' \in Seq(Messages)
      /\ ToSet(wire') \cup ToSet(Rest') = ToSet(wire) \cup ToSet(Rest)
      /\ ToSet(Rest') \subseteq ToSet(Rest) /\ ToSet(wire) \subseteq ToSet(wire')
      /\ \/ pending' # <<>> => Head(pending') \in ToSet(wire')
         \/ pending' = pending /\ (pending # <<>> => Head(pending) # m)
      /\ pc' = "flush" => pending' # <<>>
  BY <1>1, <1>2, <1>6, <1>7, <1>8, GoOnMoves
<1>10. Waiting' = Waiting
  <2>1. Waiting' = ToSet(wire') \cup ToSet(Rest') \cup ToSet(buffer') \cup Refusals'
    BY DEF Waiting, Rest, RestOf, Refusals, RefusalsIn
  <2> QED
    BY <1>2, <1>3, <1>5, <1>9, <2>1
<1>11. Placed' /\ OrderOK'
  BY <1>1, <1>9 DEF Placed, OrderOK
<1>12. Typed'
  BY <1>1, <1>3, <1>4, <1>5, <1>9 DEF IInv, Data, Typed
<1>13. Quiet'
  BY <1>1 DEF IInv, Data, Quiet
<1>14. Known'
  BY <1>1, <1>4, <1>5, <1>9 DEF IInv, Data, Known
<1>15. Awaited'
  <2>1. ToSet(Replies') \subseteq Refusals' \cup ToSet(published')
    BY <1>1, <1>3, <1>4 DEF IInv, Data, Awaited
  <2>2. pending' # <<>> => Head(pending') \in ToSet(Replies') \cup ToSet(wire')
    BY <1>4, <1>9 DEF IInv, Data, Awaited
  <2> QED
    BY <2>1, <2>2 DEF Awaited
<1>16. Kept'
  BY <1>1, <1>10 DEF IInv, Data, Kept
<1>17. Buffered'
  <2>1. ToSet(buffer') \cup ToSet(Rest') \subseteq queued' \cup refused' \cup doubted'
    BY <1>1, <1>5, <1>9 DEF IInv, Data, Buffered
  <2>2. channel' /\ pc' # "assert" => channel /\ pc # "assert"
    BY <1>1 DEF GoOn, IInv, ConnectOK
  <2> QED
    BY <1>1, <1>5, <2>1, <2>2 DEF IInv, Data, Buffered
<1> QED
  BY <1>1, <1>10, <1>11, <1>12, <1>13, <1>14, <1>15, <1>16, <1>17 DEF Data

(* What a close leaves                                                       *)
LEMMA ReconnectMoves ==
    ASSUME IInv, Reconnect
    PROVE  /\ UNCHANGED <<next, published, queued, refused>>
           /\ ~ channel' /\ closes' \in 0 .. MaxCloses
           /\ wire' = <<>> /\ confirms' = <<>> /\ pending' = <<>> /\ Rest' = <<>>
           /\ Replies' = <<>> /\ Refusals' = {}
           /\ Quiet' /\ Emitted' = Emitted
           /\ Waiting' = ToSet(buffer')
<1>1. /\ UNCHANGED <<next, published, queued, refused>>
      /\ ~ channel' /\ closes' \in 0 .. MaxCloses
      /\ wire' = <<>> /\ confirms' = <<>> /\ pending' = <<>>
  BY ClosesAssumption DEF Reconnect, IInv, Data, Typed
<1>2. <<>> \in Seq(Messages) /\ <<>> \in Seq(Confirmation) /\ ToSet(<<>>) = {} /\ Len(<<>>) = 0
  BY EmptyFacts
<1>3. Rest' = <<>>
  BY <1>1, <1>2, RestFacts DEF Rest
<1>4. Replies' = <<>>
  <2>1. RepliesTo(<<>>) \in Seq(Messages) /\ Len(RepliesTo(<<>>)) = 0
    BY <1>2, RepliesFacts
  <2>2. RepliesTo(<<>>) = <<>>
    BY <2>1, EmptySeq
  <2> QED
    BY <1>1, <2>2 DEF Replies
<1>5. Refusals' = {}
  BY <1>1, <1>2 DEF Refusals, RefusalsIn
<1>6. Waiting' = ToSet(buffer')
  <2>1. Waiting' = ToSet(wire') \cup ToSet(Rest') \cup ToSet(buffer') \cup Refusals'
    BY DEF Waiting, Rest, RestOf, Refusals, RefusalsIn
  <2> QED
    BY <1>1, <1>2, <1>3, <1>5, <2>1
<1> QED
  BY <1>1, <1>3, <1>4, <1>5, <1>6 DEF Quiet, Emitted

(* The callbacks fail: everything is put back                                *)
LEMMA CloseFailsKeeps ==
    ASSUME IInv, CloseFails
    PROVE  /\ Data' /\ UNCHANGED <<next, published, forgotten>>
           /\ Waiting' = Waiting \cup (ToSet(Replies) \cap ToSet(published))
<1>1. /\ UNCHANGED <<next, published, queued, refused, forgotten>>
      /\ ~ channel' /\ closes' \in 0 .. MaxCloses /\ pc' = "idle"
      /\ wire' = <<>> /\ confirms' = <<>> /\ pending' = <<>> /\ Rest' = <<>>
      /\ Replies' = <<>> /\ Refusals' = {}
      /\ Quiet' /\ Emitted' = Emitted
      /\ Waiting' = ToSet(buffer')
  BY ReconnectMoves DEF CloseFails
<1>2. /\ Replies \in Seq(Messages) /\ Rest \in Seq(Messages)
      /\ Refusals \subseteq ToSet(Replies)
      /\ Waiting = ToSet(wire) \cup ToSet(Rest) \cup ToSet(buffer) \cup Refusals
      /\ buffer \in Seq(Messages) /\ wire \in Seq(Messages) /\ published \in Seq(Messages)
  BY Basics DEF IInv, Data, Typed
<1>3. ToSet(Unconfirmed) = ToSet(Replies) \cup ToSet(wire) /\ Unconfirmed = Replies \o wire
  <2>1. Unconfirmed = Replies \o wire
    BY DEF Unconfirmed, Replies, RepliesTo
  <2> QED
    BY <1>2, <2>1, ConcatFacts
<1>4. /\ buffer' = buffer \o (Replies \o wire) \o Rest
      /\ doubted' = doubted \cup ToSet(Replies) \cup ToSet(wire)
  BY <1>3 DEF CloseFails, Rest, RestOf
<1>5. /\ Separate(<<>>, <<>>, <<>>, buffer') /\ buffer' \in Seq(Messages)
      /\ ToSet(buffer') = ToSet(buffer) \cup ToSet(Replies) \cup ToSet(wire) \cup ToSet(Rest)
  BY <1>2, <1>4, CollectAll DEF IInv, Data, Placed
<1>6. Placed'
  BY <1>1, <1>5 DEF Placed
<1>7. OrderOK'
  <2>1. Late \subseteq Late' /\ ToSet(Replies) \cup ToSet(wire) \subseteq Late'
    BY <1>1, <1>4 DEF Late
  <2>2. InOrder(published, Refusals, wire, Rest, buffer, Late, queued)
    BY DEF IInv, Data, OrderOK
  <2>3. InOrder(published, Refusals, wire, Rest, buffer, Late', queued)
    BY <1>2, <2>1, <2>2, StillInOrder
  <2>4. ToSet(Replies) \subseteq Refusals \cup ToSet(published)
    BY DEF IInv, Data, Awaited
  <2>5. InOrder(published, {}, <<>>, <<>>, buffer \o (Replies \o wire) \o Rest, Late', queued)
    BY <1>2, <2>1, <2>3, <2>4, CollectInOrder
  <2> QED
    BY <1>1, <1>4, <2>5 DEF OrderOK
<1>8. ToSet(<<>>) = {} /\ <<>> \in Seq(Messages) /\ <<>> \in Seq(Confirmation)
  BY EmptyFacts
<1>9. Typed'
  <2>1. ToSet(Replies) \cup ToSet(wire) \subseteq Messages
    BY <1>2, Elements
  <2> QED
    BY <1>1, <1>4, <1>5, <1>8, <2>1 DEF IInv, Data, Typed
<1>10. Known' /\ Awaited'
  BY <1>1, <1>5, <1>8 DEF IInv, Data, Known, Awaited
<1>11. Waiting' = Waiting \cup (ToSet(Replies) \cap ToSet(published))
  BY <1>1, <1>2, <1>5 DEF IInv, Data, Awaited
<1>12. Kept'
  BY <1>1, <1>11 DEF IInv, Data, Kept
<1>13. Buffered'
  BY <1>1, <1>4, <1>5, <1>8 DEF IInv, Data, Buffered
<1> QED
  BY <1>1, <1>6, <1>7, <1>9, <1>10, <1>11, <1>12, <1>13 DEF Data

(* The callbacks are dropped: what was on the channel is forgotten           *)
LEMMA CloseSilentKeeps ==
    ASSUME IInv, CloseSilent
    PROVE  /\ Data' /\ UNCHANGED <<next, published>>
           /\ Waiting' = ToSet(buffer) /\ ToSet(buffer) \subseteq Waiting
           /\ forgotten' = forgotten \cup ToSet(Replies) \cup ToSet(wire) \cup ToSet(Rest)
           /\ Waiting \ ToSet(buffer) = ToSet(wire) \cup ToSet(Rest) \cup Refusals
           /\ ToSet(Replies) \subseteq Refusals \cup ToSet(published)
<1>1. /\ UNCHANGED <<next, published, queued, refused, buffer, doubted>>
      /\ ~ channel' /\ closes' \in 0 .. MaxCloses /\ pc' # "flush"
      /\ wire' = <<>> /\ confirms' = <<>> /\ pending' = <<>> /\ Rest' = <<>>
      /\ Replies' = <<>> /\ Refusals' = {}
      /\ Quiet' /\ Emitted' = Emitted /\ Late' = Late
      /\ Waiting' = ToSet(buffer)
  BY ReconnectMoves DEF CloseSilent, Late
<1>2. /\ Replies \in Seq(Messages) /\ Rest \in Seq(Messages)
      /\ Refusals \subseteq ToSet(Replies)
      /\ Waiting = ToSet(wire) \cup ToSet(Rest) \cup ToSet(buffer) \cup Refusals
      /\ ToSet(pending) = ToSet(Rest) \cup (IF pending = <<>> THEN {} ELSE {Head(pending)})
      /\ buffer \in Seq(Messages) /\ wire \in Seq(Messages) /\ published \in Seq(Messages)
  BY Basics DEF IInv, Data, Typed
<1>3. ToSet(Unconfirmed) = ToSet(Replies) \cup ToSet(wire)
  <2>1. Unconfirmed = Replies \o wire
    BY DEF Unconfirmed, Replies, RepliesTo
  <2> QED
    BY <1>2, <2>1, ConcatFacts
<1>4. forgotten' = forgotten \cup ToSet(Replies) \cup ToSet(wire) \cup ToSet(Rest)
  <2>1. forgotten' = forgotten \cup ToSet(Unconfirmed) \cup ToSet(pending)
    BY DEF CloseSilent
  <2> QED
    BY <1>2, <1>3, <2>1 DEF IInv, Data, Awaited
<1>5. ToSet(<<>>) = {} /\ IsInjective(<<>>) /\ <<>> \in Seq(Messages) /\ <<>> \in Seq(Confirmation)
  BY EmptyFacts
<1>6. Placed'
  BY <1>1, <1>5 DEF IInv, Data, Placed, Separate
<1>7. OrderOK'
  <2>1. Ordered(<<>>, Late, queued)
    BY EmptyOrdered
  <2> QED
    BY <1>1, <1>5, <2>1 DEF IInv, Data, OrderOK, InOrder, Follow
<1>8. Typed'
  <2>1. ToSet(Replies) \cup ToSet(wire) \cup ToSet(Rest) \subseteq Messages
    BY <1>2, Elements
  <2> QED
    BY <1>1, <1>4, <1>5, <2>1 DEF IInv, Data, Typed
<1>9. Known' /\ Awaited'
  <2>1. ToSet(buffer) \cap (ToSet(Replies) \cup ToSet(wire) \cup ToSet(Rest)) = {}
    BY DEF IInv, Data, Placed, Separate
  <2>2. ToSet(Replies) \cup ToSet(wire) \cup ToSet(Rest) \subseteq Emitted
    BY DEF IInv, Data, Known
  <2> QED
    BY <1>1, <1>4, <1>5, <2>1, <2>2 DEF IInv, Data, Known, Awaited
<1>10. Kept'
  BY <1>1, <1>2, <1>4 DEF IInv, Data, Kept
<1>11. Buffered'
  BY <1>1, <1>5 DEF IInv, Data, Buffered
<1>12. Waiting \ ToSet(buffer) = ToSet(wire) \cup ToSet(Rest) \cup Refusals
  BY <1>2 DEF IInv, Data, Placed, Separate
<1> QED
  BY <1>1, <1>2, <1>4, <1>6, <1>7, <1>8, <1>9, <1>10, <1>11, <1>12 DEF Data, IInv, Awaited

-----------------------------------------------------------------------------
(* The theorems                                                              *)

LEMMA InitHolds ==
    ASSUME Init
    PROVE  IInv
<1>1. /\ <<>> \in Seq(Messages) /\ <<>> \in Seq(Confirmation)
      /\ ToSet(<<>>) = {} /\ IsInjective(<<>>) /\ Len(<<>>) = 0
  BY EmptyFacts
<1>2. ConnectOK
  BY DEF Init, ConnectOK, NeverStranded, Steps
<1>3. Rest = <<>>
  BY <1>1, RestFacts DEF Init, Rest
<1>4. Replies = <<>>
  <2>1. RepliesTo(<<>>) \in Seq(Messages) /\ Len(RepliesTo(<<>>)) = 0
    BY <1>1, RepliesFacts
  <2> QED
    BY <2>1, EmptySeq DEF Init, Replies
<1>5. Refusals = {}
  BY <1>1 DEF Init, Refusals, RefusalsIn
<1>6. Emitted = {}
  <2>1. \A i \in Bridged : ~ (i < 1)
    BY EventsAssumption DEF Bridged
  <2> QED
    BY <2>1 DEF Init, Emitted
<1>7. Typed
  <2>1. 1 \in 1 .. Len(Events) + 1
    BY EventsAssumption
  <2> QED
    BY <1>1, <2>1, ClosesAssumption DEF Init, Typed
<1>8. Placed /\ Quiet /\ Known /\ Awaited /\ Kept /\ Buffered
  BY <1>1, <1>3, <1>4, <1>5, <1>6
  DEF Init, Placed, Separate, Quiet, Known, Awaited, Kept, Buffered
<1>9. OrderOK
  BY <1>1, <1>3, <1>5, EmptyOrdered DEF Init, OrderOK, InOrder, Follow
<1> QED
  BY <1>2, <1>7, <1>8, <1>9 DEF IInv, Data

LEMMA InvariantKept == IInv /\ [Next]_vars => IInv'
<1> SUFFICES ASSUME IInv, [Next]_vars PROVE IInv'
  OBVIOUS
<1>1. ConnectOK'
  BY StepKeeps DEF IInv
<1>2. CASE UNCHANGED vars
  <2>1. /\ UNCHANGED <<next, pc, channel, closes, buffer, pending, wire, confirms, published>>
        /\ UNCHANGED <<queued, refused, doubted, forgotten>>
    BY <1>2 DEF vars, connection, traffic, history
  <2>2. /\ Rest' = Rest /\ Replies' = Replies /\ Refusals' = Refusals
        /\ Emitted' = Emitted /\ Waiting' = Waiting /\ Late' = Late
    BY <2>1 DEF Rest, Replies, Refusals, Emitted, Waiting, Late
  <2>3. Data'
    BY <2>1, <2>2
    DEF IInv, Data, Typed, Quiet, Placed, Known, Awaited, Kept, OrderOK, Buffered
  <2> QED
    BY <1>1, <2>3 DEF IInv
<1> QED
  BY <1>1, <1>2, EmitKeeps, ConnectingKeeps, AssertOkKeeps, ReceiveKeeps, AckKeeps, NackKeeps,
     CloseFailsKeeps, CloseSilentKeeps
  DEF Next, IInv

LEMMA InvariantHolds == Spec => []IInv
BY InitHolds, InvariantKept, PTL DEF Spec

(* Every variable keeps its type: there is a channel in just the last steps  *)
(* of connect and after it, and flushBuffer is awaited just while it has a   *)
(* batch.                                                                    *)
THEOREM TypesCorrect == Spec => []TypeOK
<1>1. IInv => TypeOK
  BY DEF IInv, ConnectOK, Steps, Data, Typed, TypeOK, Confirmation
<1> QED
  BY <1>1, InvariantHolds, PTL

(* For every sequence of events, confirms, refusals and closes, no bridged   *)
(* event is dropped on its way between the buffer, a batch, the channel and  *)
(* the broker, except by a callback that is never called.                    *)
THEOREM EventsNeverVanish == Spec => []NothingVanishes
<1>1. ASSUME IInv PROVE NothingVanishes
  <2>1. Emitted \subseteq ToSet(published) \cup Waiting \cup forgotten
    BY <1>1 DEF IInv, Data, Kept
  <2>2. /\ Waiting = ToSet(wire) \cup ToSet(Rest) \cup ToSet(buffer) \cup Refusals
        /\ ToSet(Rest) \subseteq ToSet(pending)
    BY <1>1, Basics DEF IInv, Data
  <2>3. Refusals = {c.message : c \in {c \in ToSet(confirms) : ~ c.ok}}
    BY DEF Refusals, RefusalsIn
  <2>4. \A i \in Bridged : i < next => Message(i) \in Emitted
    BY DEF Emitted
  <2> QED
    BY <2>1, <2>2, <2>3, <2>4 DEF NothingVanishes
<1> QED
  BY <1>1, InvariantHolds, PTL

(* For every sequence of events and any number of lost connections, the      *)
(* broker accepts events in the order of their emit, with the three excuses  *)
(* that OrderKept names.                                                     *)
THEOREM OrderIsKept == Spec => []OrderKept
<1>1. ASSUME IInv PROVE OrderKept
  <2> SUFFICES ASSUME NEW i \in 1 .. Len(published), NEW j \in 1 .. Len(published),
                      i < j, published[j].payload < published[i].payload
               PROVE  \/ published[j] \in refused \cup doubted
                      \/ published[j] \in queued /\ published[i] \notin queued
    BY DEF OrderKept
  <2>1. Excused(published[i], published[j], Late, queued)
    BY <1>1 DEF IInv, Data, OrderOK, InOrder, Ordered
  <2>2. published[i] \in Emitted /\ published[j] \in Emitted
    BY <1>1, Elements DEF IInv, Data, Typed, Known
  <2>3. published[i].payload \in Nat /\ published[j].payload \in Nat
    BY <1>1, <2>2, EmittedFacts DEF IInv, Data, Typed
  <2> QED
    BY <2>1, <2>3 DEF Excused, Late
<1> QED
  BY <1>1, InvariantHolds, PTL

LEMMA StepImplements ==
    ASSUME IInv, [Next]_vars
    PROVE  [Abstract!Next]_Abstract!vars
<1>1. /\ Emitted \subseteq Messages /\ Waiting \subseteq Messages
      /\ \A m \in Emitted : m.payload < next
      /\ next \in Bridged => Message(next) \in Messages /\ Message(next).payload = next
      /\ next' = next => Emitted' = Emitted
      /\ next' = next + 1 =>
            Emitted' = Emitted \cup IF next \in Bridged THEN {Message(next)} ELSE {}
      /\ next \in Nat
  <2>1. Waiting \subseteq Emitted
    BY Basics DEF IInv, Data, Known
  <2> QED
    BY <2>1, EmittedFacts, EventsAssumption DEF IInv, Data, Typed
<1>2. ASSUME UNCHANGED <<next, published, forgotten, Waiting>>
      PROVE  [Abstract!Next]_Abstract!vars
  BY <1>2 DEF Abstract!vars
<1>3. CASE Emit
  <2>1. /\ next' = next + 1 /\ UNCHANGED <<published, forgotten>>
        /\ Waiting' = Waiting \cup IF next \in Bridged THEN {Message(next)} ELSE {}
    BY <1>3, EmitKeeps DEF Emit
  <2>2. CASE next \in Bridged
    <3> DEFINE e == Message(next)
    <3>1. /\ Emitted' = Emitted \cup {e} /\ e \notin Emitted /\ e \in Messages
          /\ Waiting' = Waiting \cup {e}
      BY <1>1, <2>1, <2>2
    <3> HIDE DEF e
    <3>2. Abstract!Accept(e)
      BY <2>1, <3>1 DEF Abstract!Accept, Emitted
    <3>3. \E x \in Messages : Abstract!Accept(x)
      BY <3>1, <3>2, Zenon DEF Abstract!Accept
    <3> QED
      BY <3>3, Zenon DEF Abstract!Next
  <2>3. CASE next \notin Bridged
    <3>1. Emitted' = Emitted /\ Waiting' = Waiting
      BY <1>1, <2>1, <2>3
    <3> QED
      BY <2>1, <3>1 DEF Abstract!vars, Emitted
  <2> QED
    BY <2>2, <2>3
<1>4. CASE Receive
  <2>1. CASE UNCHANGED <<published, Waiting>>
    BY <1>2, <1>4, <2>1, ReceiveKeeps
  <2>2. CASE /\ Head(wire) \in Waiting
             /\ published' = Append(published, Head(wire))
             /\ Waiting' = Waiting \ {Head(wire)}
    <3> DEFINE h == Head(wire)
    <3>1. UNCHANGED <<next, forgotten>> /\ Emitted' = Emitted
      BY <1>1, <1>4, ReceiveKeeps
    <3>2. /\ ToSet(published') = ToSet(published) \cup {h}
          /\ h \in ToSet(wire) /\ h \in Messages
      BY <1>4, <2>2, AppendFacts, TailFacts DEF IInv, Data, Typed, Receive
    <3>3. /\ h \in Waiting /\ published' = Append(published, h) /\ Waiting' = Waiting \ {h}
      BY <2>2
    <3> HIDE DEF h
    <3>4. forgotten' \ ToSet(published') = forgotten \ ToSet(published)
      BY <3>1, <3>2 DEF IInv, Data, Known
    <3>5. Abstract!Deliver(h)
      BY <3>1, <3>3, <3>4 DEF Abstract!Deliver, Emitted
    <3> QED
      BY <3>2, <3>5 DEF Abstract!Next
  <2> QED
    BY <1>4, <2>1, <2>2, ReceiveKeeps
<1>5. CASE CloseFails
  <2> DEFINE moved == ToSet(Replies) \cap ToSet(published)
  <2>1. /\ UNCHANGED <<next, published, forgotten>> /\ Emitted' = Emitted
        /\ Waiting' = Waiting \cup moved
    BY <1>1, <1>5, CloseFailsKeeps
  <2>2. moved \in SUBSET Messages
    BY <1>1 DEF IInv, Data, Known
  <2>4. moved \subseteq ToSet(published)
    OBVIOUS
  <2> HIDE DEF moved
  <2>3. \E x \in SUBSET Messages : Abstract!Doubt(x)
    <3> WITNESS moved \in SUBSET Messages
    <3> QED
      BY <2>1, <2>4 DEF Abstract!Doubt, Abstract!ToSet, ToSet, Emitted
  <2> QED
    BY <2>3, Zenon DEF Abstract!Next
<1>6. CASE CloseSilent
  <2> DEFINE moved == Waiting \ ToSet(buffer)
  <2>1. /\ UNCHANGED <<next, published>> /\ Emitted' = Emitted
        /\ Waiting' = Waiting \ moved /\ moved \subseteq Waiting
    BY <1>1, <1>6, CloseSilentKeeps
  <2>2. moved \in SUBSET Messages
    BY <1>1
  <2>4. /\ forgotten' = forgotten \cup ToSet(Replies) \cup ToSet(wire) \cup ToSet(Rest)
        /\ moved = ToSet(wire) \cup ToSet(Rest) \cup Refusals
        /\ ToSet(Replies) \subseteq Refusals \cup ToSet(published)
        /\ Refusals \subseteq ToSet(Replies)
    BY <1>6, CloseSilentKeeps, Basics DEF IInv, Data
  <2> HIDE DEF moved
  <2>5. forgotten' \ ToSet(published)
          = (forgotten \ ToSet(published)) \cup (moved \ ToSet(published))
    BY <2>4
  <2>6. \E x \in SUBSET Messages : Abstract!GiveUp(x)
    <3> WITNESS moved \in SUBSET Messages
    <3> QED
      BY <2>1, <2>5 DEF Abstract!GiveUp, Abstract!ToSet, ToSet, Emitted
  <2> QED
    BY <2>6, Zenon DEF Abstract!Next
<1>7. CASE TimerFires \/ DialOk \/ DialFails \/ ChannelOk
  <2>1. UNCHANGED <<next, published, forgotten, Waiting>>
    BY <1>7, ConnectingKeeps DEF TimerFires, DialOk, DialFails, ChannelOk, traffic, history
  <2> QED
    BY <1>2, <2>1
<1>8. CASE UNCHANGED vars
  <2>1. UNCHANGED <<next, published, forgotten, Waiting>>
    BY <1>8 DEF vars, traffic, history, Waiting
  <2> QED
    BY <1>2, <2>1
<1> QED
  BY <1>2, <1>3, <1>4, <1>5, <1>6, <1>7, <1>8, AssertOkKeeps, AckKeeps, NackKeeps DEF Next

(* Messaging implements Outbox, for every sequence of events and any number  *)
(* of lost connections: each step accepts a bridged event, delivers one,     *)
(* doubts deliveries that no confirm answered, gives up what the library     *)
(* forgot, or only moves messages between the places where they wait.        *)
THEOREM MessagingImplements == Spec => ImplementsOutbox
<1>1. Init => Abstract!Init
  <2> SUFFICES ASSUME Init PROVE Abstract!Init
    OBVIOUS
  <2>1. \A i \in Bridged : ~ (i < 1)
    BY EventsAssumption DEF Bridged
  <2>2. Waiting = {}
    <3>1. /\ Waiting = ToSet(wire) \cup ToSet(Rest) \cup ToSet(buffer) \cup Refusals
          /\ pending = <<>> => Rest = <<>>
      BY InitHolds, Basics DEF IInv, Data
    <3>2. Refusals = {}
      BY EmptyFacts DEF Init, Refusals, RefusalsIn
    <3> QED
      BY <3>1, <3>2, EmptyFacts DEF Init
  <2> QED
    BY <2>1, <2>2, EmptyFacts DEF Init, Abstract!Init
<1>2. IInv /\ [Next]_vars => [Abstract!Next]_Abstract!vars
  BY StepImplements
<1> QED
  BY <1>1, <1>2, InvariantHolds, PTL DEF Spec, ImplementsOutbox, Abstract!Spec
=============================================================================
