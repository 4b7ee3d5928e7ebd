------------------------------- MODULE Outbox -------------------------------
(***************************************************************************)
(* What the path to the broker promises, without channels, buffers, timers *)
(* and confirms: an outbox that delivers each message it has accepted once, *)
(* and again only when it had reason to doubt a delivery.  Messaging       *)
(* implements it.                                                          *)
(***************************************************************************)
EXTENDS Sequences, SequencesExt

CONSTANT Messages

VARIABLES
    accepted,       \* messages handed over by the application
    outstanding,    \* messages that are still to be delivered
    published,      \* deliveries, in order
    lost            \* messages that will never be delivered

vars == <<accepted, outstanding, published, lost>>

Init ==
    /\ accepted = {}
    /\ outstanding = {}
    /\ published = <<>>
    /\ lost = {}

Accept(m) ==
    /\ m \notin accepted
    /\ accepted' = accepted \cup {m}
    /\ outstanding' = outstanding \cup {m}
    /\ UNCHANGED <<published, lost>>

Deliver(m) ==
    /\ m \in outstanding
    /\ outstanding' = outstanding \ {m}
    /\ published' = Append(published, m)
    /\ UNCHANGED <<accepted, lost>>

(* Deliveries that were not confirmed in time will be made again             *)
Doubt(batch) ==
    /\ batch \subseteq ToSet(published)
    /\ outstanding' = outstanding \cup batch
    /\ UNCHANGED <<accepted, published, lost>>

(* Messages are given up; those that were delivered before are not lost      *)
GiveUp(batch) ==
    /\ batch \subseteq outstanding
    /\ outstanding' = outstanding \ batch
    /\ lost' = lost \cup (batch \ ToSet(published))
    /\ UNCHANGED <<accepted, published>>

Next ==
    \/ \E m \in Messages : Accept(m) \/ Deliver(m)
    \/ \E batch \in SUBSET Messages : Doubt(batch) \/ GiveUp(batch)

Spec == Init /\ [][Next]_vars
=============================================================================
