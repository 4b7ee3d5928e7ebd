------------------------------- MODULE Typing -------------------------------
(***************************************************************************)
(* The typing indicator of one user in one conversation: TypingService and *)
(* the gateway handlers around it.                                         *)
(*                                                                         *)
(* TypingService keeps an entry per user and conversation, with a timer.   *)
(* Every event the gateway forwards first looks the other participant up   *)
(* in the database; several lookups may be in flight, and the connections  *)
(* of the pool answer them in any order.  What is then sent to the other   *)
(* participant is dropped when that user has no socket, and never repeated.*)
(*                                                                         *)
(* disturbed is a history variable that no action reads.                   *)
(***************************************************************************)
EXTENDS Integers, Sequences, SequencesExt

CONSTANTS
    Debounce,      \* DEBOUNCE_MS, in ticks of half a second: 4
    AutoStop,      \* AUTO_STOP_MS, in ticks: 6
    MaxLookups     \* bound on the lookups in flight

ASSUME TimesAssumption == Debounce \in Nat /\ AutoStop \in Nat /\ Debounce < AutoStop
ASSUME LookupsAssumption == MaxLookups \in Nat \ {0}

VARIABLES
    entry,       \* NoEntry, or ticks since lastTypingAt and ticks to the timer
    lookups,     \* the isTyping values whose recipient is being looked up
    indicator,   \* what the other participant was last told
    connected,   \* whether the other participant's room has a socket
    writing,     \* FALSE once the user has sent the last typing event
    disturbed    \* history: the newest lookup was a stop's, and overtook another or was lost

typingVars == <<entry, lookups, indicator, connected, writing, disturbed>>

-----------------------------------------------------------------------------
NoEntry == [idle |-> -1, timer |-> -1]

TypingInit ==
    /\ entry = NoEntry
    /\ lookups = <<>>
    /\ indicator = FALSE
    /\ connected = FALSE
    /\ writing = TRUE
    /\ disturbed = FALSE

Forward(isTyping) ==
    /\ Len(lookups) < MaxLookups
    /\ lookups' = Append(lookups, isTyping)

(* Bug: any new event restarts the session, but its timer is not armed       *)
StartTypingUnarmed ==
    /\ writing
    /\ Forward(TRUE)
    /\ entry' = [idle |-> 0, timer |-> IF entry = NoEntry THEN AutoStop ELSE -1]
    /\ UNCHANGED <<indicator, connected, writing, disturbed>>

(* Bug: a debounced event rearms the timer but leaves lastTypingAt alone     *)
StartTypingRearmed ==
    /\ writing
    /\ Forward(TRUE)
    /\ entry' = [idle |-> IF entry # NoEntry /\ entry.idle < Debounce THEN entry.idle ELSE 0,
                 timer |-> AutoStop]
    /\ UNCHANGED <<indicator, connected, writing, disturbed>>

(* handleTyping(true): within the debounce window the timer is left running  *)
StartTyping ==
    /\ writing
    /\ Forward(TRUE)
    /\ entry' = [idle |-> 0,
                 timer |-> IF entry # NoEntry /\ entry.idle < Debounce
                             THEN entry.timer ELSE AutoStop]
    /\ UNCHANGED <<indicator, connected, writing, disturbed>>

(* Bug: the stop is forwarded only when no session is active                 *)
StopTypingKept ==
    /\ writing
    /\ IF entry = NoEntry THEN Forward(FALSE) ELSE UNCHANGED lookups
    /\ entry' = NoEntry
    /\ UNCHANGED <<indicator, connected, writing, disturbed>>

(* handleTyping(false)                                                       *)
StopTyping ==
    /\ writing
    /\ Forward(FALSE)
    /\ entry' = NoEntry
    /\ UNCHANGED <<indicator, connected, writing, disturbed>>

(* The user falls silent without a last event                                *)
Leave ==
    /\ writing
    /\ writing' = FALSE
    /\ UNCHANGED <<entry, lookups, indicator, connected, disturbed>>

(* handleDisconnect of any of the user's sockets                             *)
HandleDisconnect ==
    /\ entry # NoEntry
    /\ Forward(FALSE)
    /\ entry' = NoEntry
    /\ UNCHANGED <<indicator, connected, writing, disturbed>>

TimerFires ==
    /\ entry.timer = 0
    /\ Forward(FALSE)
    /\ entry' = NoEntry
    /\ UNCHANGED <<indicator, connected, writing, disturbed>>

(* The sockets of the other participant come and go                          *)
RecipientSockets ==
    /\ connected' = ~ connected
    /\ UNCHANGED <<entry, lookups, indicator, writing, disturbed>>

NewestStop(i) == i = Len(lookups) /\ ~ lookups[i]

(* getOtherParticipantId answers, and sendToUser follows: it does nothing    *)
(* for a user without a socket                                               *)
Answer(i) ==
    /\ i \in 1 .. Len(lookups)
    /\ indicator' = IF connected THEN lookups[i] ELSE indicator
    /\ lookups' = RemoveAt(lookups, i)
    /\ disturbed' = (disturbed \/ (NewestStop(i) /\ (i > 1 \/ ~ connected)))
    /\ UNCHANGED <<entry, connected, writing>>

(* The lookup rejects, or finds no conversation                              *)
LookupFails(i) ==
    /\ i \in 1 .. Len(lookups)
    /\ lookups' = RemoveAt(lookups, i)
    /\ disturbed' = (disturbed \/ NewestStop(i))
    /\ UNCHANGED <<entry, indicator, connected, writing>>

(* Half a second passes; a timer that is due fires first                     *)
Elapse ==
    /\ entry # NoEntry
    /\ entry.timer > 0
    /\ entry' = [idle |-> IF entry.idle < AutoStop THEN entry.idle + 1 ELSE AutoStop,
                 timer |-> entry.timer - 1]
    /\ UNCHANGED <<lookups, indicator, connected, writing, disturbed>>

TypingNext ==
    \/ StartTyping \/ StopTyping \/ Leave \/ HandleDisconnect \/ TimerFires \/ Elapse
    \/ RecipientSockets
    \/ \E i \in 1 .. MaxLookups : Answer(i) \/ LookupFails(i)

TypingSpec == TypingInit /\ [][TypingNext]_typingVars

(* Time passes, Node runs a timer that is due, the database answers          *)
FairSpec == TypingSpec /\ WF_typingVars(Elapse) /\ WF_typingVars(TimerFires) /\ WF_typingVars(\E i \in 1 .. MaxLookups : Answer(i))

-----------------------------------------------------------------------------
(* Correctness                                                               *)

TypingTypeOK ==
    /\ entry \in {NoEntry} \cup [idle: 0 .. AutoStop, timer: 0 .. AutoStop]
    /\ lookups \in SeqOf(BOOLEAN, MaxLookups)
    /\ indicator \in BOOLEAN
    /\ connected \in BOOLEAN
    /\ writing \in BOOLEAN
    /\ disturbed \in BOOLEAN

(* The auto-stop never comes later than AUTO_STOP_MS after the last event,   *)
(* whatever restarts and debounced events came before.                       *)
AutoStopNotLate == entry # NoEntry => entry.timer + entry.idle <= AutoStop

(* An indicator that is on, or will be turned on, will be turned off: by the *)
(* session's timer, or by a stop that is on its way behind it.  Only the     *)
(* newest stop can leave it on: when its lookup fails or overtakes another,  *)
(* or when the other participant has no socket as it is sent.                *)
IndicatorCovered ==
    LET told == <<indicator>> \o lookups
    IN  disturbed \/ (Last(told) => entry # NoEntry)

(* Once the user has fallen silent, the indicator goes off for good, unless  *)
(* the newest stop overtook another lookup or was lost.                      *)
IndicatorGoesOff == ~ writing ~> [] (disturbed \/ ~ indicator)
=============================================================================
