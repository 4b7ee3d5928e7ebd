---------------------------- MODULE MessageStatus ----------------------------
(***************************************************************************)
(* What a conversation promises about the status of its messages, without  *)
(* the requests, queries and sockets that Chat implements it with.         *)
(*                                                                         *)
(* A message is stored, may be marked delivered, and is seen by the other  *)
(* participant: each of these is one step that the database takes at once, *)
(* and none is ever taken back.  Its sender may be told late, twice, in    *)
(* another order or not at all, but never of what has not happened yet.    *)
(***************************************************************************)
EXTENDS Integers

CONSTANTS
    Participants,
    Messages,
    Sender          \* the sender of each message

VARIABLES
    open,       \* the conversation exists
    status,     \* of each message: 0 not stored, 1 SENT, 2 DELIVERED, 3 SEEN
    told        \* the status its sender was told last, 0 for none

vars == <<open, status, told>>

Unknown == [m \in Messages |-> 0]

Init ==
    /\ open = TRUE
    /\ status = Unknown
    /\ told = Unknown

Store(m) ==
    /\ open /\ status[m] = 0
    /\ status' = [status EXCEPT ![m] = 1]
    /\ UNCHANGED <<open, told>>

Deliver(m) ==
    /\ status[m] = 1
    /\ status' = [status EXCEPT ![m] = 2]
    /\ UNCHANGED <<open, told>>

(* A reader sees a batch of the other's messages                             *)
See(reader, batch) ==
    /\ \A m \in batch : Sender[m] # reader /\ status[m] \in {1, 2}
    /\ status' = [m \in Messages |-> IF m \in batch THEN 3 ELSE status[m]]
    /\ UNCHANGED <<open, told>>

(* The sender of a batch is told a status that its messages have reached     *)
TellSender(sender, batch, s) ==
    /\ \A m \in batch : Sender[m] = sender /\ s <= status[m]
    /\ told' = [m \in Messages |-> IF m \in batch THEN s ELSE told[m]]
    /\ UNCHANGED <<open, status>>

(* The conversation is gone, and its messages with it                        *)
Close ==
    /\ open
    /\ open' = FALSE
    /\ status' = Unknown
    /\ told' = Unknown

Next ==
    \/ \E m \in Messages : Store(m) \/ Deliver(m)
    \/ \E u \in Participants, batch \in SUBSET Messages :
          See(u, batch) \/ \E s \in 1 .. 3 : TellSender(u, batch, s)
    \/ Close

Spec == Init /\ [][Next]_vars
=============================================================================
