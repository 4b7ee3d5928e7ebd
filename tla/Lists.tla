------------------------------- MODULE Lists --------------------------------
(***************************************************************************)
(* One client reads one list page by page while rows come, go and move,    *)
(* and is pushed the new rows of the lists that are pushed.                *)
(*                                                                         *)
(* The lists differ in how they are read and in what happens to a row:     *)
(*   messages of a conversation: newest first, by a cursor; pushed         *)
(*   notifications: by an offset; pushed                                   *)
(*   posts, likes, followers, accounts followed, brands, feed items: by an *)
(*     offset; a row may be deleted                                        *)
(*   conversations: by an offset; a row may be deleted by a cascade, and   *)
(*     moves to the date of each message, whichever was written last       *)
(* Messages and notifications go only with all the others of their list.   *)
(*                                                                         *)
(* A row's key is the column its list is ordered by, in ticks of a         *)
(* microsecond, Milli to the millisecond.  createdAt is the start of the   *)
(* INSERT, so a row may be committed after a row of a later date.          *)
(*                                                                         *)
(* through, entered, departed and blurred are history variables.           *)
(***************************************************************************)
EXTENDS Integers, FiniteSets, FiniteSetsExt

CONSTANTS
    Rows,        \* ids, numbers in the order Postgres compares them
    Limit,       \* of a page
    Milli,       \* ticks in a millisecond
    LastTick,    \* bound on the clock
    MaxEntered   \* bound on the moves: none follows so many that came in ahead

ASSUME RowsAssumption == Rows \subseteq Nat /\ IsFiniteSet(Rows)
ASSUME LimitAssumption == Limit \in Nat \ {0}
ASSUME ClockAssumption == Milli \in Nat \ {0} /\ LastTick \in Nat /\ Milli <= LastTick
ASSUME MovesAssumption == MaxEntered \in Nat

VARIABLES
    list,        \* which list this is
    now,
    state,       \* of each row: what its INSERT and its handler have done
    key,
    online,      \* the client has a socket in its user's room
    pushed,      \* rows it was pushed on this connection
    reading,     \* "idle", "reading", "done"
    offset,      \* rows it has been given so far
    cursor,      \* <<milliseconds, id>>, or NoCursor
    got,         \* how often a page had each row
    through,     \* history: rows listed ever since the first page
    entered,     \* history: how many rows came in ahead of one that was read
    departed,    \* history: a row left from ahead of one that was read
    blurred      \* history: rows its order did not tell apart, when it was read

rowVars == <<state, key>>
client == <<online, pushed>>
reader == <<reading, offset, cursor, got>>
history == <<through, entered, departed, blurred>>
vars == <<list, now, rowVars, client, reader, history>>

-----------------------------------------------------------------------------
Cursored == {"messages"}
Pushed == {"messages", "notifications"}
Moving == {"conversations"}
Leaving == {"posts", "conversations"}
AllLists == Cursored \cup Pushed \cup Leaving \cup Moving

NoCursor == <<>>

Listed == {x \in Rows : state[x] \in {"stored", "done", "lost"}}

(* ORDER BY the key DESC, and by id DESC where there is a cursor             *)
Before(x, y) == key[x] > key[y] \/ (key[x] = key[y] /\ x > y)

(* The first n of a set of rows                                              *)
First(n, rows) == {x \in rows : Cardinality({y \in rows : Before(y, x)}) < n}

LastOf(rows) == CHOOSE x \in rows : \A y \in rows : y = x \/ Before(y, x)

(* A position the reader has passed: some row it was given is not newer      *)
Passed(at) == reading = "reading" /\ \E x \in Rows : got[x] > 0 /\ key[x] <= at

(* The rows there are of an earlier millisecond                              *)
Init ==
    /\ list \in AllLists
    /\ now = Milli
    /\ state \in [Rows -> {"none", "done"}]
    /\ key = [x \in Rows |-> 0]
    /\ online = FALSE
    /\ pushed = {}
    /\ reading = "idle"
    /\ offset = 0
    /\ cursor = NoCursor
    /\ got = [x \in Rows |-> 0]
    /\ through = {}
    /\ entered = 0
    /\ departed = FALSE
    /\ blurred = {}

-----------------------------------------------------------------------------
(* Rows: an INSERT begins, and is committed; a handler that has stored its   *)
(* row reads it back and pushes it.                                          *)

Tick ==
    /\ now < LastTick
    /\ now' = now + 1
    /\ UNCHANGED <<list, rowVars, client, reader, history>>

(* A new conversation has no date and comes last, as with 0                  *)
Insert(x) ==
    /\ state[x] = "none"
    /\ state' = [state EXCEPT ![x] = "inserting"]
    /\ key' = [key EXCEPT ![x] = IF list \in Moving THEN 0 ELSE now]
    /\ UNCHANGED <<list, now, client, reader, history>>

(* Bug: the INSERT is not awaited, so that no row is there to be pushed yet  *)
CommitUnawaited(x) ==
    /\ state[x] = "inserting"
    /\ state' = [state EXCEPT ![x] = "done"]
    /\ entered' = IF Passed(key[x]) THEN entered + 1 ELSE entered
    /\ UNCHANGED <<list, now, key, client, reader, through, departed, blurred>>

Commit(x) ==
    /\ state[x] = "inserting"
    /\ state' = [state EXCEPT ![x] = IF list \in Pushed THEN "stored" ELSE "done"]
    /\ entered' = IF Passed(key[x]) THEN entered + 1 ELSE entered
    /\ UNCHANGED <<list, now, key, client, reader, through, departed, blurred>>

(* sendToUser: a no-op for a user without a socket.  The handler may fail    *)
(* before, on the query that reads the row back.                             *)
Push(x) ==
    /\ state[x] = "stored"
    /\ \/ /\ state' = [state EXCEPT ![x] = "done"]
          /\ pushed' = IF online THEN pushed \cup {x} ELSE pushed
       \/ /\ state' = [state EXCEPT ![x] = "lost"]
          /\ UNCHANGED pushed
    /\ UNCHANGED <<list, now, key, online, reader, history>>

Delete(x) ==
    /\ list \in Leaving /\ x \in Listed
    /\ state' = [state EXCEPT ![x] = "left"]
    /\ through' = through \ {x}
    /\ departed' = (departed \/ Passed(key[x]))
    /\ UNCHANGED <<list, now, key, client, reader, entered, blurred>>

(* The dates a message may have had, cut to the millisecond; 0 is no date    *)
Dates == {t \in 1 .. now : t % Milli = 0}

MoveTo(x, at) ==
    /\ list \in Moving /\ x \in Listed /\ at # key[x] /\ entered < MaxEntered
    /\ key' = [key EXCEPT ![x] = at]
    /\ through' = through \ {x}
    /\ entered' = IF key[x] < at /\ Passed(at) THEN entered + 1 ELSE entered
    /\ departed' = (departed \/ Passed(key[x]))
    /\ UNCHANGED <<list, now, state, client, reader, blurred>>

(* Bug: the conversation is dated by its sender's clock, which may be fast   *)
MoveBySender(x) == \E at \in Dates \cup {now + 1} : MoveTo(x, at)

(* updateLastMessageAt writes the message's own createdAt, at any time after *)
(* its INSERT and whatever date is there: the row moves up or down           *)
Move(x) == \E at \in Dates : MoveTo(x, at)

-----------------------------------------------------------------------------
(* The client: it connects, then loads the list, page after page             *)

Connect ==
    /\ ~ online /\ list \in Pushed
    /\ online' = TRUE
    /\ UNCHANGED <<list, now, rowVars, pushed, reader, history>>

Disconnect ==
    /\ online
    /\ online' = FALSE
    /\ pushed' = {}
    /\ reading' = "idle"
    /\ offset' = 0
    /\ cursor' = NoCursor
    /\ got' = [x \in Rows |-> 0]
    /\ through' = {}
    /\ entered' = 0
    /\ departed' = FALSE
    /\ blurred' = {}
    /\ UNCHANGED <<list, now, rowVars>>

Load ==
    /\ reading = "idle"
    /\ list \in Pushed => online
    /\ reading' = "reading"
    /\ through' = Listed
    /\ UNCHANGED <<list, now, rowVars, client, offset, cursor, got, entered, departed, blurred>>

(* A cursor does not tell a row from a newer one of the same millisecond, an *)
(* offset not from one of the same key                                       *)
Blurred ==
    {x \in Listed : \E y \in Listed \ {x} :
        IF list \in Cursored THEN key[y] \div Milli = key[x] \div Milli /\ Before(y, x)
        ELSE key[y] = key[x]}

Receive(page) ==
    /\ got' = [x \in Rows |-> IF x \in page THEN got[x] + 1 ELSE got[x]]
    /\ offset' = offset + Cardinality(page)
    /\ blurred' = blurred \cup Blurred
    /\ UNCHANGED <<list, now, rowVars, client, through, entered, departed>>

(* Bug: the cursor is taken from the row that was fetched to see if there is *)
(* another page                                                              *)
FindPastExtra ==
    LET rows == {x \in Listed : cursor = NoCursor \/
                     \/ key[x] < cursor[1] * Milli
                     \/ key[x] = cursor[1] * Milli /\ x < cursor[2]}
        fetched == First(Limit + 1, rows)
        hasMore == Cardinality(fetched) = Limit + 1
    IN  /\ list \in Cursored /\ reading = "reading"
        /\ Receive(First(Limit, fetched))
        /\ reading' = IF hasMore THEN "reading" ELSE "done"
        /\ cursor' = IF hasMore THEN <<key[LastOf(fetched)] \div Milli, LastOf(fetched)>>
                     ELSE NoCursor

(* The cursor holds the last row's date cut to the millisecond, and its id   *)
FindByConversation ==
    LET rows == {x \in Listed : cursor = NoCursor \/
                     \/ key[x] < cursor[1] * Milli
                     \/ key[x] = cursor[1] * Milli /\ x < cursor[2]}
        fetched == First(Limit + 1, rows)
        items == First(Limit, fetched)
        hasMore == Cardinality(fetched) = Limit + 1
    IN  /\ list \in Cursored /\ reading = "reading"
        /\ Receive(items)
        /\ reading' = IF hasMore THEN "reading" ELSE "done"
        /\ cursor' = IF hasMore THEN <<key[LastOf(items)] \div Milli, LastOf(items)>>
                     ELSE NoCursor

(* Rows of one key come in any order, and not in the same for each query     *)
Page(skip, page) ==
    \E ahead \in kSubset(Min({skip, Cardinality(Listed)}), Listed) :
        LET rest == Listed \ ahead
        IN  /\ page \subseteq rest
            /\ Cardinality(page) = Min({Limit, Cardinality(rest)})
            /\ \A x \in ahead, y \in page : key[x] >= key[y]
            /\ \A x \in page, y \in rest \ page : key[x] >= key[y]

(* take and skip; the client goes on until a page is short                   *)
FindByOffset ==
    /\ list \notin Cursored /\ reading = "reading"
    /\ \E page \in SUBSET Listed :
         /\ Page(offset, page)
         /\ Receive(page)
         /\ reading' = IF Cardinality(page) < Limit THEN "done" ELSE "reading"
    /\ UNCHANGED cursor

Next ==
    \/ Tick
    \/ \E x \in Rows : Insert(x) \/ Commit(x) \/ Push(x) \/ Delete(x) \/ Move(x)
    \/ Connect \/ Disconnect \/ Load \/ FindByConversation \/ FindByOffset

Spec == Init /\ [][Next]_vars

-----------------------------------------------------------------------------
(* Correctness                                                               *)

TypeOK ==
    /\ list \in AllLists
    /\ now \in 0 .. LastTick
    /\ state \in [Rows -> {"none", "inserting", "stored", "done", "lost", "left"}]
    /\ key \in [Rows -> 0 .. LastTick]
    /\ online \in BOOLEAN
    /\ pushed \in SUBSET Rows
    /\ reading \in {"idle", "reading", "done"}
    /\ offset \in Nat
    /\ cursor = NoCursor \/ cursor \in (0 .. LastTick) \X Rows
    /\ got \in [Rows -> Nat]
    /\ through \in SUBSET Rows
    /\ entered \in Nat /\ departed \in BOOLEAN /\ blurred \in SUBSET Rows

(* A row that was listed during a whole reading is given once.  With a       *)
(* cursor it is never given twice; with an offset once more for each row     *)
(* that came in ahead at most, and it is left out only when one ahead left;  *)
(* or when it is one of several rows that the order does not tell apart.     *)
ListedOnce ==
    /\ list \in Cursored => \A x \in Rows : got[x] <= 1
    /\ \A x \in through :
         /\ got[x] <= 1 + entered \/ x \in blurred
         /\ reading = "done" /\ got[x] = 0 => departed \/ x \in blurred

(* A client that connects before it loads its list knows every message or    *)
(* notification whose handler is done, from a page or from a push, unless    *)
(* the handler failed before the push or the order does not tell it apart.   *)
NothingMissed ==
    list \in Pushed /\ online /\ reading = "done" =>
        \A x \in Rows : state[x] = "done" => got[x] > 0 \/ x \in pushed \/ x \in blurred
=============================================================================
