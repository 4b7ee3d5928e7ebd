---------------------------- MODULE ClientProofs -----------------------------
(***************************************************************************)
(* TLAPS proofs about what a connected client is shown: the pages of its   *)
(* lists (Lists) and the typing indicator (Typing), each for any values of *)
(* its constants.                                                          *)
(*                                                                         *)
(* Lists: ListIInv says of a reading by a cursor that what was given lies  *)
(* above the cursor and what is still to be given below it, and of one by  *)
(* an offset how many rows are ahead of a row that was given, and ahead of *)
(* a position that was not passed.  What a page is, its first rows and its *)
(* last, comes first.                                                      *)
(*                                                                         *)
(* Typing: its three invariants together are inductive: the types bound    *)
(* the timer, which bounds the auto-stop.                                  *)
(***************************************************************************)
EXTENDS Lists, Typing, FiniteSetTheorems, SequenceTheorems, WellFoundedInduction, TLAPS

-----------------------------------------------------------------------------
(* The inductive invariant                                                   *)

(* What the control of a reading tells of its state                          *)
Control ==
    /\ reading = "idle" => (\A x \in Rows : got[x] = 0) /\ cursor = NoCursor /\ offset = 0
    /\ reading = "idle" => ~ departed
    /\ list \notin Cursored => cursor = NoCursor
    /\ \A x \in Rows : key[x] <= now
    /\ \A x \in Rows : got[x] > 0 => state[x] \notin {"none", "inserting"}
    /\ through \subseteq Listed
    /\ list \in Pushed => ~ departed
    /\ list \in Pushed /\ reading # "idle" => online

(* What a page after this cursor is taken from                               *)
Below(x) ==
    \/ key[x] < cursor[1] * Milli
    \/ key[x] = cursor[1] * Milli /\ x < cursor[2]

(* A reading by a cursor: what was given is above the cursor, and what is    *)
(* still to be given is below it, but for the rows it does not tell apart    *)
CursorInv ==
    list \in Cursored =>
        /\ \A x \in Rows : got[x] <= 1
        /\ reading = "reading" => \A x \in Rows : got[x] > 0 => cursor # NoCursor /\ ~ Below(x)
        /\ reading = "reading" => \A x \in through \ blurred :
                                      got[x] = 0 => cursor = NoCursor \/ Below(x)
        /\ reading = "done" => \A x \in through : got[x] = 0 => x \in blurred

Ahead(at) == {x \in Listed : key[x] > at}

(* A reading by an offset: fewer rows are ahead of a row that was given than *)
(* the next page skips, so that it is not given again, unless rows came in   *)
(* ahead and it was not yet given once more for each of them                 *)
NotAgain ==
    \A x \in through \ blurred :
        /\ got[x] <= 1 + entered
        /\ reading = "reading" /\ got[x] > 0 =>
               Cardinality(Ahead(key[x])) < offset \/ got[x] <= entered

(* And as long as none left from ahead of one that was read: no fewer are    *)
(* ahead of a position that was not passed, and no row that was passed was   *)
(* left out                                                                  *)
NotPast ==
    ~ departed =>
        /\ reading = "reading" => \A at \in 0 .. LastTick :
                                      ~ Passed(at) => Cardinality(Ahead(at)) >= offset
        /\ reading = "reading" => \A x \in through \ blurred : got[x] = 0 => ~ Passed(key[x])
        /\ reading = "done" => \A x \in through : got[x] = 0 => x \in blurred

OffsetInv == list \notin Cursored => NotAgain /\ NotPast

(* What was stored since the list was loaded has been pushed, or will be     *)
ShownOrPushed ==
    list \in Pushed /\ online /\ reading # "idle" =>
        \A x \in Listed : x \in through \/ state[x] \in {"stored", "lost"} \/ x \in pushed

ListIInv == TypeOK /\ Control /\ CursorInv /\ OffsetInv /\ ShownOrPushed

-----------------------------------------------------------------------------
(* Rows in the order of a list                                               *)

(* A set of naturals that is not empty has a least element.                  *)
LEMMA LeastNatural ==
    ASSUME NEW T, T \subseteq Nat, T # {}
    PROVE  \E m \in T : \A n \in T : m <= n
<1> DEFINE R == OpToRel(<, Nat)
<1>1. IsWellFoundedOn(R, Nat)
  BY NatLessThanWellFounded
<1>2. PICK m \in T : \A n \in T : ~ (<<n, m>> \in R)
  <2> HIDE DEF R
  <2> QED BY <1>1, WFMin
<1>3. \A n \in T : ~ (n < m)
  BY <1>2 DEF OpToRel
<1> QED BY <1>3

(* Every set of rows is finite, and its cardinality grows with it.           *)
LEMMA RowsFinite ==
    ASSUME NEW S, S \subseteq Rows
    PROVE  IsFiniteSet(S) /\ Cardinality(S) \in Nat
<1>1. IsFiniteSet(S)
  BY RowsAssumption, FS_Subset
<1> QED BY <1>1, FS_CardinalityType

LEMMA RowsSmaller ==
    ASSUME NEW S, S \subseteq Rows, NEW T, T \subseteq S
    PROVE  Cardinality(T) <= Cardinality(S)
<1>1. IsFiniteSet(S)
  BY RowsFinite
<1> QED BY <1>1, FS_Subset

LEMMA RowsStrictlySmaller ==
    ASSUME NEW S, S \subseteq Rows, NEW T, T \subseteq S, NEW x \in S, x \notin T
    PROVE  Cardinality(T) < Cardinality(S)
<1>1. IsFiniteSet(S) /\ Cardinality(S) \in Nat
  BY RowsFinite
<1>2. /\ Cardinality(T) <= Cardinality(S)
      /\ Cardinality(S) = Cardinality(T) => S = T
  BY <1>1, FS_Subset
<1>3. Cardinality(T) \in Nat
  BY RowsFinite
<1> QED BY <1>1, <1>2, <1>3

(* The order of a list is total and strict.                                  *)
LEMMA BeforeTotal ==
    ASSUME TypeOK, NEW x \in Rows, NEW y \in Rows, x # y
    PROVE  Before(x, y) \/ Before(y, x)
<1>1. x \in Nat /\ y \in Nat /\ key[x] \in Nat /\ key[y] \in Nat
  BY RowsAssumption, ClockAssumption DEF TypeOK
<1> QED BY <1>1 DEF Before

LEMMA BeforeStrict ==
    ASSUME TypeOK, NEW x \in Rows, NEW y \in Rows, Before(x, y)
    PROVE  x # y /\ ~ Before(y, x)
<1>1. x \in Nat /\ y \in Nat /\ key[x] \in Nat /\ key[y] \in Nat
  BY RowsAssumption, ClockAssumption DEF TypeOK
<1> QED BY <1>1 DEF Before

LEMMA BeforeTransitive ==
    ASSUME TypeOK, NEW x \in Rows, NEW y \in Rows, NEW z \in Rows, Before(x, y), Before(y, z)
    PROVE  Before(x, z)
<1>1. x \in Nat /\ y \in Nat /\ z \in Nat /\ key[x] \in Nat /\ key[y] \in Nat /\ key[z] \in Nat
  BY RowsAssumption, ClockAssumption DEF TypeOK
<1> QED BY <1>1 DEF Before

(* A set of rows that is not empty has a first row: the one with the fewest  *)
(* rows before it.                                                           *)
LEMMA FirstExists ==
    ASSUME TypeOK, NEW S, S \subseteq Rows, S # {}
    PROVE  \E x \in S : \A y \in S : ~ Before(y, x)
<1> DEFINE Ranks(x) == {y \in S : Before(y, x)}
           T == {Cardinality(Ranks(x)) : x \in S}
<1>1. \A x \in S : Ranks(x) \subseteq Rows /\ Cardinality(Ranks(x)) \in Nat
  <2> TAKE x \in S
  <2>1. Ranks(x) \subseteq Rows
    OBVIOUS
  <2> HIDE DEF Ranks
  <2> QED BY <2>1, RowsFinite
<1>2. T \subseteq Nat /\ T # {}
  BY <1>1
<1>3. PICK m \in T : \A n \in T : m <= n
  <2> HIDE DEF T
  <2> QED BY <1>2, LeastNatural
<1>4. PICK x \in S : m = Cardinality(Ranks(x))
  OBVIOUS
<1>5. ASSUME NEW y \in S, Before(y, x)
      PROVE  FALSE
  <2>1. y \in Ranks(x) /\ y \notin Ranks(y)
    BY <1>5, BeforeStrict
  <2>2. Ranks(y) \subseteq Ranks(x)
    BY <1>5, BeforeTransitive
  <2>3. Cardinality(Ranks(y)) < Cardinality(Ranks(x))
    <3> HIDE DEF Ranks
    <3> QED BY <2>1, <2>2, <1>1, RowsStrictlySmaller
  <2>4. m <= Cardinality(Ranks(y))
    BY <1>3
  <2> HIDE DEF Ranks
  <2> QED BY <2>3, <2>4, <1>1, <1>4
<1> QED BY <1>5

(* And a last row: the one with the lowest id of those of the oldest date.   *)
LEMMA LastExists ==
    ASSUME TypeOK, NEW S, S \subseteq Rows, S # {}
    PROVE  LastOf(S) \in S /\ \A y \in S : y = LastOf(S) \/ Before(y, LastOf(S))
<1> DEFINE Keys == {key[x] : x \in S}
<1>0. S \subseteq Nat /\ \A x \in S : key[x] \in Nat
  BY RowsAssumption, ClockAssumption DEF TypeOK
<1>1. Keys \subseteq Nat /\ Keys # {}
  BY <1>0
<1>2. PICK k \in Keys : \A n \in Keys : k <= n
  <2> HIDE DEF Keys
  <2> QED BY <1>1, LeastNatural
<1> DEFINE Oldest == {x \in S : key[x] = k}
<1>3. Oldest \subseteq Nat /\ Oldest # {}
  BY <1>0
<1>4. PICK x \in Oldest : \A y \in Oldest : x <= y
  <2> HIDE DEF Oldest
  <2> QED BY <1>3, LeastNatural
<1>5. x \in S /\ \A y \in S : y = x \/ Before(y, x)
  BY <1>0, <1>2, <1>4 DEF Before
<1> QED BY <1>5 DEF LastOf

-----------------------------------------------------------------------------
(* The first rows of a set                                                   *)

(* The first n rows come before the others.                                  *)
LEMMA FirstAreBefore ==
    ASSUME TypeOK, NEW S, S \subseteq Rows, NEW n \in Nat,
           NEW y \in First(n, S), NEW x \in S \ First(n, S)
    PROVE  Before(y, x)
<1> DEFINE Ranks(z) == {w \in S : Before(w, z)}
<1>1. y \in S /\ x \in S /\ x # y
  BY DEF First
<1>2. Cardinality(Ranks(y)) < n /\ ~ (Cardinality(Ranks(x)) < n)
  BY DEF First
<1>3. ASSUME Before(x, y)
      PROVE  FALSE
  <2>1. Ranks(x) \subseteq Ranks(y)
    BY <1>1, <1>3, BeforeTransitive
  <2>2. Ranks(y) \subseteq Rows /\ Ranks(x) \subseteq Rows
    OBVIOUS
  <2> HIDE DEF Ranks
  <2>3. Cardinality(Ranks(x)) <= Cardinality(Ranks(y))
    BY <2>1, <2>2, RowsSmaller
  <2>4. Cardinality(Ranks(x)) \in Nat /\ Cardinality(Ranks(y)) \in Nat
    BY <2>2, RowsFinite
  <2> QED BY <1>2, <2>3, <2>4
<1> QED BY <1>1, <1>3, BeforeTotal

(* There is a first row, if there is a row.                                  *)
LEMMA FirstNotEmpty ==
    ASSUME TypeOK, NEW S, S \subseteq Rows, S # {}, NEW n \in Nat \ {0}
    PROVE  First(n, S) # {}
<1>1. PICK x \in S : \A y \in S : ~ Before(y, x)
  BY FirstExists
<1>2. {y \in S : Before(y, x)} = {}
  BY <1>1
<1>3. Cardinality({}) = 0
  BY FS_EmptySet
<1> QED BY <1>1, <1>2, <1>3 DEF First

(* When fewer than n rows were asked for and come, they are all there are.   *)
LEMMA FirstOfFew ==
    ASSUME TypeOK, NEW S, S \subseteq Rows, NEW n \in Nat, Cardinality(S) <= n
    PROVE  First(n, S) = S
<1>1. ASSUME NEW x \in S
      PROVE  Cardinality({y \in S : Before(y, x)}) < n
  <2> DEFINE R == {y \in S : Before(y, x)}
  <2>1. R \subseteq S /\ x \notin R
    BY BeforeStrict
  <2> HIDE DEF R
  <2>2. Cardinality(R) < Cardinality(S)
    BY <2>1, RowsStrictlySmaller
  <2>3. Cardinality(R) \in Nat /\ Cardinality(S) \in Nat
    BY <2>1, RowsFinite
  <2>4. Cardinality(R) < n
    BY <2>2, <2>3
  <2> QED BY <2>4 DEF R
<1> QED BY <1>1 DEF First

(* No more come than were asked for.                                         *)
LEMMA FirstAtMost ==
    ASSUME TypeOK, NEW S, S \subseteq Rows, NEW n \in Nat \ {0}
    PROVE  Cardinality(First(n, S)) <= n
<1> DEFINE F == First(n, S)
<1>1. F \subseteq S /\ F \subseteq Rows
  BY DEF First
<1>2. CASE F = {}
  BY <1>2, FS_EmptySet
<1>3. CASE F # {}
  <2> DEFINE l == LastOf(F)
             R == {y \in S : Before(y, l)}
  <2>1. l \in F /\ \A y \in F : y = l \/ Before(y, l)
    <3> HIDE DEF F
    <3> QED BY <1>1, <1>3, LastExists
  <2>2. F \ {l} \subseteq R /\ R \subseteq Rows
    BY <1>1, <2>1
  <2>3. Cardinality(R) < n
    BY <2>1 DEF First
  <2> HIDE DEF F, l, R
  <2>4. Cardinality(F \ {l}) <= Cardinality(R)
    BY <2>2, RowsSmaller
  <2>5. IsFiniteSet(F) /\ Cardinality(F) \in Nat
    BY <1>1, RowsFinite
  <2>6. Cardinality(R) \in Nat
    BY <2>2, RowsFinite
  <2>7. Cardinality(F \ {l}) = Cardinality(F) - 1
    BY <2>1, <2>5, FS_RemoveElement
  <2>8. Cardinality(F) <= n
    BY <2>3, <2>4, <2>5, <2>6, <2>7
  <2> QED BY <2>8 DEF F
<1> QED BY <1>2, <1>3

(* And all rows come when it is fewer than were asked for.                   *)
LEMMA FirstIsAll ==
    ASSUME TypeOK, NEW S, S \subseteq Rows, NEW n \in Nat, Cardinality(First(n, S)) < n
    PROVE  First(n, S) = S
<1> DEFINE F == First(n, S)
<1>1. F \subseteq S
  BY DEF First
<1>2. ASSUME S \ F # {}
      PROVE  FALSE
  <2>1. S \ F \subseteq Rows
    OBVIOUS
  <2>2. PICK x \in S \ F : \A y \in S \ F : ~ Before(y, x)
    <3> HIDE DEF F
    <3> QED BY <1>2, <2>1, FirstExists
  <2> DEFINE R == {y \in S : Before(y, x)}
  <2>3. R \subseteq F /\ F \subseteq Rows
    BY <1>1, <2>2
  <2>4. ~ (Cardinality(R) < n)
    BY <2>2 DEF First
  <2> HIDE DEF F, R
  <2>5. Cardinality(R) <= Cardinality(F)
    BY <2>3, RowsSmaller
  <2>6. Cardinality(F) \in Nat /\ Cardinality(R) \in Nat
    BY <2>3, RowsFinite
  <2>7. Cardinality(F) < n
    BY DEF F
  <2> QED BY <2>4, <2>5, <2>6, <2>7
<1> QED BY <1>1, <1>2

-----------------------------------------------------------------------------
(* A page after a cursor: the rows, those fetched, and those of the page     *)

(* The items of a page that is not the last have a last row, and the rows    *)
(* that are not among them come after it.                                    *)
LEMMA ItemsBeforeRest ==
    ASSUME TypeOK, NEW rows, rows \subseteq Rows,
           NEW fetched, fetched = First(Limit + 1, rows),
           NEW items, items = First(Limit, fetched),
           Cardinality(fetched) = Limit + 1
    PROVE  /\ items \subseteq rows
           /\ LastOf(items) \in items
           /\ \A y \in items : y = LastOf(items) \/ Before(y, LastOf(items))
           /\ \A x \in rows \ items : Before(LastOf(items), x)
<1>0. Limit \in Nat \ {0} /\ Limit + 1 \in Nat
  BY LimitAssumption
<1>1. fetched \subseteq rows /\ items \subseteq fetched
  BY DEF First
<1>2. fetched # {}
  BY <1>0, FS_EmptySet
<1>3. items # {}
  BY <1>0, <1>1, <1>2, FirstNotEmpty
<1>4. /\ LastOf(items) \in items
      /\ \A y \in items : y = LastOf(items) \/ Before(y, LastOf(items))
  BY <1>1, <1>3, LastExists
<1>5. ASSUME NEW x \in rows \ items
      PROVE  Before(LastOf(items), x)
  <2>1. CASE x \in fetched
    <3>1. fetched \subseteq Rows /\ LastOf(items) \in First(Limit, fetched) /\ x \in fetched \ First(Limit, fetched)
      BY <1>1, <1>4, <2>1
    <3> QED BY <3>1, <1>0, FirstAreBefore
  <2>2. CASE x \notin fetched
    <3>1. LastOf(items) \in First(Limit + 1, rows) /\ x \in rows \ First(Limit + 1, rows)
      BY <1>1, <1>4, <2>2
    <3> QED BY <3>1, <1>0, FirstAreBefore
  <2> QED BY <2>1, <2>2
<1> QED BY <1>1, <1>4, <1>5

(* And those of the last page are all the rows.                              *)
LEMMA ItemsAreAll ==
    ASSUME TypeOK, NEW rows, rows \subseteq Rows,
           NEW fetched, fetched = First(Limit + 1, rows),
           NEW items, items = First(Limit, fetched),
           Cardinality(fetched) # Limit + 1
    PROVE  items = rows
<1>0. Limit \in Nat \ {0} /\ Limit + 1 \in Nat \ {0}
  BY LimitAssumption
<1>1. fetched \subseteq rows
  BY DEF First
<1>2. Cardinality(fetched) <= Limit + 1
  BY <1>0, FirstAtMost
<1>3. Cardinality(fetched) \in Nat
  BY <1>1, RowsFinite
<1>4. Cardinality(fetched) < Limit + 1 /\ Cardinality(fetched) <= Limit
  BY <1>0, <1>2, <1>3
<1>5. fetched = rows
  BY <1>0, <1>4, FirstIsAll
<1> QED BY <1>0, <1>4, <1>5, FirstOfFew

-----------------------------------------------------------------------------
(* A date cut to the millisecond                                             *)

LEMMA CutBelow ==
    ASSUME NEW k \in Nat, NEW m \in Nat \ {0}
    PROVE  k \div m \in Nat /\ (k \div m) * m \in Nat /\ (k \div m) * m <= k
OBVIOUS

LEMMA CutAtMost ==
    ASSUME NEW k \in Nat, NEW m \in Nat \ {0}
    PROVE  k \div m <= k
OBVIOUS

(* Dates between a cut date and the date are of the same millisecond.        *)
LEMMA CutSame ==
    ASSUME NEW k \in Nat, NEW m \in Nat \ {0}, NEW j \in Nat, j <= k, (k \div m) * m <= j
    PROVE  j \div m = k \div m
OBVIOUS

(* The facts about the types of a reading that the steps need                *)
LEMMA RowTypes ==
    ASSUME TypeOK
    PROVE  /\ Rows \subseteq Nat
           /\ \A x \in Rows : x \in Nat /\ key[x] \in Nat /\ got[x] \in Nat
           /\ Milli \in Nat \ {0} /\ Limit \in Nat \ {0} /\ LastTick \in Nat
           /\ offset \in Nat /\ entered \in Nat
           /\ through \subseteq Rows /\ blurred \subseteq Rows /\ Listed \subseteq Rows
BY RowsAssumption, LimitAssumption, ClockAssumption DEF TypeOK, Listed

-----------------------------------------------------------------------------
(* A page by a cursor                                                        *)

(* Rows that may be on the page were not given before, and the others have   *)
(* been given, or are not told apart.                                        *)
LEMMA RowsNotGiven ==
    ASSUME ListIInv, list \in Cursored, reading = "reading",
           NEW rows, rows = {x \in Listed : cursor = NoCursor \/ Below(x)}
    PROVE  /\ rows \subseteq Rows
           /\ \A x \in rows : got[x] = 0
           /\ \A x \in through \ blurred : got[x] = 0 => x \in rows
<1>1. rows \subseteq Rows
  BY DEF Listed
<1>2. \A x \in rows : got[x] = 0
  <2>1. \A x \in Rows : got[x] > 0 => cursor # NoCursor /\ ~ Below(x)
    BY DEF ListIInv, CursorInv
  <2>2. \A x \in Rows : got[x] \in Nat
    BY RowTypes DEF ListIInv
  <2> QED BY <1>1, <2>1, <2>2
<1>3. \A x \in through \ blurred : got[x] = 0 => x \in rows
  <2>1. \A x \in through \ blurred : got[x] = 0 => cursor = NoCursor \/ Below(x)
    BY DEF ListIInv, CursorInv
  <2>2. through \subseteq Listed
    BY DEF ListIInv, Control
  <2> QED BY <2>1, <2>2
<1> QED BY <1>1, <1>2, <1>3

(* What was given before is not below a row that was not given.              *)
LEMMA GivenAreBefore ==
    ASSUME ListIInv, list \in Cursored, reading = "reading",
           NEW x \in Rows, got[x] > 0,
           NEW l \in Rows, cursor = NoCursor \/ Below(l)
    PROVE  Before(x, l)
<1>1. cursor # NoCursor /\ ~ Below(x) /\ Below(l)
  BY DEF ListIInv, CursorInv
<1>2. cursor \in (0 .. LastTick) \X Rows
  BY <1>1 DEF ListIInv, TypeOK
<1>3. cursor[1] \in Nat /\ cursor[2] \in Nat
  BY <1>2, RowTypes DEF ListIInv
<1> DEFINE c == cursor[1] * Milli
           id == cursor[2]
<1>4. c \in Nat /\ id \in Nat
  BY <1>3, ClockAssumption
<1>5. /\ ~ (key[x] < c \/ (key[x] = c /\ x < id))
      /\ key[l] < c \/ (key[l] = c /\ l < id)
  BY <1>1 DEF Below
<1>6. x \in Nat /\ l \in Nat /\ key[x] \in Nat /\ key[l] \in Nat
  BY RowTypes DEF ListIInv
<1> HIDE DEF c, id
<1> QED BY <1>4, <1>5, <1>6 DEF Before

(* A row at or before another is not below the cursor made from that one.    *)
LEMMA CursorNotAbove ==
    ASSUME TypeOK, NEW l \in Rows, NEW x \in Rows, x = l \/ Before(x, l)
    PROVE  ~ (key[x] < (key[l] \div Milli) * Milli
              \/ (key[x] = (key[l] \div Milli) * Milli /\ x < l))
<1>1. x \in Nat /\ l \in Nat /\ key[x] \in Nat /\ key[l] \in Nat
  BY RowTypes
<1> DEFINE c == (key[l] \div Milli) * Milli
<1>2. c \in Nat /\ c <= key[l]
  BY <1>1, ClockAssumption, CutBelow
<1> HIDE DEF c
<1>3. ~ (key[x] < c \/ (key[x] = c /\ x < l))
  BY <1>1, <1>2 DEF Before
<1> QED BY <1>3 DEF c

(* A listed row after it is below that cursor, unless it is of the same      *)
(* millisecond.                                                              *)
LEMMA CursorBelow ==
    ASSUME TypeOK, list \in Cursored, NEW l \in Listed, NEW x \in Listed, Before(l, x)
    PROVE  \/ key[x] < (key[l] \div Milli) * Milli
           \/ x \in Blurred
<1>1. x \in Rows /\ l \in Rows /\ x \in Nat /\ l \in Nat /\ key[x] \in Nat /\ key[l] \in Nat
  BY RowTypes DEF Listed
<1>2. (key[l] \div Milli) * Milli \in Nat
  BY <1>1, ClockAssumption, CutBelow
<1>3. key[x] <= key[l] /\ l # x
  BY <1>1, BeforeStrict DEF Before
<1>4. CASE (key[l] \div Milli) * Milli <= key[x]
  <2>1. key[x] \div Milli = key[l] \div Milli
    BY <1>1, <1>3, <1>4, ClockAssumption, CutSame
  <2> QED BY <1>3, <2>1 DEF Blurred
<1> QED BY <1>1, <1>2, <1>4

(* Reading a page by a cursor gives no row twice and leaves none out.        *)
LEMMA FindByConversationCursor ==
    ASSUME ListIInv, FindByConversation
    PROVE  CursorInv'
<1> DEFINE rows == {x \in Listed : cursor = NoCursor \/ Below(x)}
           fetched == First(Limit + 1, rows)
           items == First(Limit, fetched)
           l == LastOf(items)
<1>0. /\ list \in Cursored /\ reading = "reading" /\ list' = list
      /\ key' = key /\ through' = through /\ blurred' = blurred \cup Blurred
      /\ got' = [x \in Rows |-> IF x \in items THEN got[x] + 1 ELSE got[x]]
      /\ IF Cardinality(fetched) = Limit + 1
           THEN reading' = "reading" /\ cursor' = <<key[l] \div Milli, l>>
           ELSE reading' = "done" /\ cursor' = NoCursor
  BY DEF FindByConversation, Receive, Below, rowVars
<1>1. /\ rows \subseteq Rows
      /\ \A x \in rows : got[x] = 0
      /\ \A x \in through \ blurred : got[x] = 0 => x \in rows
  <2> HIDE DEF items, fetched, l
  <2> QED BY <1>0, RowsNotGiven
<1>2. TypeOK
  BY DEF ListIInv
<1>3. items \subseteq rows
  BY DEF First
<1>4. \A x \in Rows : got[x] \in Nat /\ got[x] <= 1
  BY <1>0, <1>2, RowTypes DEF ListIInv, CursorInv
<1>5. \A x \in Rows : got'[x] <= 1
  <2> HIDE DEF items, rows, fetched, l
  <2> QED BY <1>0, <1>1, <1>3, <1>4
<1>6. through \subseteq Listed /\ Listed \subseteq Rows
  BY DEF ListIInv, Control, Listed
<1>7. CASE Cardinality(fetched) = Limit + 1
  <2>1. /\ l \in items
        /\ \A y \in items : y = l \/ Before(y, l)
        /\ \A x \in rows \ items : Before(l, x)
    <3> HIDE DEF rows
    <3> QED BY <1>1, <1>2, <1>7, ItemsBeforeRest
  <2>2. /\ l \in Rows /\ l \in Listed /\ (cursor = NoCursor \/ Below(l))
    BY <1>1, <1>3, <2>1
  <2> HIDE DEF items, rows, fetched, l
  <2>3. reading' = "reading" /\ cursor' = <<key[l] \div Milli, l>>
    BY <1>0, <1>7
  <2>4. \A x \in Rows : Below(x)' <=> \/ key[x] < (key[l] \div Milli) * Milli
                                      \/ key[x] = (key[l] \div Milli) * Milli /\ x < l
    BY <1>0, <2>3 DEF Below
  <2>5. ASSUME NEW x \in Rows, got'[x] > 0
        PROVE  cursor' # NoCursor /\ ~ Below(x)'
    <3>1. x \in items \/ got[x] > 0
      BY <1>0, <2>5
    <3>2. x = l \/ Before(x, l)
      BY <3>1, <2>1, <2>2, <1>0, GivenAreBefore
    <3>3. ~ Below(x)'
      BY <3>2, <2>2, <2>4, <1>2, CursorNotAbove
    <3>4. cursor' # NoCursor
      BY <2>3 DEF NoCursor
    <3> QED BY <3>3, <3>4
  <2>6. ASSUME NEW x \in through' \ blurred', got'[x] = 0
        PROVE  Below(x)'
    <3>1. x \in through \ blurred /\ x \notin Blurred /\ x \in Rows /\ x \in Listed
      BY <1>0, <1>6
    <3>2. x \notin items /\ got[x] = 0
      BY <1>0, <1>4, <2>6, <3>1
    <3>3. x \in rows \ items
      BY <1>1, <3>1, <3>2
    <3>4. Before(l, x)
      BY <2>1, <3>3
    <3>5. key[x] < (key[l] \div Milli) * Milli
      BY <1>0, <1>2, <2>2, <3>1, <3>4, CursorBelow
    <3> QED BY <2>4, <3>1, <3>5
  <2> QED BY <1>0, <1>5, <2>3, <2>5, <2>6 DEF CursorInv
<1>8. CASE Cardinality(fetched) # Limit + 1
  <2>1. items = rows
    <3> HIDE DEF rows
    <3> QED BY <1>1, <1>2, <1>8, ItemsAreAll
  <2> HIDE DEF items, rows, fetched, l
  <2>2. reading' = "done"
    BY <1>0, <1>8
  <2>3. ASSUME NEW x \in through', got'[x] = 0
        PROVE  x \in blurred'
    <3>1. x \in through /\ x \in Rows
      BY <1>0, <1>6
    <3>2. x \notin items /\ got[x] = 0
      BY <1>0, <1>4, <2>3, <3>1
    <3> QED BY <1>0, <1>1, <2>1, <3>1, <3>2
  <2> QED BY <1>0, <1>5, <2>2, <2>3 DEF CursorInv
<1> QED BY <1>7, <1>8

-----------------------------------------------------------------------------
(* A page by an offset                                                       *)

LEMMA LeastOfTwo ==
    ASSUME NEW a \in Nat, NEW b \in Nat
    PROVE  Min({a, b}) = IF a <= b THEN a ELSE b
<1>1. PICK m \in {a, b} : m = IF a <= b THEN a ELSE b
  OBVIOUS
<1>2. m \in {a, b} /\ \A y \in {a, b} : m <= y
  BY <1>1
<1>3. \A n \in {a, b} : (\A y \in {a, b} : n <= y) => n = m
  BY <1>2
<1> QED BY <1>1, <1>2, <1>3 DEF Min

(* What a page is, in the terms the steps below need: the rows it skips are  *)
(* no more than the offset, exactly as many when there is a row on the page; *)
(* a short page has all the rest.                                            *)
LEMMA PageParts ==
    ASSUME TypeOK, NEW page, page \subseteq Listed, Page(offset, page)
    PROVE  \E ahead \in SUBSET Listed :
              /\ page \cap ahead = {}
              /\ Cardinality(ahead) <= offset
              /\ page # {} => Cardinality(ahead) = offset
              /\ Cardinality(page) < Limit => page = Listed \ ahead
              /\ \A x \in ahead, y \in page : key[x] >= key[y]
              /\ \A x \in page, y \in (Listed \ ahead) \ page : key[x] >= key[y]
<1>1. PICK ahead \in kSubset(Min({offset, Cardinality(Listed)}), Listed) :
         LET rest == Listed \ ahead
         IN  /\ page \subseteq rest
             /\ Cardinality(page) = Min({Limit, Cardinality(rest)})
             /\ \A x \in ahead, y \in page : key[x] >= key[y]
             /\ \A x \in page, y \in rest \ page : key[x] >= key[y]
  BY DEF Page
<1> DEFINE rest == Listed \ ahead
<1>2. /\ ahead \in SUBSET Listed
      /\ Cardinality(ahead) = Min({offset, Cardinality(Listed)})
  BY <1>1 DEF kSubset
<1>3. Listed \subseteq Rows /\ rest \subseteq Rows
  BY DEF Listed
<1>4. /\ offset \in Nat /\ Limit \in Nat /\ Cardinality(Listed) \in Nat /\ Cardinality(rest) \in Nat
      /\ Cardinality(ahead) \in Nat
  <2>1. ahead \subseteq Rows
    BY <1>2, <1>3
  <2> HIDE DEF rest
  <2> QED BY <1>3, <2>1, RowTypes, RowsFinite
<1>5. /\ Cardinality(ahead) <= offset
      /\ Cardinality(ahead) = offset \/ Cardinality(ahead) = Cardinality(Listed)
  <2> HIDE DEF rest
  <2>1. Min({offset, Cardinality(Listed)}) = IF offset <= Cardinality(Listed) THEN offset ELSE Cardinality(Listed)
    BY <1>4, LeastOfTwo
  <2> QED BY <1>2, <1>4, <2>1
<1>6. page # {} => Cardinality(ahead) = offset
  <2> SUFFICES ASSUME page # {}, Cardinality(ahead) = Cardinality(Listed)
               PROVE  FALSE
    BY <1>5
  <2>1. PICK x \in page : x \in Listed /\ x \notin ahead
    BY <1>1
  <2>2. Cardinality(ahead) < Cardinality(Listed)
    BY <1>2, <1>3, <2>1, RowsStrictlySmaller
  <2> QED BY <1>4, <2>2
<1>7. Cardinality(page) < Limit => page = rest
  <2> SUFFICES ASSUME Cardinality(page) < Limit, page # rest
               PROVE  FALSE
    OBVIOUS
  <2>1. page \subseteq rest /\ Cardinality(page) = Min({Limit, Cardinality(rest)})
    BY <1>1
  <2> HIDE DEF rest
  <2>2. Min({Limit, Cardinality(rest)}) = IF Limit <= Cardinality(rest) THEN Limit ELSE Cardinality(rest)
    BY <1>4, LeastOfTwo
  <2>3. Cardinality(page) = Cardinality(rest)
    BY <1>4, <2>1, <2>2
  <2>4. PICK x \in rest : x \notin page
    BY <2>1
  <2>5. Cardinality(page) < Cardinality(rest)
    BY <1>3, <2>1, <2>4, RowsStrictlySmaller
  <2> QED BY <1>4, <2>3, <2>5
<1> QED BY <1>1, <1>2, <1>5, <1>6, <1>7

(* The rows of a key of their own are in the order of the keys.              *)
LEMMA OwnKey ==
    ASSUME list \notin Cursored, NEW x \in Listed, x \notin Blurred, NEW y \in Listed, y # x
    PROVE  key[y] # key[x]
BY DEF Blurred

(* The rows ahead of a row of the page are among those the page skips and    *)
(* the others of the page.                                                   *)
LEMMA AheadOfPage ==
    ASSUME TypeOK, NEW page, page \subseteq Listed,
           NEW ahead \in SUBSET Listed, page \cap ahead = {},
           \A x \in page, y \in (Listed \ ahead) \ page : key[x] >= key[y],
           Cardinality(ahead) <= offset,
           NEW x \in page
    PROVE  Cardinality(Ahead(key[x])) < offset + Cardinality(page)
<1>1. page \subseteq Rows /\ ahead \subseteq Rows /\ \A z \in Rows : key[z] \in Nat
  BY RowTypes
<1>2. Ahead(key[x]) \subseteq (ahead \cup page) /\ x \notin Ahead(key[x]) /\ x \in ahead \cup page
  BY <1>1, RowTypes DEF Ahead
<1>3. ahead \cup page \subseteq Rows
  BY <1>1
<1>4. Cardinality(Ahead(key[x])) < Cardinality(ahead \cup page)
  BY <1>2, <1>3, RowsStrictlySmaller
<1>5. IsFiniteSet(ahead) /\ IsFiniteSet(page)
      /\ Cardinality(ahead) \in Nat /\ Cardinality(page) \in Nat
  BY <1>1, RowsFinite
<1>6. Cardinality(ahead \cup page) = Cardinality(ahead) + Cardinality(page) - Cardinality(ahead \cap page)
  BY <1>5, FS_Union
<1>7. Cardinality(ahead \cap page) = 0
  <2>1. ahead \cap page = {}
    OBVIOUS
  <2> QED BY <2>1, FS_EmptySet
<1>8. Cardinality(Ahead(key[x])) \in Nat /\ offset \in Nat
  <2>1. Ahead(key[x]) \subseteq Rows
    BY DEF Ahead, Listed
  <2> QED BY <2>1, RowsFinite, RowTypes
<1>9. Cardinality(ahead \cup page) = Cardinality(ahead) + Cardinality(page)
  BY <1>5, <1>6, <1>7
<1> QED BY <1>4, <1>5, <1>8, <1>9

(* A row that is skipped, with a row after it on the page or with no rest,   *)
(* has fewer rows ahead than are skipped.                                    *)
LEMMA AheadOfSkipped ==
    ASSUME TypeOK, NEW ahead \in SUBSET Listed, Cardinality(ahead) <= offset,
           NEW x \in ahead, \A z \in Listed \ ahead : key[z] <= key[x]
    PROVE  Cardinality(Ahead(key[x])) < offset
<1>1. ahead \subseteq Rows /\ Ahead(key[x]) \subseteq Rows /\ \A z \in Rows : key[z] \in Nat
  BY RowTypes DEF Ahead
<1>2. Ahead(key[x]) \subseteq ahead /\ x \notin Ahead(key[x])
  BY <1>1, RowTypes DEF Ahead
<1>3. Cardinality(Ahead(key[x])) < Cardinality(ahead)
  BY <1>1, <1>2, RowsStrictlySmaller
<1>4. Cardinality(Ahead(key[x])) \in Nat /\ Cardinality(ahead) \in Nat /\ offset \in Nat
  BY <1>1, RowsFinite, RowTypes
<1> QED BY <1>3, <1>4

(* Reading a page by an offset gives a row again only if one came in ahead   *)
(* since it was given.                                                       *)
LEMMA FindByOffsetNotAgain ==
    ASSUME ListIInv, FindByOffset
    PROVE  NotAgain'
<1>1. PICK page \in SUBSET Listed :
         /\ Page(offset, page)
         /\ Receive(page)
         /\ reading' = IF Cardinality(page) < Limit THEN "done" ELSE "reading"
  BY DEF FindByOffset
<1>2. /\ list \notin Cursored /\ reading = "reading" /\ list' = list /\ state' = state
      /\ key' = key /\ through' = through /\ blurred' = blurred \cup Blurred
      /\ entered' = entered /\ offset' = offset + Cardinality(page)
      /\ got' = [x \in Rows |-> IF x \in page THEN got[x] + 1 ELSE got[x]]
  BY <1>1 DEF FindByOffset, Receive, rowVars
<1>3. TypeOK /\ through \subseteq Listed /\ page \subseteq Rows /\ Cardinality(page) \in Nat
  <2>1. TypeOK /\ through \subseteq Listed /\ page \subseteq Rows
    BY DEF ListIInv, Control, Listed
  <2> QED BY <2>1, RowsFinite
<1>4. PICK ahead \in SUBSET Listed :
         /\ page \cap ahead = {}
         /\ Cardinality(ahead) <= offset
         /\ page # {} => Cardinality(ahead) = offset
         /\ Cardinality(page) < Limit => page = Listed \ ahead
         /\ \A x \in ahead, y \in page : key[x] >= key[y]
         /\ \A x \in page, y \in (Listed \ ahead) \ page : key[x] >= key[y]
  BY <1>1, <1>3, PageParts
<1>5. SUFFICES ASSUME NEW x \in through, x \notin blurred, x \notin Blurred
               PROVE  /\ got'[x] <= 1 + entered
                      /\ got'[x] > 0 => \/ Cardinality(Ahead(key[x])) < offset + Cardinality(page)
                                        \/ got'[x] <= entered
  <2>1. \A at : Ahead(at)' = Ahead(at)
    BY <1>2 DEF Ahead, Listed
  <2> QED BY <1>2, <2>1 DEF NotAgain
<1>6. /\ got[x] <= 1 + entered
      /\ got[x] > 0 => Cardinality(Ahead(key[x])) < offset \/ got[x] <= entered
  BY <1>2, <1>5 DEF ListIInv, OffsetInv, NotAgain
<1>7. x \in Rows /\ x \in Listed /\ got[x] \in Nat /\ offset \in Nat /\ entered \in Nat
      /\ Cardinality(Ahead(key[x])) \in Nat /\ ahead \subseteq Rows
  <2>1. Ahead(key[x]) \subseteq Rows
    BY DEF Ahead, Listed
  <2>2. Cardinality(Ahead(key[x])) \in Nat
    BY <2>1, RowsFinite
  <2> QED BY <1>3, <2>2, RowTypes
<1>8. CASE x \in page
  <2>1. Cardinality(Ahead(key[x])) < offset + Cardinality(page)
    BY <1>3, <1>4, <1>8, AheadOfPage
  <2>2. ASSUME got[x] > 0
        PROVE  got[x] <= entered
    <3>1. Cardinality(ahead) = offset
      BY <1>4, <1>8
    <3>2. ASSUME NEW y \in ahead
          PROVE  key[y] > key[x]
      <4>1. y # x /\ y \in Listed /\ key[y] >= key[x]
        BY <1>4, <1>8
      <4>2. key[y] # key[x]
        BY <1>2, <1>5, <1>7, <4>1, OwnKey
      <4>3. key[x] \in Nat /\ key[y] \in Nat
        BY <1>3, <1>7, RowTypes
      <4> QED BY <4>1, <4>2, <4>3
    <3>3. ahead \subseteq Ahead(key[x]) /\ Ahead(key[x]) \subseteq Rows
      BY <3>2 DEF Ahead, Listed
    <3>4. Cardinality(ahead) <= Cardinality(Ahead(key[x]))
      BY <3>3, RowsSmaller
    <3> QED BY <1>6, <1>7, <2>2, <3>1, <3>4
  <2>3. got'[x] = got[x] + 1
    BY <1>2, <1>7, <1>8
  <2>4. got'[x] <= 1 + entered
    BY <1>7, <2>2, <2>3
  <2> QED BY <2>1, <2>4
<1>9. CASE x \notin page
  <2>1. got'[x] = got[x]
    BY <1>2, <1>7, <1>9
  <2> QED BY <1>3, <1>6, <1>7, <2>1
<1> QED BY <1>8, <1>9

(* And leaves none out, unless one left from ahead.                          *)
LEMMA FindByOffsetNotPast ==
    ASSUME ListIInv, FindByOffset
    PROVE  NotPast'
<1>1. PICK page \in SUBSET Listed :
         /\ Page(offset, page)
         /\ Receive(page)
         /\ reading' = IF Cardinality(page) < Limit THEN "done" ELSE "reading"
  BY DEF FindByOffset
<1>2. /\ list \notin Cursored /\ reading = "reading" /\ list' = list /\ state' = state
      /\ key' = key /\ through' = through /\ blurred' = blurred \cup Blurred
      /\ departed' = departed /\ offset' = offset + Cardinality(page)
      /\ got' = [x \in Rows |-> IF x \in page THEN got[x] + 1 ELSE got[x]]
  BY <1>1 DEF FindByOffset, Receive, rowVars
<1>3. TypeOK /\ through \subseteq Listed /\ page \subseteq Rows /\ Cardinality(page) \in Nat
  <2>1. TypeOK /\ through \subseteq Listed /\ page \subseteq Rows
    BY DEF ListIInv, Control, Listed
  <2> QED BY <2>1, RowsFinite
<1>4. PICK ahead \in SUBSET Listed :
         /\ page \cap ahead = {}
         /\ Cardinality(ahead) <= offset
         /\ page # {} => Cardinality(ahead) = offset
         /\ Cardinality(page) < Limit => page = Listed \ ahead
         /\ \A x \in ahead, y \in page : key[x] >= key[y]
         /\ \A x \in page, y \in (Listed \ ahead) \ page : key[x] >= key[y]
  BY <1>1, <1>3, PageParts
<1> SUFFICES ASSUME ~ departed
             PROVE  NotPast'
  BY <1>2 DEF NotPast
<1>5. /\ \A at \in 0 .. LastTick : ~ Passed(at) => Cardinality(Ahead(at)) >= offset
      /\ \A x \in through \ blurred : got[x] = 0 => ~ Passed(key[x])
  BY <1>2 DEF ListIInv, OffsetInv, NotPast
<1>6. \A at : Ahead(at)' = Ahead(at)
  BY <1>2 DEF Ahead, Listed
<1>7. /\ \A x \in Rows : got[x] \in Nat /\ key[x] \in Nat /\ key[x] \in 0 .. LastTick
      /\ offset \in Nat /\ Limit \in Nat \ {0} /\ Listed \subseteq Rows
  BY <1>3, RowTypes DEF TypeOK
(* Positions that are not passed with this page were not before              *)
<1>8. ASSUME NEW at \in Nat, \A x \in Rows : got'[x] > 0 => ~ (key[x] <= at)
      PROVE  ~ Passed(at) /\ \A x \in page : key[x] > at
  <2>1. \A x \in Rows : got[x] > 0 => got'[x] > 0
    BY <1>2, <1>7
  <2>2. \A x \in page : got'[x] > 0
    BY <1>2, <1>3, <1>7
  <2>3. \A x \in page : key[x] > at
    BY <1>3, <1>7, <1>8, <2>2
  <2> QED BY <1>8, <2>1, <2>3 DEF Passed
(* A row that is still to be given was not skipped                           *)
<1>9. ASSUME NEW x \in ahead, x \in through, x \notin blurred, got[x] = 0,
             \A z \in Listed \ ahead : key[z] <= key[x]
      PROVE  FALSE
  <2>1. Cardinality(Ahead(key[x])) < offset
    BY <1>3, <1>4, <1>9, AheadOfSkipped
  <2>2. ~ Passed(key[x]) /\ x \in Rows
    BY <1>5, <1>7, <1>9
  <2>3. Cardinality(Ahead(key[x])) >= offset
    BY <1>5, <1>7, <2>2
  <2>4. Ahead(key[x]) \subseteq Rows
    BY <1>7 DEF Ahead
  <2>5. Cardinality(Ahead(key[x])) \in Nat
    BY <2>4, RowsFinite
  <2> QED BY <1>7, <2>1, <2>3, <2>5
<1>10. ASSUME reading' = "reading", NEW at \in 0 .. LastTick, ~ Passed(at)'
       PROVE  Cardinality(Ahead(at)) >= offset + Cardinality(page)
  <2>0. at \in Nat
    BY RowTypes, <1>3
  <2>1. \A x \in Rows : got'[x] > 0 => ~ (key[x] <= at)
    BY <1>2, <1>10 DEF Passed
  <2>2. ~ Passed(at) /\ \A x \in page : key[x] > at
    BY <1>8, <2>0, <2>1
  <2>3. page # {}
    <3>1. ~ (Cardinality(page) < Limit)
      BY <1>1, <1>10
    <3>2. Cardinality(page) # 0
      BY <1>7, <3>1
    <3> QED BY <3>2, FS_EmptySet
  <2>4. Cardinality(ahead) = offset
    BY <1>4, <2>3
  <2>5. PICK y \in page : TRUE
    BY <2>3
  <2>6. ahead \cup page \subseteq Ahead(at)
    <3>1. \A z \in ahead : key[z] > at
      <4> TAKE z \in ahead
      <4>1. key[z] >= key[y] /\ key[y] > at
        BY <1>4, <2>2, <2>5
      <4> QED BY <1>3, <1>7, <2>0, <4>1
    <3> QED BY <2>2, <3>1 DEF Ahead
  <2>7. Ahead(at) \subseteq Rows
    BY <1>7 DEF Ahead
  <2>8. Cardinality(ahead \cup page) <= Cardinality(Ahead(at))
    BY <2>6, <2>7, RowsSmaller
  <2>9. IsFiniteSet(ahead) /\ IsFiniteSet(page) /\ Cardinality(ahead) \in Nat
        /\ Cardinality(Ahead(at)) \in Nat
    <3>1. ahead \subseteq Rows
      BY <1>7
    <3> QED BY <1>3, <2>7, <3>1, RowsFinite
  <2>10. Cardinality(ahead \cup page) = Cardinality(ahead) + Cardinality(page) - Cardinality(ahead \cap page)
    BY <2>9, FS_Union
  <2>11. Cardinality(ahead \cap page) = 0
    <3>1. ahead \cap page = {}
      BY <1>4
    <3> QED BY <3>1, FS_EmptySet
  <2> QED BY <1>3, <2>4, <2>8, <2>9, <2>10, <2>11
<1>11. ASSUME reading' = "reading", NEW x \in through, x \notin blurred, x \notin Blurred, got'[x] = 0
       PROVE  ~ Passed(key[x])'
  <2>1. x \in Rows /\ x \in Listed /\ x \notin page /\ got[x] = 0
    BY <1>2, <1>3, <1>7, <1>11
  <2>2. ~ Passed(key[x])
    BY <1>5, <1>11, <2>1
  <2>3. ASSUME NEW y \in page, key[y] <= key[x]
        PROVE  FALSE
    <3>1. key[y] < key[x]
      <4>1. key[y] # key[x]
        BY <1>2, <1>11, <2>1, OwnKey
      <4> QED BY <1>3, <1>7, <2>1, <2>3, <4>1
    <3>2. x \in ahead
      <4> SUFFICES ASSUME x \notin ahead PROVE FALSE
        OBVIOUS
      <4>1. key[y] >= key[x]
        BY <1>4, <2>1
      <4> QED BY <1>3, <1>7, <2>1, <3>1, <4>1
    <3>3. ASSUME NEW z \in Listed \ ahead
          PROVE  key[z] <= key[x]
      <4>1. CASE z \in page
        BY <1>3, <1>4, <1>7, <2>1, <3>2, <4>1
      <4>2. CASE z \notin page
        <5>1. key[y] >= key[z]
          BY <1>4, <4>2
        <5> QED BY <1>3, <1>7, <2>1, <3>1, <5>1
      <4> QED BY <4>1, <4>2
    <3> QED BY <1>9, <1>11, <2>1, <3>2, <3>3
  <2>4. \A y \in Rows : got'[y] > 0 => got[y] > 0 \/ y \in page
    BY <1>2
  <2> QED BY <1>2, <2>2, <2>3, <2>4 DEF Passed
<1>12. ASSUME reading' = "done", NEW x \in through, got'[x] = 0, x \notin blurred, x \notin Blurred
       PROVE  FALSE
  <2>1. x \in Rows /\ x \in Listed /\ x \notin page /\ got[x] = 0
    BY <1>2, <1>3, <1>7, <1>12
  <2>2. page = Listed \ ahead
    BY <1>1, <1>4, <1>12
  <2>3. x \in ahead
    BY <2>1, <2>2
  <2>4. \A z \in Listed \ ahead : key[z] <= key[x]
    <3> TAKE z \in Listed \ ahead
    <3>1. key[x] >= key[z]
      BY <1>4, <2>2, <2>3
    <3> QED BY <1>7, <2>1, <3>1
  <2> QED BY <1>9, <1>12, <2>1, <2>3, <2>4
<1> QED BY <1>2, <1>6, <1>10, <1>11, <1>12 DEF NotPast

-----------------------------------------------------------------------------
(* Each step preserves the invariant                                         *)

LEMMA ListInit == Init => ListIInv
<1> SUFFICES ASSUME Init PROVE ListIInv
  OBVIOUS
<1>1. TypeOK
  <2>1. NoCursor = NoCursor /\ 0 \in 0 .. LastTick /\ Milli \in 0 .. LastTick /\ 0 \in Nat
    BY ClockAssumption
  <2> QED BY <2>1 DEF Init, TypeOK
<1>2. Control
  <2>1. \A x \in Rows : key[x] <= now
    BY ClockAssumption DEF Init
  <2> QED BY <2>1 DEF Init, Control, Listed
<1>3. CursorInv
  BY DEF Init, CursorInv
<1>4. OffsetInv
  BY DEF Init, OffsetInv, NotAgain, NotPast
<1>5. ShownOrPushed
  BY DEF Init, ShownOrPushed
<1> QED BY <1>1, <1>2, <1>3, <1>4, <1>5 DEF ListIInv

LEMMA StutterStep ==
    ASSUME ListIInv, UNCHANGED vars
    PROVE  ListIInv'
<1> USE DEF vars, rowVars, client, reader, history
<1>1. TypeOK'
  BY DEF ListIInv, TypeOK
<1>2. Control'
  BY DEF ListIInv, Control, Listed
<1>3. CursorInv'
  BY DEF ListIInv, CursorInv, Below
<1>4. OffsetInv'
  <2>1. /\ list' = list /\ reading' = reading /\ offset' = offset /\ got' = got
        /\ through' = through /\ entered' = entered /\ departed' = departed /\ blurred' = blurred
        /\ state' = state /\ key' = key
    OBVIOUS
  <2> QED BY ONLY <2>1, ListIInv DEF ListIInv, OffsetInv, NotAgain, NotPast, Ahead, Passed, Listed
<1>5. ShownOrPushed'
  BY DEF ListIInv, ShownOrPushed, Listed
<1> QED BY <1>1, <1>2, <1>3, <1>4, <1>5 DEF ListIInv

LEMMA TickStep ==
    ASSUME ListIInv, Tick
    PROVE  ListIInv'
<1> USE DEF rowVars, client, reader, history
<1>1. TypeOK'
  <2>1. now' \in 0 .. LastTick
    BY ClockAssumption DEF ListIInv, TypeOK, Tick
  <2> QED BY <2>1 DEF ListIInv, TypeOK, Tick
<1>2. Control'
  <2>1. \A x \in Rows : key'[x] <= now'
    BY ClockAssumption DEF ListIInv, TypeOK, Control, Tick
  <2> QED BY <2>1 DEF ListIInv, Control, Tick, Listed
<1>3. CursorInv'
  BY DEF ListIInv, CursorInv, Below, Tick
<1>4. OffsetInv'
  BY DEF ListIInv, OffsetInv, NotAgain, NotPast, Ahead, Passed, Listed, Tick
<1>5. ShownOrPushed'
  BY DEF ListIInv, ShownOrPushed, Listed, Tick
<1> QED BY <1>1, <1>2, <1>3, <1>4, <1>5 DEF ListIInv

LEMMA InsertStep ==
    ASSUME ListIInv, NEW x \in Rows, Insert(x)
    PROVE  ListIInv'
<1> DEFINE k == IF list \in Moving THEN 0 ELSE now
<1>1. /\ state[x] = "none" /\ state' = [state EXCEPT ![x] = "inserting"]
      /\ key' = [key EXCEPT ![x] = k]
      /\ list' = list /\ now' = now /\ online' = online /\ pushed' = pushed
      /\ reading' = reading /\ offset' = offset /\ cursor' = cursor /\ got' = got
      /\ through' = through /\ entered' = entered /\ departed' = departed /\ blurred' = blurred
  BY DEF Insert, rowVars, client, reader, history
<1>2. k \in 0 .. LastTick /\ k <= now
  BY ClockAssumption DEF ListIInv, TypeOK
<1> HIDE DEF k
<1>3. TypeOK'
  BY <1>1, <1>2 DEF ListIInv, TypeOK
<1>4. Listed' = Listed /\ x \notin Listed /\ x \notin through
  BY <1>1 DEF ListIInv, TypeOK, Control, Listed
<1>5. \A y \in Rows : got[y] > 0 => y # x
  BY <1>1 DEF ListIInv, Control
<1>6. \A y \in Rows : y # x => key'[y] = key[y] /\ state'[y] = state[y]
  BY <1>1 DEF ListIInv, TypeOK
<1>7. key'[x] = k /\ state'[x] = "inserting"
  BY <1>1 DEF ListIInv, TypeOK
<1>8. Control'
  BY <1>1, <1>2, <1>4, <1>5, <1>6, <1>7 DEF ListIInv, Control
<1>9. CursorInv'
  <2>1. \A y \in Rows : y # x => (Below(y)' <=> Below(y))
    BY <1>1, <1>6 DEF Below
  <2>2. through \subseteq Rows
    BY DEF ListIInv, TypeOK
  <2> QED BY <1>1, <1>4, <1>5, <2>1, <2>2 DEF ListIInv, CursorInv
<1>10. OffsetInv'
  <2>1. \A at : Ahead(at)' = Ahead(at)
    BY <1>4, <1>6 DEF Ahead, Listed
  <2>2. \A at : Passed(at)' <=> Passed(at)
    BY <1>1, <1>5, <1>6 DEF Passed
  <2>3. \A y \in through : key'[y] = key[y]
    BY <1>4, <1>6 DEF ListIInv, TypeOK
  <2>4. NotAgain => NotAgain'
    BY <1>1, <2>1, <2>3 DEF NotAgain
  <2>5. NotPast => NotPast'
    BY <1>1, <2>1, <2>2, <2>3 DEF NotPast
  <2> QED BY <1>1, <2>4, <2>5 DEF ListIInv, OffsetInv
<1>11. ShownOrPushed'
  <2>1. \A y \in Listed : state'[y] = state[y]
    BY <1>4, <1>6 DEF Listed
  <2> QED BY <1>1, <1>4, <2>1 DEF ListIInv, ShownOrPushed
<1> QED BY <1>3, <1>8, <1>9, <1>10, <1>11 DEF ListIInv

LEMMA CommitStep ==
    ASSUME ListIInv, NEW x \in Rows, Commit(x)
    PROVE  ListIInv'
<1>1. /\ state[x] = "inserting"
      /\ state' = [state EXCEPT ![x] = IF list \in Pushed THEN "stored" ELSE "done"]
      /\ entered' = IF Passed(key[x]) THEN entered + 1 ELSE entered
      /\ key' = key
      /\ list' = list /\ now' = now /\ online' = online /\ pushed' = pushed
      /\ reading' = reading /\ offset' = offset /\ cursor' = cursor /\ got' = got
      /\ through' = through /\ departed' = departed /\ blurred' = blurred
  BY DEF Commit, client, reader
<1>2. TypeOK'
  <2>1. entered' \in Nat
    BY <1>1 DEF ListIInv, TypeOK
  <2> QED BY <1>1, <2>1 DEF ListIInv, TypeOK
<1>3. Listed' = Listed \cup {x} /\ x \notin Listed
  BY <1>1 DEF ListIInv, TypeOK, Listed
<1>4. \A y \in Rows : y # x => state'[y] = state[y]
  BY <1>1 DEF ListIInv, TypeOK
<1>5. Control'
  <2>1. \A y \in Rows : got'[y] > 0 => state'[y] \notin {"none", "inserting"}
    BY <1>1, <1>4 DEF ListIInv, Control
  <2>2. through' \subseteq Listed'
    BY <1>1, <1>3 DEF ListIInv, Control
  <2> QED BY <1>1, <2>1, <2>2 DEF ListIInv, Control
<1>6. CursorInv'
  BY <1>1 DEF ListIInv, CursorInv, Below
<1>7. OffsetInv'
  <2>1. \A at : Passed(at)' <=> Passed(at)
    BY <1>1 DEF Passed
  <2>2. \A at : ~ (key[x] > at) => Ahead(at)' = Ahead(at)
    BY <1>1, <1>3 DEF Ahead
  <2>3. \A at \in Nat : Cardinality(Ahead(at)) <= Cardinality(Ahead(at)')
    <3> TAKE at \in Nat
    <3>1. Ahead(at) \subseteq Ahead(at)' /\ Ahead(at)' \subseteq Rows
      BY <1>1, <1>3 DEF Ahead, Listed
    <3> QED BY <3>1, RowsSmaller
  <2>4. NotAgain => NotAgain'
    <3> SUFFICES ASSUME NotAgain, NEW y \in through \ blurred
                 PROVE  /\ got[y] <= 1 + entered'
                        /\ reading = "reading" /\ got[y] > 0 =>
                               Cardinality(Ahead(key[y])') < offset \/ got[y] <= entered'
      BY <1>1 DEF NotAgain
    <3>1. /\ got[y] <= 1 + entered
          /\ reading = "reading" /\ got[y] > 0 => Cardinality(Ahead(key[y])) < offset \/ got[y] <= entered
      BY DEF NotAgain
    <3>2. y \in Rows /\ got[y] \in Nat /\ entered \in Nat
      BY RowTypes DEF ListIInv
    <3>3. CASE Passed(key[x])
      <4>1. entered' = entered + 1
        BY <1>1, <3>3
      <4> QED BY <3>1, <3>2, <4>1
    <3>4. CASE ~ Passed(key[x])
      <4>1. entered' = entered
        BY <1>1, <3>4
      <4>2. ASSUME reading = "reading", got[y] > 0
            PROVE  Ahead(key[y])' = Ahead(key[y])
        <5>1. ~ (key[y] <= key[x])
          BY <3>2, <3>4, <4>2 DEF Passed
        <5>2. ~ (key[x] > key[y])
          BY <3>2, <5>1, RowTypes DEF ListIInv
        <5> QED BY <1>1, <1>3, <5>2 DEF Ahead
      <4> QED BY <3>1, <4>1, <4>2
    <3> QED BY <3>3, <3>4
  <2>5. NotPast => NotPast'
    <3> SUFFICES ASSUME NotPast, ~ departed, reading = "reading", NEW at \in 0 .. LastTick, ~ Passed(at)
                 PROVE  Cardinality(Ahead(at)') >= offset
      BY <1>1, <2>1 DEF NotPast
    <3>1. Cardinality(Ahead(at)) >= offset
      BY DEF NotPast
    <3>2. at \in Nat /\ offset \in Nat
      BY RowTypes DEF ListIInv
    <3>3. Ahead(at) \subseteq Rows /\ Ahead(at)' \subseteq Rows
      BY DEF Ahead, Listed
    <3>4. Cardinality(Ahead(at)) \in Nat /\ Cardinality(Ahead(at)') \in Nat
      BY <3>3, RowsFinite
    <3>5. Cardinality(Ahead(at)) <= Cardinality(Ahead(at)')
      BY <2>3, <3>2
    <3> QED BY <3>1, <3>2, <3>4, <3>5
  <2> QED BY <1>1, <2>4, <2>5 DEF ListIInv, OffsetInv
<1>8. ShownOrPushed'
  <2> SUFFICES ASSUME list \in Pushed, online, reading # "idle", NEW y \in Listed'
               PROVE  y \in through \/ state'[y] \in {"stored", "lost"} \/ y \in pushed
    BY <1>1 DEF ShownOrPushed
  <2>1. CASE y = x
    BY <1>1, <2>1 DEF ListIInv, TypeOK
  <2>2. CASE y # x
    <3>1. y \in Listed /\ state'[y] = state[y]
      BY <1>3, <1>4, <2>2 DEF Listed
    <3> QED BY <3>1 DEF ListIInv, ShownOrPushed
  <2> QED BY <2>1, <2>2
<1> QED BY <1>2, <1>5, <1>6, <1>7, <1>8 DEF ListIInv

LEMMA PushStep ==
    ASSUME ListIInv, NEW x \in Rows, Push(x)
    PROVE  ListIInv'
<1>1. /\ state[x] = "stored"
      /\ \/ /\ state' = [state EXCEPT ![x] = "done"]
            /\ pushed' = IF online THEN pushed \cup {x} ELSE pushed
         \/ /\ state' = [state EXCEPT ![x] = "lost"]
            /\ pushed' = pushed
      /\ key' = key /\ list' = list /\ now' = now /\ online' = online
      /\ reading' = reading /\ offset' = offset /\ cursor' = cursor /\ got' = got
      /\ through' = through /\ entered' = entered /\ departed' = departed /\ blurred' = blurred
  BY DEF Push, reader, history
<1>2. TypeOK'
  BY <1>1 DEF ListIInv, TypeOK
<1>3. \A y \in Rows : y # x => state'[y] = state[y]
  BY <1>1 DEF ListIInv, TypeOK
<1>4. \/ state'[x] = "done" /\ (online => x \in pushed')
      \/ state'[x] = "lost"
  BY <1>1 DEF ListIInv, TypeOK
<1>5. Listed' = Listed
  BY <1>1, <1>3, <1>4 DEF Listed
<1>6. Control'
  <2>1. \A y \in Rows : got'[y] > 0 => state'[y] \notin {"none", "inserting"}
    BY <1>1, <1>3, <1>4 DEF ListIInv, Control
  <2> QED BY <1>1, <1>5, <2>1 DEF ListIInv, Control
<1>7. CursorInv'
  BY <1>1 DEF ListIInv, CursorInv, Below
<1>8. OffsetInv'
  <2>1. \A at : Passed(at)' <=> Passed(at)
    BY <1>1 DEF Passed
  <2> QED BY <1>1, <1>5, <2>1 DEF ListIInv, OffsetInv, NotAgain, NotPast, Ahead
<1>9. ShownOrPushed'
  <2> SUFFICES ASSUME list \in Pushed, online, reading # "idle", NEW y \in Listed
               PROVE  y \in through \/ state'[y] \in {"stored", "lost"} \/ y \in pushed'
    BY <1>1, <1>5 DEF ShownOrPushed
  <2>1. y \in through \/ state[y] \in {"stored", "lost"} \/ y \in pushed
    BY DEF ListIInv, ShownOrPushed
  <2>2. CASE y = x
    BY <1>1, <1>4, <2>2
  <2>3. CASE y # x
    <3>1. state'[y] = state[y]
      BY <1>3, <2>3 DEF Listed
    <3>2. y \in pushed => y \in pushed'
      BY <1>1
    <3> QED BY <2>1, <3>1, <3>2
  <2> QED BY <2>2, <2>3
<1> QED BY <1>2, <1>6, <1>7, <1>8, <1>9 DEF ListIInv

LEMMA DeleteStep ==
    ASSUME ListIInv, NEW x \in Rows, Delete(x)
    PROVE  ListIInv'
<1>1. /\ list \in Leaving /\ x \in Listed /\ state' = [state EXCEPT ![x] = "left"]
      /\ through' = through \ {x} /\ departed' = (departed \/ Passed(key[x]))
      /\ key' = key /\ list' = list /\ now' = now /\ online' = online /\ pushed' = pushed
      /\ reading' = reading /\ offset' = offset /\ cursor' = cursor /\ got' = got
      /\ entered' = entered /\ blurred' = blurred
  BY DEF Delete, client, reader
<1>2. list \notin Cursored /\ list \notin Pushed
  BY <1>1 DEF Cursored, Pushed, Leaving
<1>3. TypeOK'
  <2>1. departed' \in BOOLEAN
    BY <1>1 DEF ListIInv, TypeOK, Passed
  <2> QED BY <1>1, <2>1 DEF ListIInv, TypeOK
<1>4. \A y \in Rows : y # x => state'[y] = state[y]
  BY <1>1 DEF ListIInv, TypeOK
<1>5. state'[x] = "left"
  BY <1>1 DEF ListIInv, TypeOK
<1>6. Listed' = Listed \ {x}
  BY <1>4, <1>5 DEF Listed
<1>7. Control'
  <2>1. \A y \in Rows : got'[y] > 0 => state'[y] \notin {"none", "inserting"}
    BY <1>1, <1>4, <1>5 DEF ListIInv, Control
  <2>2. through' \subseteq Listed'
    BY <1>1, <1>6 DEF ListIInv, Control
  <2>3. reading' = "idle" => ~ departed'
    BY <1>1 DEF ListIInv, Control, Passed
  <2> QED BY <1>1, <1>2, <2>1, <2>2, <2>3 DEF ListIInv, Control
<1>8. CursorInv' /\ ShownOrPushed'
  BY <1>1, <1>2 DEF CursorInv, ShownOrPushed
<1>9. OffsetInv'
  <2>1. \A at : Passed(at)' <=> Passed(at)
    BY <1>1 DEF Passed
  <2>2. \A at : Ahead(at)' \subseteq Ahead(at) /\ Ahead(at) \subseteq Rows
    BY <1>1, <1>6 DEF Ahead, Listed
  <2>3. NotAgain'
    <3> SUFFICES ASSUME NEW y \in through \ blurred
                 PROVE  /\ got[y] <= 1 + entered
                        /\ reading = "reading" /\ got[y] > 0 =>
                               Cardinality(Ahead(key[y])') < offset \/ got[y] <= entered
      BY <1>1 DEF NotAgain
    <3>1. /\ got[y] <= 1 + entered
          /\ reading = "reading" /\ got[y] > 0 => Cardinality(Ahead(key[y])) < offset \/ got[y] <= entered
      BY <1>2 DEF ListIInv, OffsetInv, NotAgain
    <3>2. Ahead(key[y])' \subseteq Ahead(key[y]) /\ Ahead(key[y]) \subseteq Rows
      BY <1>1, <1>6 DEF Ahead, Listed
    <3>3. /\ Cardinality(Ahead(key[y])') <= Cardinality(Ahead(key[y]))
          /\ Cardinality(Ahead(key[y])') \in Nat /\ Cardinality(Ahead(key[y])) \in Nat
      BY <3>2, RowsSmaller, RowsFinite
    <3>4. offset \in Nat
      BY RowTypes DEF ListIInv
    <3> QED BY <3>1, <3>3, <3>4
  <2>4. NotPast'
    <3> SUFFICES ASSUME ~ departed, ~ Passed(key[x])
                 PROVE  NotPast'
      BY <1>1 DEF NotPast
    <3>1. NotPast
      BY <1>2 DEF ListIInv, OffsetInv
    <3>2. ASSUME reading = "reading", NEW at \in 0 .. LastTick, ~ Passed(at)
          PROVE  Cardinality(Ahead(at)') >= offset
      <4> DEFINE older == IF key[x] > at THEN key[x] ELSE at
      <4>1. key[x] \in 0 .. LastTick
        BY <1>1 DEF ListIInv, TypeOK, Listed
      <4>2. older \in 0 .. LastTick /\ ~ Passed(older)
        BY <3>2, <4>1
      <4>3. Cardinality(Ahead(older)) >= offset
        <5> HIDE DEF older
        <5> QED BY <3>1, <3>2, <4>2 DEF NotPast
      <4>4. \A y \in Rows : key[y] \in Nat
        BY RowTypes DEF ListIInv
      <4>5. at \in Nat /\ offset \in Nat /\ LastTick \in Nat
        BY RowTypes DEF ListIInv
      <4>6. x \notin Ahead(older)
        BY <4>4, <4>5, <1>1 DEF Ahead, Listed
      <4>7. \A y \in Rows : key[y] > older => key[y] > at
        BY <1>1, <4>4, <4>5 DEF Listed
      <4> HIDE DEF older
      <4>8. Ahead(older) \subseteq Ahead(at)' /\ Ahead(at)' \subseteq Rows
        BY <1>1, <1>6, <4>6, <4>7 DEF Ahead, Listed
      <4>9. Cardinality(Ahead(older)) <= Cardinality(Ahead(at)')
        BY <4>8, RowsSmaller
      <4>10. Cardinality(Ahead(older)) \in Nat /\ Cardinality(Ahead(at)') \in Nat
        <5>1. Ahead(older) \subseteq Rows
          BY <4>8
        <5> QED BY <4>8, <5>1, RowsFinite
      <4> QED BY <4>3, <4>5, <4>9, <4>10
    <3> QED BY <1>1, <2>1, <3>1, <3>2 DEF NotPast
  <2> QED BY <2>3, <2>4 DEF OffsetInv
<1> QED BY <1>3, <1>7, <1>8, <1>9 DEF ListIInv

(* A row that moves up comes in ahead of those between, and one that moves   *)
(* down leaves none that was passed behind: those ahead of where it was are  *)
(* still ahead of every older position.                                      *)
LEMMA MoveStep ==
    ASSUME ListIInv, NEW x \in Rows, Move(x)
    PROVE  ListIInv'
<1>0. PICK at \in Dates : MoveTo(x, at)
  BY DEF Move
<1>1. /\ list \in Moving /\ x \in Listed /\ key' = [key EXCEPT ![x] = at]
      /\ through' = through \ {x}
      /\ entered' = IF key[x] < at /\ Passed(at) THEN entered + 1 ELSE entered
      /\ departed' = (departed \/ Passed(key[x]))
      /\ state' = state /\ list' = list /\ now' = now /\ online' = online /\ pushed' = pushed
      /\ reading' = reading /\ offset' = offset /\ cursor' = cursor /\ got' = got
      /\ blurred' = blurred
  BY <1>0 DEF MoveTo, client, reader
<1>2. list \notin Cursored /\ list \notin Pushed
  BY <1>1 DEF Cursored, Pushed, Moving
<1>3. now \in Nat /\ now <= LastTick /\ LastTick \in Nat /\ \A y \in Rows : key[y] \in Nat /\ key[y] <= now
  BY RowTypes DEF ListIInv, TypeOK, Control
<1>4. at \in Nat /\ at <= now /\ at \in 0 .. LastTick
  BY <1>3 DEF Dates
<1>5. TypeOK'
  <2>1. departed' \in BOOLEAN /\ entered' \in Nat
    BY <1>1 DEF ListIInv, TypeOK, Passed
  <2> QED BY <1>1, <1>4, <2>1 DEF ListIInv, TypeOK
<1>6. Listed' = Listed /\ x \in Rows /\ Listed \subseteq Rows
  BY <1>1 DEF Listed
<1>7. key'[x] = at /\ \A y \in Rows : y # x => key'[y] = key[y]
  BY <1>1 DEF ListIInv, TypeOK
<1>8. Control'
  <2>1. \A y \in Rows : key'[y] <= now'
    BY <1>1, <1>3, <1>4, <1>7
  <2>2. through' \subseteq Listed'
    BY <1>1, <1>6 DEF ListIInv, Control
  <2>3. reading' = "idle" => ~ departed'
    BY <1>1 DEF ListIInv, Control, Passed
  <2> QED BY <1>1, <1>2, <2>1, <2>2, <2>3 DEF ListIInv, Control
<1>9. CursorInv' /\ ShownOrPushed'
  BY <1>1, <1>2 DEF CursorInv, ShownOrPushed
<1>10. \A y \in through' : y \in through /\ y \in Rows /\ y # x /\ key'[y] = key[y]
  BY <1>1, <1>7 DEF ListIInv, TypeOK
<1>11. NotAgain'
  <2> SUFFICES ASSUME NEW y \in through' \ blurred
               PROVE  /\ got[y] <= 1 + entered'
                      /\ reading = "reading" /\ got[y] > 0 =>
                             Cardinality(Ahead(key[y])') < offset \/ got[y] <= entered'
    BY <1>1, <1>10 DEF NotAgain
  <2>1. y \in through \ blurred /\ y \in Rows
    BY <1>10
  <2>2. /\ got[y] <= 1 + entered
        /\ reading = "reading" /\ got[y] > 0 => Cardinality(Ahead(key[y])) < offset \/ got[y] <= entered
    BY <1>2, <2>1 DEF ListIInv, OffsetInv, NotAgain
  <2>3. got[y] \in Nat /\ entered \in Nat /\ offset \in Nat
    BY <2>1, RowTypes DEF ListIInv
  <2>4. CASE reading = "reading" /\ got[y] > 0 /\ key[x] <= key[y] /\ key[y] < at
    <3>1. Passed(at) /\ key[x] < at
      BY <1>3, <1>4, <2>1, <2>4 DEF Passed
    <3>2. entered' = entered + 1
      BY <1>1, <3>1
    <3> QED BY <2>2, <2>3, <3>2
  <2>5. CASE ~ (key[x] <= key[y] /\ key[y] < at)
    <3>1. Ahead(key[y])' \subseteq Ahead(key[y]) /\ Ahead(key[y]) \subseteq Rows
      <4>1. ASSUME NEW z \in Rows, key'[z] > key[y]
            PROVE  key[z] > key[y]
        BY <1>3, <1>4, <1>7, <2>1, <2>5, <4>1
      <4> QED BY <1>6, <1>10, <2>1, <4>1 DEF Ahead
    <3>2. /\ Cardinality(Ahead(key[y])') <= Cardinality(Ahead(key[y]))
          /\ Cardinality(Ahead(key[y])') \in Nat /\ Cardinality(Ahead(key[y])) \in Nat
      BY <3>1, RowsSmaller, RowsFinite
    <3>3. entered' \in {entered, entered + 1}
      BY <1>1
    <3> QED BY <2>2, <2>3, <3>2, <3>3
  <2>6. entered' \in {entered, entered + 1}
    BY <1>1
  <2> QED BY <2>2, <2>3, <2>4, <2>5, <2>6
<1>12. NotPast'
  <2> SUFFICES ASSUME ~ departed, ~ Passed(key[x])
               PROVE  NotPast'
    BY <1>1 DEF NotPast
  <2>1. NotPast
    BY <1>2 DEF ListIInv, OffsetInv
  <2>2. ASSUME reading = "reading"
        PROVE  \A q : Passed(q)' <=> Passed(q)
    <3>1. ~ (got[x] > 0)
      BY <1>3, <1>6, <2>2 DEF Passed
    <3> QED BY <1>1, <1>7, <3>1 DEF Passed
  <2>3. ASSUME reading = "reading", NEW q \in 0 .. LastTick, ~ Passed(q)
        PROVE  Cardinality(Ahead(q)') >= offset
    <3> DEFINE older == IF key[x] > q THEN key[x] ELSE q
    <3>1. q \in Nat /\ offset \in Nat /\ key[x] \in Nat
      BY <1>3, RowTypes DEF ListIInv
    <3>2. older \in 0 .. LastTick /\ ~ Passed(older)
      BY <1>3, <2>3
    <3>3. Cardinality(Ahead(older)) >= offset
      <4> HIDE DEF older
      <4> QED BY <2>1, <2>3, <3>2 DEF NotPast
    <3>4. x \notin Ahead(older)
      BY <1>3, <3>1 DEF Ahead
    <3>5. \A y \in Rows : key[y] > older => key[y] > q
      BY <1>3, <3>1
    <3> HIDE DEF older
    <3>6. Ahead(older) \subseteq Ahead(q)' /\ Ahead(q)' \subseteq Rows
      BY <1>6, <1>7, <3>4, <3>5 DEF Ahead
    <3>7. Ahead(older) \subseteq Rows
      BY <3>6
    <3>8. /\ Cardinality(Ahead(older)) <= Cardinality(Ahead(q)')
          /\ Cardinality(Ahead(older)) \in Nat /\ Cardinality(Ahead(q)') \in Nat
      BY <3>6, <3>7, RowsSmaller, RowsFinite
    <3> QED BY <3>1, <3>3, <3>8
  <2>4. ASSUME reading = "reading", NEW y \in through' \ blurred, got[y] = 0
        PROVE  ~ Passed(key[y])'
    <3>1. ~ Passed(key[y])
      BY <1>10, <2>1, <2>4 DEF NotPast
    <3>2. ~ (got[x] > 0)
      BY <1>3, <1>6, <2>4 DEF Passed
    <3>3. key'[y] = key[y]
      BY <1>10
    <3> QED BY <1>1, <1>7, <3>1, <3>2, <3>3 DEF Passed
  <2>5. ASSUME reading = "done", NEW y \in through', got[y] = 0
        PROVE  y \in blurred
    BY <1>10, <2>1, <2>5 DEF NotPast
  <2> QED BY <1>1, <2>2, <2>3, <2>4, <2>5 DEF NotPast
<1> QED BY <1>5, <1>8, <1>9, <1>11, <1>12 DEF ListIInv, OffsetInv

LEMMA ConnectStep ==
    ASSUME ListIInv, Connect
    PROVE  ListIInv'
<1> USE DEF rowVars, reader, history
<1>1. TypeOK'
  BY DEF ListIInv, TypeOK, Connect
<1>2. Control'
  BY DEF ListIInv, Control, Connect, Listed
<1>3. CursorInv'
  BY DEF ListIInv, CursorInv, Below, Connect
<1>4. OffsetInv'
  BY DEF ListIInv, OffsetInv, NotAgain, NotPast, Ahead, Passed, Listed, Connect
<1>5. ShownOrPushed'
  BY DEF ListIInv, Control, ShownOrPushed, Connect
<1> QED BY <1>1, <1>2, <1>3, <1>4, <1>5 DEF ListIInv

LEMMA DisconnectStep ==
    ASSUME ListIInv, Disconnect
    PROVE  ListIInv'
<1>1. /\ online' = FALSE /\ pushed' = {} /\ reading' = "idle" /\ offset' = 0
      /\ cursor' = NoCursor /\ got' = [y \in Rows |-> 0]
      /\ through' = {} /\ entered' = 0 /\ departed' = FALSE /\ blurred' = {}
      /\ list' = list /\ now' = now /\ state' = state /\ key' = key
  BY DEF Disconnect, rowVars
<1>2. TypeOK'
  BY <1>1 DEF ListIInv, TypeOK
<1>3. Control'
  BY <1>1 DEF ListIInv, Control
<1>4. CursorInv' /\ OffsetInv' /\ ShownOrPushed'
  BY <1>1 DEF CursorInv, OffsetInv, NotAgain, NotPast, ShownOrPushed
<1> QED BY <1>2, <1>3, <1>4 DEF ListIInv

LEMMA LoadStep ==
    ASSUME ListIInv, Load
    PROVE  ListIInv'
<1>1. /\ reading = "idle" /\ (list \in Pushed => online)
      /\ reading' = "reading" /\ through' = Listed
      /\ list' = list /\ now' = now /\ state' = state /\ key' = key
      /\ online' = online /\ pushed' = pushed /\ offset' = offset /\ cursor' = cursor /\ got' = got
      /\ entered' = entered /\ departed' = departed /\ blurred' = blurred
  BY DEF Load, rowVars, client
<1>2. TypeOK'
  BY <1>1 DEF ListIInv, TypeOK, Listed
<1>3. /\ \A y \in Rows : got[y] = 0
      /\ cursor = NoCursor /\ offset = 0
      /\ Listed \subseteq Rows
      /\ Listed' = Listed
  BY <1>1 DEF ListIInv, Control, Listed
<1>4. Control'
  BY <1>1, <1>3 DEF ListIInv, Control
<1>5. CursorInv'
  BY <1>1, <1>3 DEF CursorInv
<1>6. OffsetInv'
  <2>1. \A at : Cardinality(Ahead(at)') \in Nat
    <3> TAKE at
    <3>1. Ahead(at)' \subseteq Rows
      BY DEF Ahead, Listed
    <3> QED BY <3>1, RowsFinite
  <2>2. NotAgain'
    BY <1>1, <1>3, RowTypes DEF ListIInv, NotAgain
  <2>3. \A y \in through' : ~ Passed(key[y])'
    BY <1>1, <1>3 DEF Passed
  <2>4. NotPast'
    BY <1>1, <1>3, <2>1, <2>3 DEF NotPast
  <2> QED BY <2>2, <2>4 DEF OffsetInv
<1>7. ShownOrPushed'
  BY <1>1, <1>3 DEF ShownOrPushed
<1> QED BY <1>2, <1>4, <1>5, <1>6, <1>7 DEF ListIInv

(* A page changes the reading alone: the rest of the invariant stays.        *)
LEMMA PageKeeps ==
    ASSUME ListIInv, reading = "reading", NEW page, page \subseteq Listed, Receive(page),
           reading' \in {"reading", "done"},
           cursor' = NoCursor \/ cursor' \in (0 .. LastTick) \X Rows,
           list \notin Cursored => cursor' = NoCursor
    PROVE  TypeOK' /\ Control' /\ ShownOrPushed'
<1>1. /\ got' = [x \in Rows |-> IF x \in page THEN got[x] + 1 ELSE got[x]]
      /\ offset' = offset + Cardinality(page)
      /\ blurred' = blurred \cup Blurred
      /\ list' = list /\ now' = now /\ state' = state /\ key' = key /\ online' = online /\ pushed' = pushed
      /\ through' = through /\ entered' = entered /\ departed' = departed
  BY DEF Receive, rowVars, client
<1>2. page \subseteq Rows /\ Cardinality(page) \in Nat
  <2>1. page \subseteq Rows
    BY DEF Listed
  <2> QED BY <2>1, RowsFinite
<1>3. TypeOK'
  <2>1. got' \in [Rows -> Nat]
    BY <1>1 DEF ListIInv, TypeOK
  <2>2. offset' \in Nat
    BY <1>1, <1>2 DEF ListIInv, TypeOK
  <2>3. blurred' \in SUBSET Rows
    BY <1>1 DEF ListIInv, TypeOK, Blurred, Listed
  <2> QED BY <1>1, <2>1, <2>2, <2>3 DEF ListIInv, TypeOK
<1>4. Control'
  <2>1. \A x \in Rows : got'[x] > 0 => state'[x] \notin {"none", "inserting"}
    <3> SUFFICES ASSUME NEW x \in Rows, got'[x] > 0
                 PROVE  state[x] \notin {"none", "inserting"}
      BY <1>1
    <3>1. CASE x \in page
      BY <3>1 DEF Listed
    <3>2. CASE x \notin page
      BY <1>1, <3>2 DEF ListIInv, Control
    <3> QED BY <3>1, <3>2
  <2>2. Listed' = Listed
    BY <1>1 DEF Listed
  <2> QED BY <1>1, <2>1, <2>2 DEF ListIInv, Control
<1>5. ShownOrPushed'
  BY <1>1 DEF ListIInv, ShownOrPushed, Listed
<1> QED BY <1>3, <1>4, <1>5

LEMMA FindByConversationStep ==
    ASSUME ListIInv, FindByConversation
    PROVE  ListIInv'
<1> DEFINE rows == {x \in Listed : cursor = NoCursor \/ Below(x)}
           fetched == First(Limit + 1, rows)
           items == First(Limit, fetched)
           l == LastOf(items)
<1>1. /\ list \in Cursored /\ reading = "reading" /\ list' = list
      /\ Receive(items)
      /\ IF Cardinality(fetched) = Limit + 1
           THEN reading' = "reading" /\ cursor' = <<key[l] \div Milli, l>>
           ELSE reading' = "done" /\ cursor' = NoCursor
  BY DEF FindByConversation, Below, Receive
<1>2. TypeOK
  BY DEF ListIInv
<1>3. items \subseteq rows /\ items \subseteq Listed /\ rows \subseteq Rows
  BY DEF First, Listed
<1>4. cursor' = NoCursor \/ cursor' \in (0 .. LastTick) \X Rows
  <2>1. CASE Cardinality(fetched) = Limit + 1
    <3>1. l \in items
      <4> HIDE DEF rows
      <4> QED BY <1>2, <1>3, <2>1, ItemsBeforeRest
    <3>2. l \in Rows
      BY <1>3, <3>1
    <3> HIDE DEF l, items, fetched, rows
    <3>3. key[l] \in 0 .. LastTick /\ key[l] \in Nat /\ LastTick \in Nat
      BY <1>2, <3>2, RowTypes DEF TypeOK
    <3>4. key[l] \div Milli \in Nat /\ key[l] \div Milli <= key[l]
      BY <3>3, ClockAssumption, CutBelow, CutAtMost
    <3>5. key[l] \div Milli \in 0 .. LastTick
      BY <3>3, <3>4
    <3> QED BY <1>1, <2>1, <3>2, <3>5
  <2>2. CASE Cardinality(fetched) # Limit + 1
    <3> HIDE DEF l, items, fetched, rows
    <3> QED BY <1>1, <2>2
  <2> QED BY <2>1, <2>2
<1> HIDE DEF l, items, fetched, rows
<1>5. reading' \in {"reading", "done"}
  BY <1>1
<1>6. TypeOK' /\ Control' /\ ShownOrPushed'
  BY <1>1, <1>3, <1>4, <1>5, PageKeeps
<1>7. CursorInv'
  BY FindByConversationCursor
<1>8. OffsetInv'
  BY <1>1 DEF OffsetInv
<1> QED BY <1>6, <1>7, <1>8 DEF ListIInv

LEMMA FindByOffsetStep ==
    ASSUME ListIInv, FindByOffset
    PROVE  ListIInv'
<1>1. PICK page \in SUBSET Listed :
         /\ Page(offset, page)
         /\ Receive(page)
         /\ reading' = IF Cardinality(page) < Limit THEN "done" ELSE "reading"
  BY DEF FindByOffset
<1>2. list \notin Cursored /\ reading = "reading" /\ cursor' = cursor /\ list' = list
  BY <1>1 DEF FindByOffset, Receive
<1>3. cursor' = NoCursor
  BY <1>2 DEF ListIInv, Control
<1>4. reading' \in {"reading", "done"}
  BY <1>1
<1>5. TypeOK' /\ Control' /\ ShownOrPushed'
  BY <1>1, <1>2, <1>3, <1>4, PageKeeps
<1>6. CursorInv'
  BY <1>2 DEF CursorInv
<1>7. OffsetInv'
  BY FindByOffsetNotAgain, FindByOffsetNotPast DEF OffsetInv
<1> QED BY <1>5, <1>6, <1>7 DEF ListIInv

LEMMA ListNext ==
    ASSUME ListIInv, [Next]_vars
    PROVE  ListIInv'
<1>1. CASE Tick
  BY <1>1, TickStep
<1>2. CASE \E x \in Rows : Insert(x) \/ Commit(x) \/ Push(x) \/ Delete(x) \/ Move(x)
  <2>1. PICK x \in Rows : Insert(x) \/ Commit(x) \/ Push(x) \/ Delete(x) \/ Move(x)
    BY <1>2
  <2> QED BY <2>1, InsertStep, CommitStep, PushStep, DeleteStep, MoveStep
<1>3. CASE Connect
  BY <1>3, ConnectStep
<1>4. CASE Disconnect
  BY <1>4, DisconnectStep
<1>5. CASE Load
  BY <1>5, LoadStep
<1>6. CASE FindByConversation
  BY <1>6, FindByConversationStep
<1>7. CASE FindByOffset
  BY <1>7, FindByOffsetStep
<1>8. CASE UNCHANGED vars
  BY <1>8, StutterStep
<1> QED BY <1>1, <1>2, <1>3, <1>4, <1>5, <1>6, <1>7, <1>8 DEF Next

LEMMA ListInvariance == Spec => []ListIInv
<1>1. Init => ListIInv
  BY ListInit
<1>2. ListIInv /\ [Next]_vars => ListIInv'
  BY ListNext
<1> QED BY <1>1, <1>2, PTL DEF Spec

-----------------------------------------------------------------------------
(* Theorems                                                                  *)

(* The variables of a list and of its reading keep their types.              *)
THEOREM ListTypesCorrect == Spec => []TypeOK
<1>1. ListIInv => TypeOK
  BY DEF ListIInv
<1> QED BY <1>1, ListInvariance, PTL

(* However rows come, go and move while a list is read page by page, the     *)
(* cursor gives no row twice, and a row that was there all the time is given *)
(* once, but for the cases that ListedOnce names.                            *)
THEOREM RowsListedOnce == Spec => []ListedOnce
<1>1. ASSUME ListIInv PROVE ListedOnce
  <2>1. list \in Cursored => \A x \in Rows : got[x] <= 1
    BY <1>1 DEF ListIInv, CursorInv
  <2>2. ASSUME NEW x \in through
        PROVE  /\ got[x] <= 1 + entered \/ x \in blurred
               /\ reading = "done" /\ got[x] = 0 => departed \/ x \in blurred
    <3>1. x \in Rows /\ got[x] \in Nat /\ entered \in Nat
      BY <1>1, RowTypes DEF ListIInv
    <3>2. CASE list \in Cursored
      BY <1>1, <2>1, <3>1, <3>2 DEF ListIInv, CursorInv
    <3>3. CASE list \notin Cursored
      <4>1. NotAgain /\ NotPast
        BY <1>1, <3>3 DEF ListIInv, OffsetInv
      <4>2. got[x] <= 1 + entered \/ x \in blurred
        BY <3>1, <4>1 DEF NotAgain
      <4>3. reading = "done" /\ got[x] = 0 => departed \/ x \in blurred
        BY <4>1 DEF NotPast
      <4> QED BY <4>2, <4>3
    <3> QED BY <3>2, <3>3
  <2> QED BY <2>1, <2>2 DEF ListedOnce
<1> QED BY <1>1, ListInvariance, PTL

(* A client that connects before it loads its list misses no row whose       *)
(* handler is done, whenever the INSERT is committed between its pages.      *)
THEOREM NothingIsMissed == Spec => []NothingMissed
<1>1. ASSUME ListIInv PROVE NothingMissed
  <2> SUFFICES ASSUME list \in Pushed, online, reading = "done", NEW x \in Rows, state[x] = "done"
               PROVE  got[x] > 0 \/ x \in pushed \/ x \in blurred
    BY DEF NothingMissed
  <2>1. x \in Listed
    BY DEF Listed
  <2>2. x \in through \/ x \in pushed
    BY <1>1, <2>1 DEF ListIInv, ShownOrPushed
  <2>3. x \in through /\ got[x] = 0 => x \in blurred
    BY <1>1 DEF ListIInv, Control, CursorInv, OffsetInv, NotPast
  <2>4. got[x] = 0 \/ got[x] > 0
    <3>1. got[x] \in Nat
      BY <1>1, RowTypes DEF ListIInv
    <3> QED BY <3>1
  <2> QED BY <2>2, <2>3, <2>4
<1> QED BY <1>1, ListInvariance, PTL

-----------------------------------------------------------------------------
(* The typing indicator: the inductive invariant                             *)

TypingIInv == TypingTypeOK /\ AutoStopNotLate /\ IndicatorCovered

-----------------------------------------------------------------------------
(* The lookups as a sequence, and the last thing told or about to be told.   *)

LEMMA Bounded ==
    ASSUME NEW s
    PROVE  s \in SeqOf(BOOLEAN, MaxLookups) <=> s \in Seq(BOOLEAN) /\ Len(s) <= MaxLookups
<1>1. ASSUME s \in SeqOf(BOOLEAN, MaxLookups)
      PROVE  s \in Seq(BOOLEAN) /\ Len(s) <= MaxLookups
  <2>1. PICK m \in 0 .. MaxLookups : s \in [1 .. m -> BOOLEAN]
    BY <1>1 DEF SeqOf
  <2>2. m \in Nat /\ m <= MaxLookups
    BY LookupsAssumption
  <2>3. QED
    BY <2>1, <2>2
<1>2. ASSUME s \in Seq(BOOLEAN), Len(s) <= MaxLookups
      PROVE  s \in SeqOf(BOOLEAN, MaxLookups)
  <2>1. Len(s) \in 0 .. MaxLookups /\ s \in [1 .. Len(s) -> BOOLEAN]
    BY <1>2, LookupsAssumption
  <2>2. QED
    BY <2>1 DEF SeqOf
<1>3. QED
  BY <1>1, <1>2

LEMMA ForwardAppends ==
    ASSUME lookups \in SeqOf(BOOLEAN, MaxLookups), NEW b \in BOOLEAN, Forward(b)
    PROVE  /\ lookups' \in SeqOf(BOOLEAN, MaxLookups)
           /\ Len(lookups') = Len(lookups) + 1 /\ lookups'[Len(lookups')] = b
<1>1. lookups \in Seq(BOOLEAN) /\ Len(lookups) < MaxLookups /\ lookups' = Append(lookups, b)
  BY Bounded DEF Forward
<1>2. lookups' \in Seq(BOOLEAN) /\ Len(lookups') = Len(lookups) + 1
  BY <1>1
<1>3. Len(lookups') <= MaxLookups /\ lookups'[Len(lookups')] = b
  BY <1>1, <1>2, LookupsAssumption
<1>4. QED
  BY <1>2, <1>3, Bounded

LEMMA RemoveShortens ==
    ASSUME NEW s \in SeqOf(BOOLEAN, MaxLookups), NEW i \in 1 .. Len(s)
    PROVE  /\ RemoveAt(s, i) \in SeqOf(BOOLEAN, MaxLookups)
           /\ Len(s) = 1 => RemoveAt(s, i) = <<>>
           /\ i < Len(s) => /\ RemoveAt(s, i) # <<>>
                            /\ RemoveAt(s, i)[Len(RemoveAt(s, i))] = s[Len(s)]
<1>1. s \in Seq(BOOLEAN) /\ Len(s) <= MaxLookups
  BY Bounded
<1> DEFINE before == SubSeq(s, 1, i - 1)
           after == SubSeq(s, i + 1, Len(s))
<1>2. RemoveAt(s, i) = before \o after
  BY DEF RemoveAt
<1>3. /\ before \in Seq(BOOLEAN) /\ Len(before) = i - 1
      /\ after \in Seq(BOOLEAN) /\ Len(after) = Len(s) - i
      /\ \A k \in 1 .. Len(s) - i : after[k] = s[k + i]
  BY <1>1
<1> HIDE DEF before, after
<1>4. RemoveAt(s, i) \in Seq(BOOLEAN) /\ Len(RemoveAt(s, i)) = Len(s) - 1
  <2>1. before \o after \in Seq(BOOLEAN) /\ Len(before \o after) = Len(before) + Len(after)
    BY <1>3, ConcatProperties
  <2>2. Len(s) \in Nat /\ i \in Nat
    BY <1>1
  <2>3. QED
    BY <1>2, <1>3, <2>1, <2>2
<1>5. RemoveAt(s, i) \in SeqOf(BOOLEAN, MaxLookups)
  BY <1>1, <1>4, LookupsAssumption, Bounded
<1>6. ASSUME Len(s) = 1
      PROVE  RemoveAt(s, i) = <<>>
  BY <1>4, <1>6
<1>7. ASSUME i < Len(s)
      PROVE  /\ RemoveAt(s, i) # <<>>
             /\ RemoveAt(s, i)[Len(RemoveAt(s, i))] = s[Len(s)]
  <2>1. i \in Nat /\ i >= 1 /\ Len(s) \in Nat
    BY <1>1
  <2>2. Len(RemoveAt(s, i)) = Len(s) - 1 /\ Len(RemoveAt(s, i)) > 0
    BY <1>4, <1>7, <2>1
  <2>3. (before \o after)[Len(s) - 1] = after[Len(s) - i]
    BY <1>3, <1>7, <2>1
  <2>4. after[Len(s) - i] = s[Len(s)]
    BY <1>3, <1>7, <2>1
  <2>5. QED
    BY <1>2, <1>4, <2>2, <2>3, <2>4
<1>8. QED
  BY <1>5, <1>6, <1>7

(* The last of what was told and what is looked up, which IndicatorCovered   *)
(* is about                                                                  *)
LastTold(b, s) == IF s = <<>> THEN b ELSE s[Len(s)]

LEMMA LastOfTold ==
    ASSUME NEW b \in BOOLEAN, NEW s \in SeqOf(BOOLEAN, MaxLookups)
    PROVE  Last(<<b>> \o s) = LastTold(b, s)
<1>1. s \in Seq(BOOLEAN)
  BY Bounded
<1>2. Len(<<b>> \o s) = Len(s) + 1
  BY <1>1
<1>3. (<<b>> \o s)[Len(s) + 1] = LastTold(b, s)
  BY <1>1 DEF LastTold
<1>4. QED
  BY <1>2, <1>3 DEF Last

LEMMA Covered ==
    ASSUME TypingTypeOK
    PROVE  IndicatorCovered <=> (disturbed \/ (LastTold(indicator, lookups) => entry # NoEntry))
<1>1. Last(<<indicator>> \o lookups) = LastTold(indicator, lookups)
  BY LastOfTold DEF TypingTypeOK
<1>2. QED
  BY <1>1, Zenon DEF IndicatorCovered

LEMMA CoveredNext ==
    ASSUME TypingTypeOK'
    PROVE  IndicatorCovered' <=>
             (disturbed' \/ (LastTold(indicator', lookups') => entry' # NoEntry))
<1>1. Last(<<indicator'>> \o lookups') = LastTold(indicator', lookups')
  BY LastOfTold DEF TypingTypeOK
<1>2. QED
  BY <1>1, Zenon DEF IndicatorCovered

LEMMA EntryFields ==
    /\ \A e \in [idle: 0 .. AutoStop, timer: 0 .. AutoStop] : e # NoEntry
    /\ NoEntry.timer = -1
BY TimesAssumption DEF NoEntry

-----------------------------------------------------------------------------
(* Each action.                                                              *)

(* handleTyping(true) starts or goes on with a session whose timer is armed  *)
LEMMA StartTypingKeeps ==
    ASSUME TypingIInv, StartTyping
    PROVE  TypingIInv'
<1>1. lookups \in SeqOf(BOOLEAN, MaxLookups) /\ Forward(TRUE)
      /\ UNCHANGED <<indicator, connected, writing, disturbed>>
  BY DEF TypingIInv, TypingTypeOK, StartTyping
<1> DEFINE timer == IF entry # NoEntry /\ entry.idle < Debounce THEN entry.timer ELSE AutoStop
<1>2. entry' = [idle |-> 0, timer |-> timer] /\ timer \in 0 .. AutoStop
  BY TimesAssumption DEF TypingIInv, TypingTypeOK, StartTyping
<1> HIDE DEF timer
<1>3. entry' \in [idle: 0 .. AutoStop, timer: 0 .. AutoStop]
  BY <1>2, TimesAssumption
<1>4. lookups' \in SeqOf(BOOLEAN, MaxLookups)
  BY <1>1, ForwardAppends
<1>5. indicator \in BOOLEAN /\ connected \in BOOLEAN /\ writing \in BOOLEAN /\ disturbed \in BOOLEAN
  BY DEF TypingIInv, TypingTypeOK
<1>6. TypingTypeOK'
  BY <1>1, <1>3, <1>4, <1>5 DEF TypingTypeOK
<1>7. AutoStopNotLate'
  BY <1>2, TimesAssumption DEF AutoStopNotLate
<1>8. IndicatorCovered'
  <2>1. entry' # NoEntry
    BY <1>3, EntryFields
  <2>2. QED
    BY <2>1 DEF IndicatorCovered
<1>9. QED
  BY <1>6, <1>7, <1>8 DEF TypingIInv

(* The events that end a session forward a stop                              *)
LEMMA StopKeeps ==
    ASSUME TypingIInv, Forward(FALSE), entry' = NoEntry, UNCHANGED <<indicator, connected, writing, disturbed>>
    PROVE  TypingIInv'
<1>1. lookups \in SeqOf(BOOLEAN, MaxLookups)
      /\ indicator \in BOOLEAN /\ connected \in BOOLEAN
      /\ writing \in BOOLEAN /\ disturbed \in BOOLEAN
  BY DEF TypingIInv, TypingTypeOK
<1>2. /\ lookups' \in SeqOf(BOOLEAN, MaxLookups)
      /\ Len(lookups') = Len(lookups) + 1 /\ lookups'[Len(lookups')] = FALSE
  BY <1>1, ForwardAppends
<1>3. TypingTypeOK'
  BY <1>1, <1>2 DEF TypingTypeOK
<1>4. AutoStopNotLate'
  BY DEF AutoStopNotLate
<1>5. lookups' # <<>>
  <2>1. Len(lookups) \in Nat /\ Len(lookups') = Len(lookups) + 1
    BY <1>1, <1>2, Bounded
  <2>2. QED
    BY <2>1
<1>6. ~ LastTold(indicator', lookups')
  BY <1>2, <1>5 DEF LastTold
<1>7. IndicatorCovered'
  BY <1>3, <1>6, CoveredNext
<1>8. QED
  BY <1>3, <1>4, <1>7 DEF TypingIInv

(* Half a second brings the timer nearer by as much as it ages the session   *)
LEMMA ElapseKeeps ==
    ASSUME TypingIInv, Elapse
    PROVE  TypingIInv'
<1>1. /\ entry \in [idle: 0 .. AutoStop, timer: 0 .. AutoStop] /\ entry.timer > 0
      /\ entry' = [idle |-> IF entry.idle < AutoStop THEN entry.idle + 1 ELSE AutoStop,
                   timer |-> entry.timer - 1]
      /\ UNCHANGED <<lookups, indicator, connected, writing, disturbed>>
  BY DEF TypingIInv, TypingTypeOK, Elapse
<1>2. entry' \in [idle: 0 .. AutoStop, timer: 0 .. AutoStop]
  BY <1>1, TimesAssumption
<1>3. entry # NoEntry /\ entry' # NoEntry
  BY <1>1, <1>2, EntryFields
<1>4. TypingTypeOK'
  BY <1>1, <1>2 DEF TypingIInv, TypingTypeOK
<1>5. AutoStopNotLate'
  <2>1. entry.timer + entry.idle <= AutoStop
    BY <1>3 DEF TypingIInv, AutoStopNotLate
  <2>2. entry'.timer = entry.timer - 1 /\ entry'.idle <= entry.idle + 1
    BY <1>1, TimesAssumption
  <2>3. entry'.idle \in Int /\ entry.timer \in Int /\ entry.idle \in Int
    BY <1>1, <1>2, TimesAssumption
  <2>4. QED
    BY <2>1, <2>2, <2>3, TimesAssumption DEF AutoStopNotLate
<1>6. IndicatorCovered'
  BY <1>3 DEF IndicatorCovered
<1>7. QED
  BY <1>4, <1>5, <1>6 DEF TypingIInv

(* A lookup that is gone leaves the last in line what it was, unless it was  *)
(* the newest; a start's has a session behind it, and a stop's, when it is   *)
(* alone and delivered, turns the indicator off.                             *)
LEMMA AnswerKeeps ==
    ASSUME TypingIInv, NEW i \in 1 .. Len(lookups), lookups' = RemoveAt(lookups, i),
           indicator' \in {indicator, lookups[i]}, disturbed' \in BOOLEAN, disturbed => disturbed',
           NewestStop(i) => disturbed' \/ (i = 1 /\ ~ indicator'),
           UNCHANGED <<entry, connected, writing>>
    PROVE  TypingIInv'
<1>1. lookups \in SeqOf(BOOLEAN, MaxLookups) /\ lookups \in Seq(BOOLEAN)
      /\ indicator \in BOOLEAN /\ connected \in BOOLEAN /\ writing \in BOOLEAN
  BY Bounded DEF TypingIInv, TypingTypeOK
<1>2. /\ lookups' \in SeqOf(BOOLEAN, MaxLookups)
      /\ Len(lookups) = 1 => lookups' = <<>>
      /\ i < Len(lookups) => lookups' # <<>> /\ lookups'[Len(lookups')] = lookups[Len(lookups)]
  BY <1>1, RemoveShortens
<1>3. TypingTypeOK'
  BY <1>1, <1>2 DEF TypingIInv, TypingTypeOK
<1>4. AutoStopNotLate'
  BY DEF TypingIInv, AutoStopNotLate
<1>5. lookups # <<>> /\ LastTold(indicator, lookups) = lookups[Len(lookups)]
  BY <1>1 DEF LastTold
<1>6. disturbed \/ (lookups[Len(lookups)] => entry # NoEntry)
  BY <1>5, Covered DEF TypingIInv
<1>7. CASE disturbed'
  BY <1>3, <1>4, <1>7 DEF TypingIInv, IndicatorCovered
<1>8. CASE ~ disturbed' /\ i < Len(lookups)
  <2>1. LastTold(indicator', lookups') = lookups[Len(lookups)]
    BY <1>2, <1>8 DEF LastTold
  <2>2. IndicatorCovered'
    BY <1>3, <1>6, <2>1, CoveredNext
  <2>3. QED
    BY <1>3, <1>4, <2>2 DEF TypingIInv
<1>9. CASE ~ disturbed' /\ i = Len(lookups) /\ lookups[i]
  <2>1. entry' # NoEntry
    BY <1>6, <1>9
  <2>2. IndicatorCovered'
    BY <2>1 DEF IndicatorCovered
  <2>3. QED
    BY <1>3, <1>4, <2>2 DEF TypingIInv
<1>10. CASE ~ disturbed' /\ i = Len(lookups) /\ ~ lookups[i]
  <2>1. i = 1 /\ ~ indicator' /\ lookups' = <<>>
    BY <1>2, <1>10 DEF NewestStop
  <2>2. ~ LastTold(indicator', lookups')
    BY <2>1 DEF LastTold
  <2>3. IndicatorCovered'
    BY <1>3, <2>2, CoveredNext
  <2>4. QED
    BY <1>3, <1>4, <2>3 DEF TypingIInv
<1>11. i < Len(lookups) \/ i = Len(lookups)
  BY <1>1
<1>12. QED
  BY <1>7, <1>8, <1>9, <1>10, <1>11

LEMMA TypingNextKeeps == TypingIInv /\ [TypingNext]_typingVars => TypingIInv'
<1> SUFFICES ASSUME TypingIInv, [TypingNext]_typingVars PROVE TypingIInv'
  OBVIOUS
<1>1. CASE StopTyping \/ HandleDisconnect \/ TimerFires
  BY <1>1, StopKeeps DEF StopTyping, HandleDisconnect, TimerFires
<1>2. CASE Leave
  <2>1. TypingTypeOK' /\ AutoStopNotLate'
    BY <1>2 DEF Leave, TypingIInv, TypingTypeOK, AutoStopNotLate
  <2>2. IndicatorCovered'
    BY <1>2 DEF Leave, TypingIInv, IndicatorCovered
  <2>3. QED
    BY <2>1, <2>2 DEF TypingIInv
<1>3. CASE RecipientSockets
  BY <1>3 DEF RecipientSockets, TypingIInv, TypingTypeOK, AutoStopNotLate, IndicatorCovered
<1>4. ASSUME NEW i \in 1 .. MaxLookups, Answer(i)
      PROVE  TypingIInv'
  <2>1. /\ i \in 1 .. Len(lookups) /\ lookups' = RemoveAt(lookups, i)
        /\ indicator' = IF connected THEN lookups[i] ELSE indicator
        /\ disturbed' = (disturbed \/ (NewestStop(i) /\ (i > 1 \/ ~ connected)))
        /\ UNCHANGED <<entry, connected, writing>>
    BY <1>4 DEF Answer
  <2>2. disturbed' \in BOOLEAN /\ (disturbed => disturbed')
    BY <2>1, Zenon DEF TypingIInv, TypingTypeOK
  <2>3. CASE disturbed'
    BY <2>1, <2>2, <2>3, AnswerKeeps
  <2>4. CASE ~ disturbed'
    <3>1. ~ NewestStop(i) \/ (~ (i > 1) /\ connected)
      BY <2>1, <2>4, Zenon
    <3>2. NewestStop(i) => i = 1 /\ ~ indicator'
      BY <2>1, <3>1 DEF NewestStop
    <3>3. indicator' \in {indicator, lookups[i]}
      BY <2>1
    <3>4. QED
      BY <2>1, <2>2, <3>2, <3>3, AnswerKeeps
  <2>5. QED
    BY <2>3, <2>4
<1>5. ASSUME NEW i \in 1 .. MaxLookups, LookupFails(i)
      PROVE  TypingIInv'
  <2>1. /\ i \in 1 .. Len(lookups) /\ lookups' = RemoveAt(lookups, i)
        /\ disturbed' = (disturbed \/ NewestStop(i))
        /\ UNCHANGED <<entry, indicator, connected, writing>>
    BY <1>5 DEF LookupFails
  <2>2. disturbed' \in BOOLEAN /\ (disturbed => disturbed') /\ (NewestStop(i) => disturbed')
    BY <2>1, Zenon DEF TypingIInv, TypingTypeOK
  <2>3. indicator' \in {indicator, lookups[i]}
    BY <2>1
  <2>4. QED
    BY <2>1, <2>2, <2>3, AnswerKeeps
<1>6. CASE UNCHANGED typingVars
  BY <1>6 DEF typingVars, TypingIInv, TypingTypeOK, AutoStopNotLate, IndicatorCovered
<1>7. QED
  BY <1>1, <1>2, <1>3, <1>4, <1>5, <1>6, StartTypingKeeps, ElapseKeeps DEF TypingNext

LEMMA TypingInitHolds == TypingInit => TypingIInv
<1> SUFFICES ASSUME TypingInit PROVE TypingIInv
  OBVIOUS
<1>1. <<>> \in SeqOf(BOOLEAN, MaxLookups)
  <2>1. <<>> \in Seq(BOOLEAN) /\ Len(<<>>) = 0
    OBVIOUS
  <2>2. Len(<<>>) <= MaxLookups
    BY <2>1, LookupsAssumption
  <2>3. QED
    BY <2>1, <2>2, Bounded
<1>2. TypingTypeOK
  BY <1>1 DEF TypingInit, TypingTypeOK
<1>3. AutoStopNotLate
  BY DEF TypingInit, AutoStopNotLate
<1>4. ~ LastTold(indicator, lookups)
  BY DEF TypingInit, LastTold
<1>5. QED
  BY <1>2, <1>3, <1>4, Covered DEF TypingIInv

LEMMA TypingInvariance == TypingSpec => []TypingIInv
BY TypingInitHolds, TypingNextKeeps, PTL DEF TypingSpec

(* The entry of TypingService is absent or has both of its times in range,   *)
(* and no more lookups are in flight than the bound.                         *)
THEOREM TypingTypesCorrect == TypingSpec => []TypingTypeOK
<1>1. TypingIInv => TypingTypeOK
  BY DEF TypingIInv
<1>2. QED
  BY <1>1, TypingInvariance, PTL

(* For any DEBOUNCE_MS shorter than AUTO_STOP_MS, the events that debounce   *)
(* does not let rearm the timer never delay the auto-stop past AUTO_STOP_MS  *)
(* after the last of them.                                                   *)
THEOREM AutoStopIsInTime == TypingSpec => []AutoStopNotLate
<1>1. TypingIInv => AutoStopNotLate
  BY DEF TypingIInv
<1>2. QED
  BY <1>1, TypingInvariance, PTL

(* With any number of lookups in flight and the other participant's sockets  *)
(* coming and going, an indicator that is on, or is about to be, has a       *)
(* session behind it whose timer will turn it off, unless the newest stop    *)
(* overtook another lookup or was lost.                                      *)
THEOREM IndicatorStaysCovered == TypingSpec => []IndicatorCovered
<1>1. TypingIInv => IndicatorCovered
  BY DEF TypingIInv
<1>2. QED
  BY <1>1, TypingInvariance, PTL

=============================================================================
