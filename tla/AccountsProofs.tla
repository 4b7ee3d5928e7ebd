--------------------------- MODULE AccountsProofs ---------------------------
(***************************************************************************)
(* TLAPS proofs about Accounts, for any accounts, names and any finite     *)
(* sets of posts and requests.  The inductive invariant first says what is *)
(* in the rows and in the jobs; then, of each account whose history has    *)
(* no mishap, what a request that holds a copy of a row still knows of     *)
(* the row, and which request will do what is still to be done: mark the   *)
(* account, announce the profile, count the post.                          *)
(***************************************************************************)
EXTENDS Accounts, FiniteSetTheorems, TLAPS

Control == {"idle"} \cup Steps \cup Outcomes

BaseRows == [row: {TRUE}, verified: BOOLEAN, complete: BOOLEAN, posts: Int]

Filled == [row: {TRUE}, username: Usernames, image: BOOLEAN]

BaseColumns == {"verified", "complete", "posts"}

ProfileColumns == {"username", "image"}

Flags == {"verified", "complete", "password"}

Jobs == [user: Users \cup {None},
         arg: Usernames \cup Posts \cup Flags \cup {None},
         copy: {NoRow} \cup BaseRows \cup Filled,
         columns: SUBSET ({"*"} \cup BaseColumns \cup ProfileColumns)]

FlagSteps == {"baseFind"} \cup SaveSteps
NameSteps == {"completeInsert", "updateFind"}
HeldSteps == {"completeFind", "updateCheck", "profileReload", "profileWrite", "updated"}
PostArgSteps == {"postInsert", "postRemove"} \cup PostSteps
EmitSteps == {"completeFind", "updated", "deleted"}

(* What a request at this step holds                                         *)
Fits(step, args) ==
    /\ step \in Control /\ args \in Jobs
    /\ step \in Steps => args.user \in Users
    /\ step \in FlagSteps => args.arg \in Flags
    /\ step \in SaveSteps => args.copy \in BaseRows
    /\ step = "baseWrite" => args.columns = {"*"} \/ args.columns \subseteq BaseColumns
    /\ step \in NameSteps => args.arg \in Usernames
    /\ step \in HeldSteps => args.copy \in Filled
    /\ step = "profileWrite" => args.columns = {"*"} \/ args.columns \subseteq ProfileColumns
    /\ step \in PostArgSteps => args.arg \in Posts

Typed ==
    /\ TypeOK
    /\ base \in [Users -> {NoRow} \cup BaseRows]
    /\ job \in [Requests -> Jobs]
    /\ \A r \in Requests : Fits(pc[r], job[r])

(* Only the request that registers an account knows it before it exists      *)
Known ==
    /\ \A u \in Users : base[u].row => u \in invited
    /\ \A r \in Requests : pc[r] \in Steps \ {"registerInsert"} => job[r].user \in invited
    /\ \A p \in Posts : author[p] # None => author[p] \in invited
    /\ \A p \in live : author[p] # None

(* A profile has an account, by its foreign key                              *)
Stored == \A u \in Users : profile[u].row => base[u].row

(* The id of a post about to be inserted is nobody else's                    *)
Fresh ==
    /\ \A r \in Requests : pc[r] = "postInsert" =>
          /\ author[job[r].arg] = None
          /\ \A q \in Requests \ {r} : pc[q] = "postInsert" => job[q].arg # job[r].arg
    /\ \A r \in Requests : pc[r] = "postRemove" => author[job[r].arg] = job[r].user

-----------------------------------------------------------------------------
(* What holds of one account u                                               *)

Flagged(arg, row) == Overlay([verified |-> TRUE, complete |-> TRUE], {arg}, row)

(* A save still holds the row as it is, but for the flag it sets             *)
Saves(step, args, u, row) ==
    args.user = u /\ step \in SaveSteps =>
        /\ row.row
        /\ args.copy = Flagged(args.arg, row)
        /\ step = "baseWrite" => args.columns = Differing(args.copy, row)

Saved(u) ==
    "stale" \notin mishaps[u] => \A r \in Requests : Saves(pc[r], job[r], u, base[u])

Marks(step, args) ==
    step = "completeFind" \/ (step \in FlagSteps /\ args.arg = "complete")

(* A request that has seen the profile still finds it, or the account gone   *)
HasSeen(step, args, u, account, prof) ==
    args.user = u /\ (Marks(step, args) \/ step \in {"updateCheck", "profileReload", "profileWrite"})
        => prof.row \/ ~ account.row

Marked(u) ==
    "stale" \notin mishaps[u] =>
        /\ base[u].row /\ base[u].complete => profile[u].row
        /\ \A r \in Requests : HasSeen(pc[r], job[r], u, base[u], profile[u])

(* Someone will mark an account that has a profile and no mark               *)
ToBeMarked(u) ==
    mishaps[u] \cap {"unmarked", "stale"} = {} /\ profile[u].row /\ ~ base[u].complete
        => \E r \in Requests : job[r].user = u /\ Marks(pc[r], job[r])

(* A request about to write or to announce a profile knows the stored one    *)
Tells(step, args, u, prof) ==
    args.user = u =>
        /\ step \in {"completeFind", "updated"} => args.copy = prof
        /\ step = "deleted" => prof = NoRow
        /\ step = "profileWrite" => args.columns = Differing(args.copy, prof)

Told(u) ==
    "crossed" \notin mishaps[u] =>
        /\ \A r \in Requests : Tells(pc[r], job[r], u, profile[u])
        /\ /\ "unannounced" \notin mishaps[u]
           /\ ~ InFlight(u, EmitSteps)
           /\ profile[u].row \/ role[u] = "USER"
           => announced[u] = profile[u]

(* The requests of u at a step of the listener that counts                   *)
Owing(step, u) == {r \in Requests : pc[r] = step /\ job[r].user = u}

PostsOf(u) == {p \in live : author[p] = u}

Counted(u) ==
    base[u].row /\ mishaps[u] \cap {"miscounted", "stale"} = {} =>
        base[u].posts + Cardinality(Owing("countUp", u)) =
            Cardinality(PostsOf(u)) + Cardinality(Owing("countDown", u))

Sound(u) == Saved(u) /\ Marked(u) /\ ToBeMarked(u) /\ Told(u) /\ Counted(u)

IInv == Typed /\ Known /\ Stored /\ Fresh /\ \A u \in Users : Sound(u)

-----------------------------------------------------------------------------
(* Rows and jobs.                                                            *)

LEMMA BaseRowFields ==
    ASSUME NEW v \in BOOLEAN, NEW c \in BOOLEAN, NEW n \in Int
    PROVE  /\ BaseRow(v, c, n) \in BaseRows
           /\ BaseRow(v, c, n).complete = c /\ BaseRow(v, c, n).posts = n
BY DEF BaseRow, BaseRows

LEMMA ProfileRowFields ==
    ASSUME NEW n \in Usernames, NEW i \in BOOLEAN
    PROVE  ProfileRow(n, i) \in Filled
BY DEF ProfileRow, Filled

LEMMA Domains ==
    /\ DOMAIN NoRow = {"row"} /\ ~ NoRow.row
    /\ \A row \in BaseRows : DOMAIN row = {"row"} \cup BaseColumns /\ row.row
    /\ \A row \in Filled : DOMAIN row = {"row"} \cup ProfileColumns /\ row.row
BY DEF NoRow, BaseRows, Filled, BaseColumns, ProfileColumns

LEMMA RowKinds ==
    /\ \A row \in {NoRow} \cup BaseRows :
          row.row \in BOOLEAN /\ (row.row <=> row \in BaseRows) /\ (~ row.row <=> row = NoRow)
    /\ \A row \in {NoRow} \cup Filled :
          row.row \in BOOLEAN /\ (row.row <=> row \in Filled) /\ (~ row.row <=> row = NoRow)
<1>1. NoRow.row = FALSE /\ (\A row \in BaseRows : row.row = TRUE) /\ (\A row \in Filled : row.row = TRUE)
  BY DEF NoRow, BaseRows, Filled
<1>2. QED
  BY <1>1

LEMMA RowsAre == Rows = {NoRow} \cup Filled
<1>1. ASSUME NEW row \in Filled PROVE \E n \in Usernames, i \in BOOLEAN : row = ProfileRow(n, i)
  <2>1. row.username \in Usernames /\ row.image \in BOOLEAN
    BY DEF Filled
  <2>2. row = ProfileRow(row.username, row.image)
    BY DEF Filled, ProfileRow
  <2>3. QED
    BY <2>1, <2>2
<1>2. QED
  BY <1>1, ProfileRowFields DEF Rows

LEMMA FlaggedRow ==
    ASSUME NEW row \in BaseRows, NEW arg \in Flags
    PROVE  /\ Flagged(arg, row) \in BaseRows
           /\ Flagged(arg, row).posts = row.posts
           /\ Flagged(arg, row).complete = (arg = "complete" \/ row.complete)
<1>1. DOMAIN row = {"row", "verified", "complete", "posts"}
  BY Domains DEF BaseColumns
<1>2. row.row = TRUE /\ row.complete \in BOOLEAN /\ row.verified \in BOOLEAN /\ row.posts \in Int
  BY DEF BaseRows
<1>3. Flagged(arg, row) = [c \in {"row", "verified", "complete", "posts"} |->
         IF c = arg THEN [verified |-> TRUE, complete |-> TRUE][c] ELSE row[c]]
  BY <1>1 DEF Flagged, Overlay
<1>4. Flagged(arg, row) \in BaseRows
  BY <1>2, <1>3 DEF BaseRows, Flags
<1>5. Flagged(arg, row).posts = row.posts
  BY <1>3 DEF Flags
<1>6. Flagged(arg, row).complete = (arg = "complete" \/ row.complete)
  BY <1>2, <1>3 DEF Flags
<1>7. QED
  BY <1>4, <1>5, <1>6

(* A save that holds the row as it is writes its copy, whatever it finds to  *)
(* differ; one whose row is gone writes nothing.                             *)
LEMMA OverlayNothing ==
    ASSUME NEW copy, NEW columns, "row" \notin columns
    PROVE  Overlay(copy, columns, NoRow) = NoRow
BY Domains DEF Overlay, NoRow

LEMMA OverlayBase ==
    ASSUME NEW copy \in BaseRows, NEW row \in BaseRows, NEW columns
    PROVE  Overlay(copy, columns, row) \in BaseRows
BY Domains DEF BaseRows, Overlay, BaseColumns

LEMMA OverlayProfile ==
    ASSUME NEW copy \in Filled, NEW row \in Filled, NEW columns
    PROVE  Overlay(copy, columns, row) \in Filled
BY Domains DEF Filled, Overlay, ProfileColumns

LEMMA DifferingNone ==
    ASSUME NEW copy PROVE Differing(copy, NoRow) = {"*"}
BY Domains DEF Differing

LEMMA DifferingBase ==
    ASSUME NEW copy \in BaseRows, NEW row \in BaseRows
    PROVE  /\ Differing(copy, row) \subseteq BaseColumns
           /\ Differing(copy, row) # {"*"}
           /\ Overlay(copy, Differing(copy, row), row) = copy
<1>1. copy.row = TRUE /\ row.row = TRUE
  BY DEF BaseRows
<1>2. DOMAIN copy = {"row"} \cup BaseColumns /\ DOMAIN row = {"row"} \cup BaseColumns
  BY Domains
<1>3. Differing(copy, row) = {c \in {"row"} \cup BaseColumns : copy[c] # row[c]}
  BY <1>1, <1>2 DEF Differing
<1>4. Differing(copy, row) \subseteq BaseColumns
  BY <1>1, <1>3
<1>5. Differing(copy, row) # {"*"}
  BY <1>4 DEF BaseColumns
<1>6. \A c \in {"row"} \cup BaseColumns : Overlay(copy, Differing(copy, row), row)[c] = copy[c]
  BY <1>2, <1>3 DEF Overlay
<1>7. Overlay(copy, Differing(copy, row), row) \in BaseRows
  BY OverlayBase
<1>8. Overlay(copy, Differing(copy, row), row) = copy
  BY <1>6, <1>7 DEF BaseRows, BaseColumns
<1>9. QED
  BY <1>4, <1>5, <1>8

LEMMA DifferingProfile ==
    ASSUME NEW copy \in Filled, NEW row \in Filled
    PROVE  /\ Differing(copy, row) \subseteq ProfileColumns
           /\ Differing(copy, row) # {"*"}
           /\ Overlay(copy, Differing(copy, row), row) = copy
<1>1. copy.row = TRUE /\ row.row = TRUE
  BY DEF Filled
<1>2. DOMAIN copy = {"row"} \cup ProfileColumns /\ DOMAIN row = {"row"} \cup ProfileColumns
  BY Domains
<1>3. Differing(copy, row) = {c \in {"row"} \cup ProfileColumns : copy[c] # row[c]}
  BY <1>1, <1>2 DEF Differing
<1>4. Differing(copy, row) \subseteq ProfileColumns
  BY <1>1, <1>3
<1>5. Differing(copy, row) # {"*"}
  BY <1>4 DEF ProfileColumns
<1>6. \A c \in {"row"} \cup ProfileColumns : Overlay(copy, Differing(copy, row), row)[c] = copy[c]
  BY <1>2, <1>3 DEF Overlay
<1>7. Overlay(copy, Differing(copy, row), row) \in Filled
  BY OverlayProfile
<1>8. Overlay(copy, Differing(copy, row), row) = copy
  BY <1>6, <1>7 DEF Filled, ProfileColumns
<1>9. QED
  BY <1>4, <1>5, <1>8

LEMMA JobFields ==
    ASSUME NEW u \in Users \cup {None}, NEW a \in Usernames \cup Posts \cup Flags \cup {None},
           NEW c \in {NoRow} \cup BaseRows \cup Filled,
           NEW d \in SUBSET ({"*"} \cup BaseColumns \cup ProfileColumns)
    PROVE  /\ Job(u, a, c, d) \in Jobs
           /\ Job(u, a, c, d).user = u /\ Job(u, a, c, d).arg = a
           /\ Job(u, a, c, d).copy = c /\ Job(u, a, c, d).columns = d
BY DEF Job, Jobs

LEMMA JobOf ==
    ASSUME Typed, NEW r \in Requests
    PROVE  /\ Fits(pc[r], job[r]) /\ job[r] \in Jobs
           /\ job[r].user \in Users \cup {None}
           /\ job[r].arg \in Usernames \cup Posts \cup Flags \cup {None}
           /\ job[r].copy \in {NoRow} \cup BaseRows \cup Filled
           /\ job[r].columns \in SUBSET ({"*"} \cup BaseColumns \cup ProfileColumns)
BY DEF Typed, Fits, Jobs

LEMMA RowOf ==
    ASSUME Typed, NEW u \in Users
    PROVE  /\ base[u] \in {NoRow} \cup BaseRows /\ profile[u] \in {NoRow} \cup Filled
           /\ base[u].row \in BOOLEAN /\ profile[u].row \in BOOLEAN
           /\ base[u].row => base[u] \in BaseRows /\ base[u].complete \in BOOLEAN /\ base[u].posts \in Int
           /\ ~ base[u].row => base[u] = NoRow
           /\ profile[u].row => profile[u] \in Filled
           /\ ~ profile[u].row => profile[u] = NoRow
<1>1. base[u] \in {NoRow} \cup BaseRows /\ profile[u] \in {NoRow} \cup Filled
  BY RowsAre DEF Typed, TypeOK
<1>2. \A row \in BaseRows : row.complete \in BOOLEAN /\ row.posts \in Int
  BY DEF BaseRows
<1>3. QED
  BY <1>1, <1>2, RowKinds

-----------------------------------------------------------------------------
(* Control of one request.                                                   *)

LEMMA StepSets ==
    /\ Outcomes \cap Steps = {} /\ "idle" \notin Steps \cup Outcomes
    /\ FlagSteps \cup NameSteps \cup HeldSteps \cup PostArgSteps \cup EmitSteps \cup PostSteps
          \cup {"registerInsert", "imageFind", "deleteFind", "deleteTx"} \subseteq Steps
    /\ Steps \subseteq Control /\ Outcomes \subseteq Control /\ SaveSteps \subseteq FlagSteps
    /\ "registerInsert" \notin FlagSteps \cup NameSteps \cup HeldSteps \cup PostArgSteps \cup EmitSteps
BY DEF Outcomes, Steps, FlagSteps, NameSteps, HeldSteps, PostArgSteps, EmitSteps, PostSteps,
       SaveSteps, ProfileSteps, CompleteSteps, Control

LEMMA NoJobFits ==
    ASSUME NEW outcome \in Outcomes
    PROVE  Fits(outcome, NoJob) /\ NoJob.user = None
<1>1. NoJob \in Jobs /\ NoJob.user = None
  BY JobFields DEF NoJob
<1>2. outcome \in Control /\ outcome \notin Steps
  BY StepSets
<1>3. /\ outcome \notin FlagSteps \cup SaveSteps \cup NameSteps \cup HeldSteps \cup PostArgSteps
      /\ outcome # "baseWrite" /\ outcome # "profileWrite"
  BY <1>2, StepSets DEF SaveSteps, HeldSteps
<1>4. QED
  BY <1>1, <1>2, <1>3 DEF Fits

LEMMA Moved ==
    ASSUME Typed, NEW r \in Requests, NEW step, NEW args, Await(r, step, args)
    PROVE  /\ pc'[r] = step /\ job'[r] = args
           /\ \A q \in Requests \ {r} : pc'[q] = pc[q] /\ job'[q] = job[q]
<1>1. pc \in [Requests -> Control] /\ job \in [Requests -> Jobs]
  BY DEF Typed, TypeOK, Control, Fits
<1>2. QED
  BY <1>1 DEF Await

LEMMA GotoAwaits ==
    ASSUME Typed, NEW r \in Requests, NEW step, Goto(r, step)
    PROVE  Await(r, step, job[r])
BY DEF Goto

LEMMA AwaitTyped ==
    ASSUME Typed, NEW r \in Requests, NEW step, NEW args,
           Await(r, step, args), Fits(step, args)
    PROVE  /\ pc' \in [Requests -> Control] /\ job' \in [Requests -> Jobs]
           /\ \A q \in Requests : Fits(pc'[q], job'[q])
<1>1. pc \in [Requests -> Control] /\ job \in [Requests -> Jobs]
  BY DEF Typed, TypeOK, Control
<1>2. step \in Control /\ args \in Jobs
  BY DEF Fits
<1>3. pc' \in [Requests -> Control] /\ job' \in [Requests -> Jobs]
  BY <1>1, <1>2 DEF Await
<1>4. ASSUME NEW q \in Requests PROVE Fits(pc'[q], job'[q])
  <2>1. CASE q = r
    BY <2>1, Moved
  <2>2. CASE q # r
    BY <2>2, Moved, JobOf
  <2>3. QED
    BY <2>1, <2>2
<1>5. QED
  BY <1>3, <1>4

LEMMA Types ==
    ASSUME Typed
    PROVE  /\ role \in [Users -> {"USER", "BRAND"}]
           /\ base \in [Users -> {NoRow} \cup BaseRows]
           /\ profile \in [Users -> {NoRow} \cup Filled]
           /\ author \in [Posts -> Users \cup {None}]
           /\ live \in SUBSET Posts
           /\ invited \in SUBSET Users /\ entered \in SUBSET invited
           /\ announced \in [Users -> {NoRow} \cup Filled]
           /\ mishaps \in [Users -> SUBSET Mishaps]
BY RowsAre DEF Typed, TypeOK

(* What remains to show of the types of a step that moves one request        *)
LEMMA StepTyped ==
    ASSUME Typed, NEW r \in Requests, NEW step, NEW args, Await(r, step, args), Fits(step, args),
           role' = role, base' \in [Users -> {NoRow} \cup BaseRows],
           profile' \in [Users -> {NoRow} \cup Filled],
           author' \in [Posts -> Users \cup {None}], live' \in SUBSET Posts,
           invited' \in SUBSET Users, entered' = entered, invited \subseteq invited',
           announced' \in [Users -> {NoRow} \cup Filled],
           mishaps' \in [Users -> SUBSET Mishaps]
    PROVE  Typed'
<1>1. /\ pc' \in [Requests -> Control] /\ job' \in [Requests -> Jobs]
      /\ \A q \in Requests : Fits(pc'[q], job'[q])
  BY AwaitTyped
<1>2. \A u \in Users : base'[u] = NoRow \/ base'[u] \in BaseRows
  OBVIOUS
<1>3. \A q \in Requests : job'[q].user \in Users \cup {None}
  BY <1>1 DEF Jobs
<1>4. role' \in [Users -> {"USER", "BRAND"}] /\ entered' \in SUBSET invited'
  BY DEF Typed, TypeOK
<1>5. profile' \in [Users -> Rows] /\ announced' \in [Users -> Rows]
  BY RowsAre
<1>6. TypeOK'
  BY <1>1, <1>2, <1>3, <1>4, <1>5 DEF TypeOK, BaseRows, Control
<1>7. QED
  BY <1>1, <1>6 DEF Typed

LEMMA NoneDiffers == None \notin Users
BY NoneAssumption

(* Only what a request learns of its account, and what is said of a row or   *)
(* a post that is new, remains to show                                       *)
LEMMA StepKnown ==
    ASSUME Typed, Known, NEW r \in Requests, NEW step, NEW args, Await(r, step, args),
           invited \subseteq invited',
           \A u \in Users : base'[u].row => base[u].row \/ u \in invited',
           step \in Steps \ {"registerInsert"} => args.user \in invited',
           \A p \in Posts : author'[p] = author[p] \/ author'[p] \in invited',
           \A p \in live' : p \in live \/ author'[p] # None,
           \A p \in live : author'[p] = author[p] \/ author'[p] # None
    PROVE  Known'
<1>1. ASSUME NEW q \in Requests, pc'[q] \in Steps \ {"registerInsert"}
      PROVE  job'[q].user \in invited'
  <2>1. CASE q = r
    BY <1>1, <2>1, Moved
  <2>2. CASE q # r
    BY <1>1, <2>2, Moved DEF Known
  <2>3. QED
    BY <2>1, <2>2
<1>2. \A p \in live' : author'[p] # None
  BY DEF Known
<1>3. \A p \in Posts : author'[p] # None => author'[p] \in invited'
  BY DEF Known
<1>4. \A u \in Users : base'[u].row => u \in invited'
  BY DEF Known
<1>5. QED
  BY <1>1, <1>2, <1>3, <1>4 DEF Known

LEMMA StepFresh ==
    ASSUME Typed, Fresh, NEW r \in Requests, NEW step, NEW args, Await(r, step, args),
           Fits(step, args), step # "postInsert",
           step = "postRemove" => author[args.arg] = args.user,
           \A p \in Posts : author'[p] = author[p]
                              \/ (pc[r] = "postInsert" /\ p = job[r].arg)
    PROVE  Fresh'
<1>1. ASSUME NEW q \in Requests, pc'[q] = "postInsert"
      PROVE  /\ author'[job'[q].arg] = None
             /\ \A x \in Requests \ {q} : pc'[x] = "postInsert" => job'[x].arg # job'[q].arg
  <2>1. q # r /\ pc[q] = "postInsert" /\ job'[q] = job[q]
    BY <1>1, Moved
  <2>2. job[q].arg \in Posts /\ author[job[q].arg] = None
    BY <2>1, JobOf DEF Fits, Fresh, PostArgSteps
  <2>3. author'[job[q].arg] = None
    BY <2>1, <2>2 DEF Fresh
  <2>4. ASSUME NEW x \in Requests \ {q}, pc'[x] = "postInsert" PROVE job'[x].arg # job[q].arg
    BY <2>1, <2>4, Moved DEF Fresh
  <2>5. QED
    BY <2>1, <2>3, <2>4
<1>2. ASSUME NEW q \in Requests, pc'[q] = "postRemove"
      PROVE  author'[job'[q].arg] = job'[q].user
  <2>1. /\ q = r => step = "postRemove" /\ args = job'[q]
        /\ q # r => pc[q] = "postRemove" /\ job'[q] = job[q]
    BY <1>2, Moved
  <2>2. author[job'[q].arg] = job'[q].user
    BY <2>1 DEF Fresh
  <2>3. job'[q].user \in Users /\ job'[q].arg \in Posts
    <3>1. CASE q # r
      BY <2>1, <3>1, JobOf, StepSets DEF Fits, PostArgSteps
    <3>2. CASE q = r
      BY <2>1, <3>2, StepSets DEF Fits, PostArgSteps
    <3>3. QED
      BY <3>1, <3>2
  <2>4. author'[job'[q].arg] = author[job'[q].arg]
    <3>1. pc[r] = "postInsert" => author[job[r].arg] = None
      BY DEF Fresh
    <3>2. QED
      BY <2>2, <2>3, <3>1, NoneDiffers
  <2>5. QED
    BY <2>2, <2>4
<1>3. QED
  BY <1>1, <1>2 DEF Fresh

-----------------------------------------------------------------------------
(* Each part of what holds of one account, after a step of request r: the    *)
(* others must still know what they knew, and r may know something new.      *)

LEMMA StepSaved ==
    ASSUME Typed, NEW u \in Users, Saved(u), NEW r \in Requests, NEW step, NEW args,
           Await(r, step, args), mishaps[u] \subseteq mishaps'[u],
           "stale" \notin mishaps'[u] =>
               /\ \A q \in Requests \ {r} :
                     Saves(pc[q], job[q], u, base[u]) => Saves(pc[q], job[q], u, base'[u])
               /\ Saves(step, args, u, base'[u])
    PROVE  Saved(u)'
<1> SUFFICES ASSUME "stale" \notin mishaps'[u], NEW q \in Requests
             PROVE  Saves(pc'[q], job'[q], u, base'[u])
  BY DEF Saved
<1>1. CASE q = r
  BY <1>1, Moved
<1>2. CASE q # r
  BY <1>2, Moved DEF Saved
<1>3. QED
  BY <1>1, <1>2

LEMMA StepMarked ==
    ASSUME Typed, NEW u \in Users, Marked(u), NEW r \in Requests, NEW step, NEW args,
           Await(r, step, args), mishaps[u] \subseteq mishaps'[u],
           "stale" \notin mishaps'[u] =>
               /\ base'[u].row /\ base'[u].complete => profile'[u].row
               /\ \A q \in Requests \ {r} :
                     HasSeen(pc[q], job[q], u, base[u], profile[u])
                         => HasSeen(pc[q], job[q], u, base'[u], profile'[u])
               /\ HasSeen(step, args, u, base'[u], profile'[u])
    PROVE  Marked(u)'
<1> SUFFICES ASSUME "stale" \notin mishaps'[u], NEW q \in Requests
             PROVE  HasSeen(pc'[q], job'[q], u, base'[u], profile'[u])
  BY DEF Marked
<1>1. CASE q = r
  BY <1>1, Moved
<1>2. CASE q # r
  BY <1>2, Moved DEF Marked
<1>3. QED
  BY <1>1, <1>2

LEMMA StepToBeMarked ==
    ASSUME Typed, NEW u \in Users, ToBeMarked(u), NEW r \in Requests, NEW step, NEW args,
           Await(r, step, args), mishaps[u] \subseteq mishaps'[u],
           mishaps'[u] \cap {"unmarked", "stale"} = {} /\ profile'[u].row /\ ~ base'[u].complete =>
               \/ args.user = u /\ Marks(step, args)
               \/ /\ profile[u].row /\ ~ base[u].complete
                  /\ ~ (job[r].user = u /\ Marks(pc[r], job[r]))
    PROVE  ToBeMarked(u)'
<1> SUFFICES ASSUME mishaps'[u] \cap {"unmarked", "stale"} = {}, profile'[u].row,
                    ~ base'[u].complete
             PROVE  \E q \in Requests : job'[q].user = u /\ Marks(pc'[q], job'[q])
  BY DEF ToBeMarked
<1>1. CASE args.user = u /\ Marks(step, args)
  BY <1>1, Moved
<1>2. CASE /\ profile[u].row /\ ~ base[u].complete
           /\ ~ (job[r].user = u /\ Marks(pc[r], job[r]))
  <2>1. PICK q \in Requests : job[q].user = u /\ Marks(pc[q], job[q])
    BY <1>2 DEF ToBeMarked
  <2>2. pc'[q] = pc[q] /\ job'[q] = job[q]
    BY <1>2, <2>1, Moved
  <2>3. QED
    BY <2>1, <2>2
<1>3. QED
  BY <1>1, <1>2

LEMMA StepTold ==
    ASSUME Typed, NEW u \in Users, Told(u), NEW r \in Requests, NEW step, NEW args,
           Await(r, step, args), mishaps[u] \subseteq mishaps'[u], role' = role,
           "crossed" \notin mishaps'[u] =>
               /\ \A q \in Requests \ {r} :
                     Tells(pc[q], job[q], u, profile[u]) => Tells(pc[q], job[q], u, profile'[u])
               /\ Tells(step, args, u, profile'[u])
               /\ \/ announced'[u] = profile'[u]
                  \/ "unannounced" \in mishaps'[u]
                  \/ args.user = u /\ step \in EmitSteps
                  \/ ~ profile'[u].row /\ role[u] # "USER"
                  \/ /\ announced'[u] = announced[u] /\ profile'[u] = profile[u]
                     /\ ~ (job[r].user = u /\ pc[r] \in EmitSteps)
    PROVE  Told(u)'
<1> SUFFICES ASSUME "crossed" \notin mishaps'[u]
             PROVE  /\ \A q \in Requests : Tells(pc'[q], job'[q], u, profile'[u])
                    /\ /\ "unannounced" \notin mishaps'[u]
                       /\ ~ InFlight(u, EmitSteps)'
                       /\ profile'[u].row \/ role'[u] = "USER"
                       => announced'[u] = profile'[u]
  BY DEF Told
<1>1. ASSUME NEW q \in Requests PROVE Tells(pc'[q], job'[q], u, profile'[u])
  <2>1. CASE q = r
    BY <2>1, Moved
  <2>2. CASE q # r
    BY <2>2, Moved DEF Told
  <2>3. QED
    BY <2>1, <2>2
<1>2. ASSUME "unannounced" \notin mishaps'[u], ~ InFlight(u, EmitSteps)',
             profile'[u].row \/ role'[u] = "USER"
      PROVE  announced'[u] = profile'[u]
  <2>1. ~ (args.user = u /\ step \in EmitSteps)
    BY <1>2, Moved DEF InFlight
  <2>2. ASSUME announced'[u] = announced[u], profile'[u] = profile[u],
               ~ (job[r].user = u /\ pc[r] \in EmitSteps)
        PROVE  announced'[u] = profile'[u]
    <3>1. ~ InFlight(u, EmitSteps)
      BY <1>2, <2>2, Moved DEF InFlight
    <3>2. QED
      BY <1>2, <2>2, <3>1 DEF Told
  <2>3. QED
    BY <1>2, <2>1, <2>2
<1>3. QED
  BY <1>1, <1>2

(* Counting.                                                                 *)

LEMMA OwingFinite ==
    ASSUME NEW s, NEW u
    PROVE  IsFiniteSet(Owing(s, u)) /\ Cardinality(Owing(s, u)) \in Nat
BY FinitenessAssumption, FS_Subset, FS_CardinalityType DEF Owing

LEMMA PostsFinite ==
    ASSUME Typed, NEW u
    PROVE  IsFiniteSet(PostsOf(u)) /\ Cardinality(PostsOf(u)) \in Nat
<1>1. PostsOf(u) \subseteq Posts
  BY Types DEF PostsOf
<1>2. QED
  BY <1>1, FinitenessAssumption, FS_Subset, FS_CardinalityType

LEMMA OwingSame ==
    ASSUME Typed, NEW r \in Requests, NEW step, NEW args, Await(r, step, args), NEW s, NEW u,
           ~ (job[r].user = u /\ pc[r] = s), ~ (args.user = u /\ step = s)
    PROVE  Owing(s, u)' = Owing(s, u)
BY Moved DEF Owing

LEMMA OwingGrows ==
    ASSUME Typed, NEW r \in Requests, NEW step, NEW args, Await(r, step, args), NEW s, NEW u,
           pc[r] # s, args.user = u, step = s
    PROVE  Cardinality(Owing(s, u)') = Cardinality(Owing(s, u)) + 1
<1>1. Owing(s, u)' = Owing(s, u) \cup {r}
  BY Moved DEF Owing
<1>2. r \notin Owing(s, u)
  BY DEF Owing
<1>3. Cardinality(Owing(s, u) \cup {r}) = Cardinality(Owing(s, u)) + 1
  BY <1>2, OwingFinite, FS_AddElement
<1>4. QED
  BY <1>1, <1>3

LEMMA OwingShrinks ==
    ASSUME Typed, NEW r \in Requests, NEW step, NEW args, Await(r, step, args), NEW s, NEW u,
           step # s, job[r].user = u, pc[r] = s
    PROVE  Cardinality(Owing(s, u)') = Cardinality(Owing(s, u)) - 1
<1>1. Owing(s, u)' = Owing(s, u) \ {r}
  BY Moved DEF Owing
<1>2. r \in Owing(s, u)
  BY DEF Owing
<1>3. Cardinality(Owing(s, u) \ {r}) = Cardinality(Owing(s, u)) - 1
  BY <1>2, OwingFinite, FS_RemoveElement
<1>4. QED
  BY <1>1, <1>3

(* A step that neither counts nor has a post of u to count                   *)
LEMMA StepCounted ==
    ASSUME Typed, NEW u \in Users, Counted(u), NEW r \in Requests, NEW step, NEW args,
           Await(r, step, args), mishaps[u] \subseteq mishaps'[u],
           base'[u].row /\ mishaps'[u] \cap {"miscounted", "stale"} = {} =>
               /\ base[u].row /\ base'[u].posts = base[u].posts
               /\ PostsOf(u)' = PostsOf(u)
               /\ ~ (job[r].user = u /\ pc[r] \in PostSteps)
               /\ ~ (args.user = u /\ step \in PostSteps)
    PROVE  Counted(u)'
<1> SUFFICES ASSUME base'[u].row, mishaps'[u] \cap {"miscounted", "stale"} = {}
             PROVE  base'[u].posts + Cardinality(Owing("countUp", u)') =
                      Cardinality(PostsOf(u)') + Cardinality(Owing("countDown", u)')
  BY DEF Counted
<1>1. /\ Owing("countUp", u)' = Owing("countUp", u)
      /\ Owing("countDown", u)' = Owing("countDown", u)
  BY OwingSame DEF PostSteps
<1>2. base[u].row /\ mishaps[u] \cap {"miscounted", "stale"} = {}
  OBVIOUS
<1>3. QED
  BY <1>1, <1>2 DEF Counted

-----------------------------------------------------------------------------
(* An account that no request at work is about, before or after the step     *)
LEMMA OtherSound ==
    ASSUME Typed, NEW u \in Users, Sound(u), NEW r \in Requests, NEW step, NEW args,
           Await(r, step, args), pc[r] \in Steps => job[r].user # u,
           step \in Steps => args.user # u,
           base'[u] = base[u], profile'[u] = profile[u], announced'[u] = announced[u],
           mishaps[u] \subseteq mishaps'[u], role' = role, PostsOf(u)' = PostsOf(u)
    PROVE  Sound(u)'
<1>1. Saved(u)'
  <2>1. Saves(step, args, u, base'[u])
    BY StepSets DEF Saves
  <2>2. QED
    BY <2>1, StepSaved DEF Sound
<1>2. Marked(u)'
  <2>1. HasSeen(step, args, u, base'[u], profile'[u])
    BY StepSets DEF HasSeen, Marks, HeldSteps
  <2>2. QED
    BY <2>1, StepMarked DEF Sound, Marked
<1>3. ToBeMarked(u)'
  <2>1. ~ (job[r].user = u /\ Marks(pc[r], job[r]))
    BY StepSets DEF Marks, HeldSteps
  <2>2. QED
    BY <2>1, StepToBeMarked DEF Sound
<1>4. Told(u)'
  <2>1. Tells(step, args, u, profile'[u])
    BY StepSets DEF Tells, HeldSteps, EmitSteps
  <2>2. ~ (job[r].user = u /\ pc[r] \in EmitSteps)
    BY StepSets
  <2>3. QED
    BY <2>1, <2>2, StepTold DEF Sound
<1>5. Counted(u)'
  <2>1. /\ ~ (job[r].user = u /\ pc[r] \in PostSteps)
        /\ ~ (args.user = u /\ step \in PostSteps)
    BY StepSets
  <2>2. QED
    BY <2>1, StepCounted DEF Sound
<1>6. QED
  BY <1>1, <1>2, <1>3, <1>4, <1>5 DEF Sound

(* A step that reads, decides and moves its request                          *)
LEMMA QuietSound ==
    ASSUME Typed, NEW u \in Users, Sound(u), NEW r \in Requests, NEW step, NEW args,
           Await(r, step, args), mishaps[u] \subseteq mishaps'[u],
           UNCHANGED <<role, base, profile, author, live, announced>>,
           "stale" \notin mishaps'[u] =>
               Saves(step, args, u, base[u]) /\ HasSeen(step, args, u, base[u], profile[u]),
           "crossed" \notin mishaps'[u] => Tells(step, args, u, profile[u]),
           job[r].user = u /\ Marks(pc[r], job[r]) =>
               \/ args.user = u /\ Marks(step, args)
               \/ mishaps'[u] \cap {"unmarked", "stale"} # {}
               \/ ~ profile[u].row,
           job[r].user = u /\ pc[r] \in EmitSteps =>
               "crossed" \in mishaps'[u] \/ "unannounced" \in mishaps'[u],
           job[r].user = u /\ pc[r] \in PostSteps =>
               "miscounted" \in mishaps'[u] \/ ~ base[u].row,
           step \notin PostSteps
    PROVE  Sound(u)'
<1>1. Saved(u)'
  BY StepSaved DEF Sound
<1>2. Marked(u)'
  BY StepMarked DEF Sound, Marked
<1>3. ToBeMarked(u)'
  BY StepToBeMarked DEF Sound
<1>4. Told(u)'
  BY StepTold DEF Sound
<1>5. Counted(u)'
  <2>1. PostsOf(u)' = PostsOf(u)
    BY DEF PostsOf
  <2>2. QED
    BY <2>1, StepCounted DEF Sound
<1>6. QED
  BY <1>1, <1>2, <1>3, <1>4, <1>5 DEF Sound

LEMMA QuietKeeps ==
    ASSUME IInv, NEW r \in Requests, NEW step, NEW args, Await(r, step, args), Fits(step, args),
           UNCHANGED <<role, base, profile, postRows, access, announced, mishaps>>,
           step \in Steps \ {"registerInsert"} => args.user \in invited,
           step # "postInsert", step = "postRemove" => author[args.arg] = args.user,
           step \notin PostSteps,
           \A u \in Users :
              /\ "stale" \notin mishaps[u] =>
                   Saves(step, args, u, base[u]) /\ HasSeen(step, args, u, base[u], profile[u])
              /\ "crossed" \notin mishaps[u] => Tells(step, args, u, profile[u])
              /\ job[r].user = u /\ Marks(pc[r], job[r]) =>
                   \/ args.user = u /\ Marks(step, args)
                   \/ ~ profile[u].row
                   \/ "stale" \in mishaps[u]
              /\ job[r].user = u /\ pc[r] \in EmitSteps => "crossed" \in mishaps[u]
              /\ job[r].user = u /\ pc[r] \in PostSteps => ~ base[u].row
    PROVE  IInv'
<1>1. UNCHANGED <<role, base, profile, author, live, invited, entered, announced, mishaps>>
  BY DEF postRows, access
<1>2. Typed'
  BY <1>1, StepTyped, Types DEF IInv
<1>3. Known'
  BY <1>1, StepKnown DEF IInv
<1>4. Stored'
  BY <1>1 DEF IInv, Stored
<1>5. Fresh'
  BY <1>1, StepFresh DEF IInv
<1>6. ASSUME NEW u \in Users PROVE Sound(u)'
  BY <1>1, QuietSound DEF IInv
<1>7. QED
  BY <1>2, <1>3, <1>4, <1>5, <1>6 DEF IInv

LEMMA QuietEnd ==
    ASSUME IInv, NEW r \in Requests, NEW outcome \in Outcomes, Finish(r, outcome),
           UNCHANGED <<role, base, profile, postRows, access, announced, mishaps>>,
           Marks(pc[r], job[r]) =>
               ~ profile[job[r].user].row \/ "stale" \in mishaps[job[r].user],
           pc[r] \in EmitSteps => "crossed" \in mishaps[job[r].user],
           pc[r] \in PostSteps => ~ base[job[r].user].row
    PROVE  IInv'
<1>1. Await(r, outcome, NoJob) /\ Fits(outcome, NoJob) /\ NoJob.user = None
  BY NoJobFits DEF Finish
<1>2. outcome \notin Steps /\ outcome \notin PostSteps /\ outcome # "postInsert"
        /\ outcome # "postRemove"
  BY StepSets DEF PostArgSteps
<1>3. ASSUME NEW u \in Users
      PROVE  /\ Saves(outcome, NoJob, u, base[u])
             /\ HasSeen(outcome, NoJob, u, base[u], profile[u])
             /\ Tells(outcome, NoJob, u, profile[u])
  BY <1>1, NoneDiffers DEF Saves, HasSeen, Tells
<1>4. QED
  BY <1>1, <1>2, <1>3, QuietKeeps

(* A call that arrives knows its account, and nothing yet of the rows        *)
LEMMA BeginKeeps ==
    ASSUME IInv, NEW r \in Requests, NEW step, NEW u \in Users \cup {None},
           NEW a \in Usernames \cup Posts \cup Flags \cup {None},
           Begin(r, step, u, a),
           \/ step \in {"imageFind", "deleteFind"} /\ u \in invited
           \/ step \in NameSteps /\ a \in Usernames /\ u \in invited
           \/ step = "baseFind" /\ a \in {"verified", "password"} /\ u \in invited
           \/ step = "postRemove" /\ a \in Posts /\ u \in invited /\ author[a] = u
           \/ step = "registerInsert" /\ u \in Users
           \/ step = "rejected"
    PROVE  IInv'
<1> DEFINE args == Job(u, a, NoRow, {})
<1>1. /\ pc[r] = "idle" /\ Await(r, step, args)
      /\ UNCHANGED <<role, base, profile, postRows, access, announced, mishaps>>
  BY DEF Begin
<1>2. args \in Jobs /\ args.user = u /\ args.arg = a
  BY JobFields
<1> HIDE DEF args
<1>3. invited \subseteq Users
  BY Types DEF IInv
<1>4. pc[r] \notin EmitSteps \cup PostSteps /\ ~ Marks(pc[r], job[r])
  BY <1>1, StepSets DEF Marks, HeldSteps
<1>5. /\ step \notin SaveSteps \cup HeldSteps \cup PostSteps \cup EmitSteps
      /\ step # "postInsert" /\ step \in Control
  <2>1. step \in {"imageFind", "deleteFind", "completeInsert", "updateFind", "baseFind",
                  "postRemove", "registerInsert", "rejected"}
    BY DEF NameSteps
  <2>2. /\ step \notin SaveSteps \cup HeldSteps \cup PostSteps \cup EmitSteps
        /\ step # "postInsert"
    BY <2>1 DEF SaveSteps, HeldSteps, PostSteps, EmitSteps
  <2>3. step \in Control
    BY <2>1 DEF Control, Steps, Outcomes, CompleteSteps
  <2>4. QED
    BY <2>2, <2>3
<1>6. Fits(step, args)
  <2>1. step \in Steps => u \in Users
    BY <1>3, StepSets DEF Outcomes
  <2>2. step \in FlagSteps => a \in Flags
    BY DEF FlagSteps, SaveSteps, NameSteps, Flags
  <2>3. step \in NameSteps => a \in Usernames
    BY DEF NameSteps
  <2>4. step \in PostArgSteps => a \in Posts
    BY <1>5 DEF PostArgSteps, NameSteps
  <2>5. step # "baseWrite" /\ step # "profileWrite"
    BY <1>5 DEF SaveSteps, HeldSteps
  <2>6. QED
    BY <1>2, <1>5, <2>1, <2>2, <2>3, <2>4, <2>5 DEF Fits
<1>7. ~ Marks(step, args)
  BY <1>2, <1>5 DEF Marks, FlagSteps, HeldSteps, NameSteps
<1>8. ASSUME NEW v \in Users
      PROVE  /\ Saves(step, args, v, base[v])
             /\ HasSeen(step, args, v, base[v], profile[v])
             /\ Tells(step, args, v, profile[v])
  BY <1>5, <1>7 DEF Saves, HasSeen, Tells, HeldSteps, EmitSteps
<1>9. step \in Steps \ {"registerInsert"} => u \in invited
  BY StepSets DEF Outcomes
<1>10. step = "postRemove" => author[a] = u
  BY DEF NameSteps
<1>11. QED
  BY <1>1, <1>2, <1>4, <1>5, <1>6, <1>8, <1>9, <1>10, QuietKeeps

-----------------------------------------------------------------------------
(* Arrivals.                                                                 *)

LEMMA ArgSets ==
    /\ None \in Users \cup {None} /\ None \in Usernames \cup Posts \cup Flags \cup {None}
    /\ Users \subseteq Users \cup {None}
    /\ {"verified", "password"} \cup Usernames \cup Posts
          \subseteq Usernames \cup Posts \cup Flags \cup {None}
BY DEF Flags

LEMMA Holders ==
    ASSUME IInv
    PROVE  /\ invited \subseteq Users /\ entered \subseteq invited
           /\ \A u \in Users : base[u].row => u \in invited
           /\ \A p \in live : p \in Posts /\ author[p] \in Users
BY Types DEF IInv, Known

LEMMA ArriveKeeps ==
    ASSUME IInv, NEW r \in Requests, NEW u \in Users,
           \/ Register(r, u) \/ VerifyEmail(r, u) \/ ResetPassword(r, u)
           \/ \E n \in Usernames : CompleteProfile(r, u, n) \/ UpdateProfile(r, u, n)
           \/ UpdateProfileImage(r, u) \/ DeleteAccount(r, u)
    PROVE  IInv'
<1>1. CASE Register(r, u)
  <2>1. CASE Begin(r, "rejected", None, None)
    BY <2>1, ArgSets, BeginKeeps
  <2>2. CASE Begin(r, "registerInsert", u, None)
    BY <2>2, ArgSets, BeginKeeps
  <2>3. QED
    BY <1>1, <2>1, <2>2 DEF Register
<1>2. CASE VerifyEmail(r, u)
  <2>1. CASE Begin(r, "rejected", None, None)
    BY <2>1, ArgSets, BeginKeeps
  <2>2. CASE Begin(r, "baseFind", u, "verified")
    <3>1. u \in invited
      BY <1>2 DEF VerifyEmail
    <3>2. QED
      BY <2>2, <3>1, ArgSets, BeginKeeps
  <2>3. QED
    BY <1>2, <2>1, <2>2 DEF VerifyEmail
<1>3. CASE ResetPassword(r, u)
  <2>1. u \in invited /\ Begin(r, "baseFind", u, "password")
    BY <1>3, Holders DEF ResetPassword
  <2>2. QED
    BY <2>1, ArgSets, BeginKeeps
<1>4. ASSUME NEW n \in Usernames, CompleteProfile(r, u, n) \/ UpdateProfile(r, u, n)
      PROVE  IInv'
  <2>1. PICK step \in NameSteps : u \in entered /\ Begin(r, step, u, n)
    BY <1>4 DEF CompleteProfile, UpdateProfile, NameSteps
  <2>2. u \in invited
    BY <2>1, Holders
  <2>3. QED
    BY <2>1, <2>2, ArgSets, BeginKeeps
<1>5. CASE UpdateProfileImage(r, u) \/ DeleteAccount(r, u)
  <2>1. PICK step \in {"imageFind", "deleteFind"} : u \in entered /\ Begin(r, step, u, None)
    BY <1>5 DEF UpdateProfileImage, DeleteAccount
  <2>2. u \in invited
    BY <2>1, Holders
  <2>3. QED
    BY <2>1, <2>2, ArgSets, BeginKeeps
<1>6. QED
  BY <1>1, <1>2, <1>3, <1>4, <1>5

(* The post's id is generated for the call: no row and no request has it.    *)
LEMMA CreatePostKeeps ==
    ASSUME IInv, NEW r \in Requests, NEW u \in Users, NEW p \in Posts, CreatePost(r, u, p)
    PROVE  IInv'
<1> DEFINE args == Job(u, p, NoRow, {})
<1>1. /\ pc[r] = "idle" /\ Await(r, "postInsert", args)
      /\ u \in entered /\ author[p] = None /\ \A q \in Requests : job[q].arg # p
      /\ UNCHANGED <<role, base, profile, postRows, access, announced, mishaps>>
  BY DEF CreatePost, Begin
<1>2. args \in Jobs /\ args.user = u /\ args.arg = p
  BY ArgSets, JobFields
<1> HIDE DEF args
<1>3. UNCHANGED <<role, base, profile, author, live, invited, entered, announced, mishaps>>
  BY <1>1 DEF postRows, access
<1>4. /\ "postInsert" \notin FlagSteps \cup NameSteps \cup HeldSteps \cup SaveSteps \cup EmitSteps
            \cup PostSteps
      /\ "postInsert" \in Steps \ {"registerInsert"}
  BY DEF FlagSteps, NameSteps, HeldSteps, SaveSteps, EmitSteps, PostSteps, Steps
<1>5. Fits("postInsert", args)
  BY <1>2, <1>4, StepSets DEF Fits
<1>6. Typed'
  BY <1>1, <1>3, <1>5, StepTyped, Types DEF IInv
<1>7. Known'
  BY <1>1, <1>2, <1>3, StepKnown, Holders DEF IInv
<1>8. Stored'
  BY <1>3 DEF IInv, Stored
<1>9. Fresh'
  <2>1. ASSUME NEW q \in Requests, pc'[q] = "postInsert"
        PROVE  /\ author'[job'[q].arg] = None
               /\ \A x \in Requests \ {q} : pc'[x] = "postInsert" => job'[x].arg # job'[q].arg
    <3>1. CASE q = r
      BY <1>1, <1>2, <1>3, <2>1, <3>1, Moved DEF IInv
    <3>2. CASE q # r
      BY <1>1, <1>2, <1>3, <2>1, <3>2, Moved DEF IInv, Fresh
    <3>3. QED
      BY <3>1, <3>2
  <2>2. ASSUME NEW q \in Requests, pc'[q] = "postRemove"
        PROVE  author'[job'[q].arg] = job'[q].user
    BY <1>1, <1>3, <2>2, Moved DEF IInv, Fresh
  <2>3. QED
    BY <2>1, <2>2 DEF Fresh
<1>10. ASSUME NEW v \in Users PROVE Sound(v)'
  <2>1. /\ Saves("postInsert", args, v, base[v])
        /\ HasSeen("postInsert", args, v, base[v], profile[v])
        /\ Tells("postInsert", args, v, profile[v])
    BY <1>4 DEF Saves, HasSeen, Tells, Marks
  <2>2. pc[r] \notin EmitSteps \cup PostSteps /\ ~ Marks(pc[r], job[r])
    BY <1>1, StepSets DEF Marks, HeldSteps
  <2>3. QED
    BY <1>1, <1>3, <1>4, <2>1, <2>2, QuietSound DEF IInv
<1>11. QED
  BY <1>6, <1>7, <1>8, <1>9, <1>10 DEF IInv

LEMMA DeletePostKeeps ==
    ASSUME IInv, NEW r \in Requests, NEW p \in Posts, DeletePost(r, p)
    PROVE  IInv'
<1>1. PICK u \in Users : u = author[p] /\ u \in invited /\ Begin(r, "postRemove", u, p)
  BY Holders DEF DeletePost
<1>2. QED
  BY <1>1, ArgSets, BeginKeeps

-----------------------------------------------------------------------------
(* Steps that read.                                                          *)

LEMMA OfSteps ==
    ASSUME IInv, NEW r \in Requests, pc[r] \in Steps
    PROVE  /\ job[r].user \in Users
           /\ pc[r] # "registerInsert" => job[r].user \in invited
BY JobOf DEF IInv, Fits, Known

LEMMA BaseFindKeeps ==
    ASSUME IInv, NEW r \in Requests, BaseFind(r)
    PROVE  IInv'
<1>1. PICK u \in Users : u = job[r].user /\ u \in invited
  BY OfSteps, StepSets DEF BaseFind, FlagSteps
<1>2. PICK a \in Flags : a = job[r].arg
  BY JobOf DEF IInv, BaseFind, Fits, FlagSteps
<1> DEFINE args == Job(u, a, Flagged(a, base[u]), {})
<1>3. /\ pc[r] = "baseFind"
      /\ UNCHANGED <<role, base, profile, postRows, access, announced, mishaps>>
  BY DEF BaseFind
<1>4. pc[r] \notin EmitSteps \cup PostSteps /\ pc[r] \in FlagSteps
  BY <1>3 DEF EmitSteps, PostSteps, FlagSteps
<1>5. ASSUME base[u].row, Await(r, "baseReload", args) PROVE IInv'
  <2>1. base[u] \in BaseRows
    BY <1>5, RowOf DEF IInv
  <2>2. Flagged(a, base[u]) \in BaseRows
    BY <2>1, FlaggedRow
  <2>3. /\ args \in Jobs /\ args.user = u /\ args.arg = a
        /\ args.copy = Flagged(a, base[u])
    BY <2>2, JobFields
  <2> HIDE DEF args
  <2>4. /\ "baseReload" \in Steps \ {"registerInsert"} /\ "baseReload" \in SaveSteps
        /\ "baseReload" \in FlagSteps
        /\ "baseReload" \notin NameSteps \cup HeldSteps \cup PostArgSteps \cup EmitSteps \cup PostSteps
    BY DEF Steps, SaveSteps, FlagSteps, NameSteps, HeldSteps, PostArgSteps, EmitSteps, PostSteps
  <2>5. Fits("baseReload", args)
    BY <2>2, <2>3, <2>4, StepSets DEF Fits
  <2>6. Marks("baseReload", args) <=> Marks(pc[r], job[r])
    BY <1>2, <1>3, <1>4, <2>3, <2>4 DEF Marks
  <2>7. ASSUME NEW v \in Users
        PROVE  /\ "stale" \notin mishaps[v] =>
                    /\ Saves("baseReload", args, v, base[v])
                    /\ HasSeen("baseReload", args, v, base[v], profile[v])
               /\ Tells("baseReload", args, v, profile[v])
    <3>1. Saves("baseReload", args, v, base[v])
      BY <1>5, <2>3 DEF Saves
    <3>2. "stale" \notin mishaps[v] => HasSeen(pc[r], job[r], v, base[v], profile[v])
      BY DEF IInv, Sound, Marked
    <3>3. "stale" \notin mishaps[v] => HasSeen("baseReload", args, v, base[v], profile[v])
      BY <1>1, <2>3, <2>6, <3>2 DEF HasSeen
    <3>4. Tells("baseReload", args, v, profile[v])
      BY DEF Tells
    <3>5. QED
      BY <3>1, <3>3, <3>4
  <2>8. QED
    BY <1>1, <1>3, <1>4, <1>5, <2>3, <2>4, <2>5, <2>6, <2>7, QuietKeeps, StepSets
<1>6. ASSUME ~ base[u].row, Finish(r, "rejected") PROVE IInv'
  <2>1. ~ profile[u].row
    BY <1>6 DEF IInv, Stored
  <2>2. QED
    BY <1>1, <1>3, <1>4, <1>6, <2>1, QuietEnd DEF Outcomes
<1>7. QED
  BY <1>1, <1>2, <1>5, <1>6 DEF BaseFind, Flagged

LEMMA BaseReloadKeeps ==
    ASSUME IInv, NEW r \in Requests, BaseReload(r)
    PROVE  IInv'
<1>1. PICK u \in Users : u = job[r].user /\ u \in invited
  BY OfSteps, StepSets DEF BaseReload, FlagSteps, SaveSteps
<1>2. PICK a \in Flags, c \in BaseRows : a = job[r].arg /\ c = job[r].copy
  BY JobOf DEF IInv, BaseReload, Fits, FlagSteps, SaveSteps
<1> DEFINE d == Differing(c, base[u])
           args == Job(u, a, c, d)
<1>3. /\ pc[r] = "baseReload" /\ Await(r, "baseWrite", args)
      /\ UNCHANGED <<role, base, profile, postRows, access, announced, mishaps>>
  BY <1>1, <1>2 DEF BaseReload
<1>4. pc[r] \notin EmitSteps \cup PostSteps /\ pc[r] \in FlagSteps /\ pc[r] \in SaveSteps
  BY <1>3 DEF EmitSteps, PostSteps, FlagSteps, SaveSteps
<1>5. d = {"*"} \/ d \subseteq BaseColumns
  BY RowOf, DifferingNone, DifferingBase DEF IInv
<1>6. /\ args \in Jobs /\ args.user = u /\ args.arg = a
      /\ args.copy = c /\ args.columns = d
  <2> HIDE DEF d
  <2>1. QED
    BY <1>5, JobFields
<1> HIDE DEF args
<1>7. /\ "baseWrite" \in Steps \ {"registerInsert"} /\ "baseWrite" \in SaveSteps
      /\ "baseWrite" \in FlagSteps
      /\ "baseWrite" \notin NameSteps \cup HeldSteps \cup PostArgSteps \cup EmitSteps \cup PostSteps
  BY DEF Steps, SaveSteps, FlagSteps, NameSteps, HeldSteps, PostArgSteps, EmitSteps, PostSteps
<1>8. Fits("baseWrite", args)
  BY <1>5, <1>6, <1>7, StepSets DEF Fits
<1>9. Marks("baseWrite", args) <=> Marks(pc[r], job[r])
  BY <1>2, <1>3, <1>4, <1>6, <1>7 DEF Marks
<1>10. ASSUME NEW v \in Users
       PROVE  /\ "stale" \notin mishaps[v] =>
                    /\ Saves("baseWrite", args, v, base[v])
                    /\ HasSeen("baseWrite", args, v, base[v], profile[v])
              /\ Tells("baseWrite", args, v, profile[v])
  <2>1. ASSUME "stale" \notin mishaps[v]
        PROVE  /\ Saves(pc[r], job[r], v, base[v])
               /\ HasSeen(pc[r], job[r], v, base[v], profile[v])
    BY <2>1 DEF IInv, Sound, Saved, Marked
  <2>2. "stale" \notin mishaps[v] => Saves("baseWrite", args, v, base[v])
    BY <1>1, <1>2, <1>4, <1>6, <2>1 DEF Saves
  <2>3. "stale" \notin mishaps[v] => HasSeen("baseWrite", args, v, base[v], profile[v])
    BY <1>1, <1>6, <1>9, <2>1 DEF HasSeen
  <2>4. Tells("baseWrite", args, v, profile[v])
    BY DEF Tells
  <2>5. QED
    BY <2>2, <2>3, <2>4
<1>11. QED
  BY <1>1, <1>3, <1>4, <1>6, <1>7, <1>8, <1>9, <1>10, QuietKeeps, StepSets

(* A request that goes on with the profile it has made                       *)
LEMMA HoldingKeeps ==
    ASSUME IInv, NEW r \in Requests, pc[r] \in {"updateFind", "updateCheck", "imageFind"},
           NEW step \in {"updateCheck", "profileReload"},
           NEW u \in Users, u = job[r].user, u \in invited,
           NEW a \in Usernames \cup Posts \cup Flags \cup {None}, NEW c \in Filled,
           step = "updateCheck" => a \in Usernames,
           Await(r, step, Job(u, a, c, {})),
           "stale" \notin mishaps[u] => profile[u].row \/ ~ base[u].row,
           UNCHANGED <<role, base, profile, postRows, access, announced, mishaps>>
    PROVE  IInv'
<1> DEFINE args == Job(u, a, c, {})
<1>1. args \in Jobs /\ args.user = u /\ args.arg = a /\ args.copy = c
  BY JobFields
<1> HIDE DEF args
<1>2. /\ step \in Steps \ {"registerInsert"} /\ step \in HeldSteps
      /\ step \notin NameSteps \cup FlagSteps \cup SaveSteps \cup PostArgSteps
            \cup EmitSteps \cup PostSteps
      /\ step # "profileWrite" /\ step # "completeFind"
  BY DEF Steps, SaveSteps, FlagSteps, NameSteps, HeldSteps, PostArgSteps, EmitSteps, PostSteps,
         ProfileSteps
<1>3. Fits(step, args)
  BY <1>1, <1>2, StepSets DEF Fits, SaveSteps
<1>4. pc[r] \notin EmitSteps \cup PostSteps /\ ~ Marks(pc[r], job[r])
  BY DEF EmitSteps, PostSteps, Marks, FlagSteps, SaveSteps
<1>5. ASSUME NEW v \in Users
      PROVE  /\ "stale" \notin mishaps[v] =>
                    /\ Saves(step, args, v, base[v])
                    /\ HasSeen(step, args, v, base[v], profile[v])
             /\ Tells(step, args, v, profile[v])
  <2>1. Saves(step, args, v, base[v])
    BY <1>2 DEF Saves
  <2>2. "stale" \notin mishaps[v] => HasSeen(step, args, v, base[v], profile[v])
    BY <1>1 DEF HasSeen
  <2>3. Tells(step, args, v, profile[v])
    BY DEF Tells
  <2>4. QED
    BY <2>1, <2>2, <2>3
<1>6. Await(r, step, args)
  BY DEF args
<1>7. step # "postInsert" /\ step # "postRemove"
  OBVIOUS
<1>8. QED
  BY <1>1, <1>2, <1>3, <1>4, <1>5, <1>6, <1>7, QuietKeeps

LEMMA UpdateFindKeeps ==
    ASSUME IInv, NEW r \in Requests, UpdateFind(r)
    PROVE  IInv'
<1>1. PICK u \in Users : u = job[r].user /\ u \in invited
  BY OfSteps, StepSets DEF UpdateFind, NameSteps
<1>2. PICK n \in Usernames : n = job[r].arg
  BY JobOf DEF IInv, UpdateFind, Fits, NameSteps
<1> DEFINE new == ProfileRow(n, profile[u].image)
<1>3. /\ pc[r] = "updateFind"
      /\ UNCHANGED <<role, base, profile, postRows, access, announced, mishaps>>
  BY DEF UpdateFind
<1>4. CASE Finish(r, "rejected")
  <2>1. pc[r] \notin EmitSteps \cup PostSteps /\ ~ Marks(pc[r], job[r])
    BY <1>3 DEF EmitSteps, PostSteps, Marks, FlagSteps, SaveSteps
  <2>2. QED
    BY <1>3, <1>4, <2>1, QuietEnd DEF Outcomes
<1>5. ASSUME profile[u].row,
             \E step \in {"updateCheck", "profileReload"} : Await(r, step, Job(u, n, new, {}))
      PROVE  IInv'
  <2>1. profile[u].image \in BOOLEAN
    BY <1>5, RowOf DEF IInv, Filled
  <2>2. new \in Filled
    BY <2>1, ProfileRowFields
  <2> HIDE DEF new
  <2>3. QED
    BY <1>1, <1>3, <1>5, <2>2, HoldingKeeps
<1>6. QED
  BY <1>1, <1>2, <1>4, <1>5 DEF UpdateFind, Holding

LEMMA UpdateCheckKeeps ==
    ASSUME IInv, NEW r \in Requests, UpdateCheck(r)
    PROVE  IInv'
<1>1. PICK u \in Users : u = job[r].user /\ u \in invited
  BY OfSteps, StepSets DEF UpdateCheck, HeldSteps
<1>2. PICK c \in Filled : c = job[r].copy
  BY JobOf DEF IInv, UpdateCheck, Fits, HeldSteps
<1>3. PICK a \in Usernames \cup Posts \cup Flags \cup {None} : a = job[r].arg
  BY JobOf DEF IInv
<1>4. /\ pc[r] = "updateCheck"
      /\ UNCHANGED <<role, base, profile, postRows, access, announced, mishaps>>
  BY DEF UpdateCheck
<1>5. CASE Finish(r, "rejected")
  <2>1. pc[r] \notin EmitSteps \cup PostSteps /\ ~ Marks(pc[r], job[r])
    BY <1>4 DEF EmitSteps, PostSteps, Marks, FlagSteps, SaveSteps
  <2>2. QED
    BY <1>4, <1>5, <2>1, QuietEnd DEF Outcomes
<1>6. CASE Await(r, "profileReload", Job(u, a, c, {}))
  <2>1. "stale" \notin mishaps[u] => profile[u].row \/ ~ base[u].row
    BY <1>1, <1>4 DEF IInv, Sound, Marked, HasSeen
  <2>2. QED
    BY <1>1, <1>4, <1>6, <2>1, HoldingKeeps
<1>7. QED
  BY <1>1, <1>2, <1>3, <1>5, <1>6 DEF UpdateCheck, Holding

LEMMA ImageFindKeeps ==
    ASSUME IInv, NEW r \in Requests, ImageFind(r)
    PROVE  IInv'
<1>1. PICK u \in Users : u = job[r].user /\ u \in invited
  BY OfSteps, StepSets DEF ImageFind
<1>2. PICK a \in Usernames \cup Posts \cup Flags \cup {None} : a = job[r].arg
  BY JobOf DEF IInv
<1> DEFINE new == ProfileRow(profile[u].username, TRUE)
<1>3. /\ pc[r] = "imageFind"
      /\ UNCHANGED <<role, base, profile, postRows, access, announced, mishaps>>
  BY DEF ImageFind
<1>4. CASE Finish(r, "rejected")
  <2>1. pc[r] \notin EmitSteps \cup PostSteps /\ ~ Marks(pc[r], job[r])
    BY <1>3 DEF EmitSteps, PostSteps, Marks, FlagSteps, SaveSteps
  <2>2. QED
    BY <1>3, <1>4, <2>1, QuietEnd DEF Outcomes
<1>5. ASSUME profile[u].row, Await(r, "profileReload", Job(u, a, new, {}))
      PROVE  IInv'
  <2>1. profile[u].username \in Usernames
    BY <1>5, RowOf DEF IInv, Filled
  <2>2. new \in Filled
    BY <2>1, ProfileRowFields
  <2> HIDE DEF new
  <2>3. QED
    BY <1>1, <1>3, <1>5, <2>2, HoldingKeeps
<1>6. QED
  BY <1>1, <1>2, <1>4, <1>5 DEF ImageFind, Holding

LEMMA ProfileReloadKeeps ==
    ASSUME IInv, NEW r \in Requests, ProfileReload(r)
    PROVE  IInv'
<1>1. PICK u \in Users : u = job[r].user /\ u \in invited
  BY OfSteps, StepSets DEF ProfileReload, HeldSteps
<1>2. PICK c \in Filled : c = job[r].copy
  BY JobOf DEF IInv, ProfileReload, Fits, HeldSteps
<1>3. PICK a \in Usernames \cup Posts \cup Flags \cup {None} : a = job[r].arg
  BY JobOf DEF IInv
<1> DEFINE d == Differing(c, profile[u])
           args == Job(u, a, c, d)
<1>4. /\ pc[r] = "profileReload" /\ Await(r, "profileWrite", args)
      /\ UNCHANGED <<role, base, profile, postRows, access, announced, mishaps>>
  BY <1>1, <1>2, <1>3 DEF ProfileReload
<1>5. d = {"*"} \/ d \subseteq ProfileColumns
  BY RowOf, DifferingNone, DifferingProfile DEF IInv
<1>6. args \in Jobs /\ args.user = u /\ args.copy = c /\ args.columns = d
  <2> HIDE DEF d
  <2>1. QED
    BY <1>5, JobFields
<1> HIDE DEF args
<1>7. /\ "profileWrite" \in Steps \ {"registerInsert"} /\ "profileWrite" \in HeldSteps
      /\ "profileWrite" \notin NameSteps \cup FlagSteps \cup SaveSteps \cup PostArgSteps
            \cup EmitSteps \cup PostSteps
  BY DEF Steps, SaveSteps, FlagSteps, NameSteps, HeldSteps, PostArgSteps, EmitSteps, PostSteps,
         ProfileSteps
<1>8. Fits("profileWrite", args)
  BY <1>5, <1>6, <1>7, StepSets DEF Fits, SaveSteps
<1>9. pc[r] \notin EmitSteps \cup PostSteps /\ ~ Marks(pc[r], job[r])
  BY <1>4 DEF EmitSteps, PostSteps, Marks, FlagSteps, SaveSteps
<1>10. ASSUME NEW v \in Users
       PROVE  /\ "stale" \notin mishaps[v] =>
                    /\ Saves("profileWrite", args, v, base[v])
                    /\ HasSeen("profileWrite", args, v, base[v], profile[v])
              /\ Tells("profileWrite", args, v, profile[v])
  <2>1. Saves("profileWrite", args, v, base[v])
    BY <1>7 DEF Saves
  <2>2. "stale" \notin mishaps[v] => HasSeen(pc[r], job[r], v, base[v], profile[v])
    BY DEF IInv, Sound, Marked
  <2>3. "stale" \notin mishaps[v] => HasSeen("profileWrite", args, v, base[v], profile[v])
    BY <1>1, <1>4, <1>6, <2>2 DEF HasSeen
  <2>4. Tells("profileWrite", args, v, profile[v])
    BY <1>6 DEF Tells
  <2>5. QED
    BY <2>1, <2>3, <2>4
<1>11. QED
  BY <1>1, <1>4, <1>6, <1>7, <1>8, <1>9, <1>10, QuietKeeps

LEMMA DeleteFindKeeps ==
    ASSUME IInv, NEW r \in Requests, DeleteFind(r)
    PROVE  IInv'
<1>1. /\ pc[r] = "deleteFind"
      /\ UNCHANGED <<role, base, profile, postRows, access, announced, mishaps>>
  BY DEF DeleteFind
<1>2. job[r].user \in invited /\ job[r].user \in Users
  BY <1>1, OfSteps, StepSets
<1>3. pc[r] \notin EmitSteps \cup PostSteps /\ ~ Marks(pc[r], job[r])
  BY <1>1 DEF EmitSteps, PostSteps, Marks, FlagSteps, SaveSteps
<1>4. CASE Finish(r, "rejected")
  BY <1>1, <1>3, <1>4, QuietEnd DEF Outcomes
<1>5. CASE Goto(r, "deleteTx")
  <2>1. Await(r, "deleteTx", job[r])
    BY <1>5, GotoAwaits DEF IInv
  <2>2. /\ "deleteTx" \in Steps \ {"registerInsert"}
        /\ "deleteTx" \notin NameSteps \cup FlagSteps \cup SaveSteps \cup HeldSteps
              \cup PostArgSteps \cup EmitSteps \cup PostSteps
    BY DEF Steps, SaveSteps, FlagSteps, NameSteps, HeldSteps, PostArgSteps, EmitSteps, PostSteps
  <2>3. Fits("deleteTx", job[r])
    BY <1>2, <2>2, JobOf, StepSets DEF Fits, IInv
  <2>4. ASSUME NEW v \in Users
        PROVE  /\ Saves("deleteTx", job[r], v, base[v])
               /\ HasSeen("deleteTx", job[r], v, base[v], profile[v])
               /\ Tells("deleteTx", job[r], v, profile[v])
    BY <2>2 DEF Saves, HasSeen, Tells, Marks
  <2>5. QED
    BY <1>1, <1>2, <1>3, <2>1, <2>2, <2>3, <2>4, QuietKeeps
<1>6. QED
  BY <1>4, <1>5 DEF DeleteFind

-----------------------------------------------------------------------------
(* What is noted of an account when its rows change.                         *)

LEMMA NoteFacts ==
    ASSUME Typed, NEW us, NEW what \in SUBSET Mishaps, Note(us, what)
    PROVE  /\ mishaps' \in [Users -> SUBSET Mishaps]
           /\ \A u \in Users : mishaps[u] \subseteq mishaps'[u]
           /\ \A u \in Users \cap us : what \subseteq mishaps'[u]
<1>1. mishaps \in [Users -> SUBSET Mishaps]
  BY Types
<1>2. QED
  BY <1>1 DEF Note

LEMMA NoteOthers ==
    ASSUME Typed, NEW r \in Requests, NEW u \in Users, u = job[r].user, NEW steps, NEW mishap \in Mishaps,
           Note({job[r].user} \cap Others(r, steps), {mishap})
    PROVE  /\ mishaps' \in [Users -> SUBSET Mishaps]
           /\ \A v \in Users : mishaps[v] \subseteq mishaps'[v]
           /\ mishap \notin mishaps'[u] =>
                \A q \in Requests \ {r} : ~ (job[q].user = u /\ pc[q] \in steps)
<1> DEFINE us == {job[r].user} \cap Others(r, steps)
<1>1. ASSUME NEW q \in Requests \ {r}, job[q].user = u, pc[q] \in steps PROVE u \in us
  BY <1>1 DEF Others
<1> HIDE DEF us
<1>2. Note(us, {mishap}) /\ {mishap} \in SUBSET Mishaps
  BY DEF us
<1>3. /\ mishaps' \in [Users -> SUBSET Mishaps]
      /\ \A v \in Users : mishaps[v] \subseteq mishaps'[v]
      /\ \A v \in Users \cap us : {mishap} \subseteq mishaps'[v]
  BY <1>2, NoteFacts
<1>4. QED
  BY <1>1, <1>3

LEMMA FailsKeeps ==
    ASSUME IInv, NEW r \in Requests, RequestFails(r)
    PROVE  IInv'
<1>1. PICK u \in Users : u = job[r].user
  BY OfSteps DEF RequestFails
<1> DEFINE what == (IF job[r].arg = "complete" \/ pc[r] = "completeFind"
                      THEN {"unmarked"} ELSE {})
                   \cup (IF pc[r] \in {"completeFind", "updated"} THEN {"unannounced"} ELSE {})
                   \cup (IF pc[r] \in PostSteps THEN {"miscounted"} ELSE {})
<1>2. /\ pc[r] \in Steps \ {"deleted"} /\ Note({u}, what) /\ Await(r, "failed", NoJob)
      /\ UNCHANGED <<role, base, profile, author, live, invited, entered, announced>>
  BY <1>1 DEF RequestFails, Finish, postRows, access
<1>3. what \in SUBSET Mishaps
  BY DEF Mishaps
<1>4. /\ Marks(pc[r], job[r]) => "unmarked" \in what
      /\ pc[r] \in EmitSteps => "unannounced" \in what
      /\ pc[r] \in PostSteps => "miscounted" \in what
  BY <1>2 DEF Marks, EmitSteps
<1> HIDE DEF what
<1>5. /\ mishaps' \in [Users -> SUBSET Mishaps]
      /\ \A v \in Users : mishaps[v] \subseteq mishaps'[v]
      /\ what \subseteq mishaps'[u]
  BY <1>2, <1>3, NoteFacts DEF IInv
<1>6. /\ Fits("failed", NoJob) /\ NoJob.user = None
      /\ "failed" \notin Steps \cup PostSteps /\ "failed" # "postInsert" /\ "failed" # "postRemove"
  BY NoJobFits, StepSets DEF Outcomes
<1>7. Typed'
  BY <1>2, <1>5, <1>6, StepTyped, Types DEF IInv
<1>8. Known'
  BY <1>2, <1>6, StepKnown DEF IInv
<1>9. Stored' /\ Fresh'
  BY <1>2, <1>6, StepFresh DEF IInv, Stored
<1>10. ASSUME NEW v \in Users PROVE Sound(v)'
  <2>1. /\ Saves("failed", NoJob, v, base[v])
        /\ HasSeen("failed", NoJob, v, base[v], profile[v])
        /\ Tells("failed", NoJob, v, profile[v])
    BY <1>6, NoneDiffers DEF Saves, HasSeen, Tells
  <2>2. job[r].user = v => what \subseteq mishaps'[v]
    BY <1>1, <1>5
  <2>3. QED
    BY <1>2, <1>4, <1>5, <1>6, <2>1, <2>2, QuietSound DEF IInv
<1>11. QED
  BY <1>7, <1>8, <1>9, <1>10 DEF IInv

-----------------------------------------------------------------------------
(* Steps that write the account.                                             *)

(* The account is saved, and the request ends.  No other request holds a     *)
(* copy of the old row, unless that is noted.                                *)
LEMMA SetBaseKeeps ==
    ASSUME IInv, NEW r \in Requests, pc[r] \in Steps \ EmitSteps,
           NEW u \in Users, u = job[r].user, NEW new \in BaseRows,
           SetBase(r, new), Finish(r, "done"),
           UNCHANGED <<role, profile, postRows, entered, announced>>,
           invited \subseteq invited', invited' \in SUBSET Users, u \in invited',
           Counted(u)',
           "stale" \notin mishaps'[u] =>
               /\ base[u].row \/ u \notin invited
               /\ new.complete => profile[u].row
               /\ profile[u].row /\ ~ new.complete =>
                    ~ base[u].complete /\ ~ Marks(pc[r], job[r])
    PROVE  IInv'
<1>1. /\ base' = [base EXCEPT ![u] = new] /\ Await(r, "done", NoJob)
      /\ UNCHANGED <<role, profile, author, live, entered, announced>>
  BY DEF SetBase, Finish, postRows
<1>2. /\ mishaps' \in [Users -> SUBSET Mishaps]
      /\ \A v \in Users : mishaps[v] \subseteq mishaps'[v]
      /\ "stale" \notin mishaps'[u] =>
           \A q \in Requests \ {r} : ~ (job[q].user = u /\ pc[q] \in SaveSteps)
  BY NoteOthers DEF SetBase, Mishaps, IInv
<1>3. /\ base' \in [Users -> {NoRow} \cup BaseRows] /\ base'[u] = new /\ new.row
      /\ \A v \in Users \ {u} : base'[v] = base[v]
  BY <1>1, Types, Domains DEF IInv
<1>4. Fits("done", NoJob) /\ NoJob.user = None /\ "done" \notin Steps
        /\ "done" # "postInsert" /\ "done" # "postRemove"
  BY NoJobFits, StepSets DEF Outcomes
<1>5. Typed'
  BY <1>1, <1>2, <1>3, <1>4, StepTyped, Types DEF IInv
<1>6. Known'
  BY <1>1, <1>3, <1>4, StepKnown DEF IInv
<1>7. Stored'
  BY <1>1, <1>3 DEF IInv, Stored
<1>8. Fresh'
  BY <1>1, <1>4, StepFresh DEF IInv
<1>9. ASSUME NEW v \in Users PROVE Sound(v)'
  <2>1. CASE v # u
    <3>1. PostsOf(v)' = PostsOf(v)
      BY <1>1 DEF PostsOf
    <3>2. QED
      BY <1>1, <1>2, <1>3, <1>4, <2>1, <3>1, OtherSound DEF IInv
  <2>2. Saved(u)'
    <3>1. "stale" \notin mishaps'[u] =>
            \A q \in Requests \ {r} : Saves(pc[q], job[q], u, base'[u])
      BY <1>2 DEF Saves
    <3>2. Saves("done", NoJob, u, base'[u])
      BY <1>4, NoneDiffers DEF Saves
    <3>3. QED
      BY <1>1, <1>2, <3>1, <3>2, StepSaved DEF IInv, Sound
  <2>3. Marked(u)'
    <3>1. HasSeen("done", NoJob, u, base'[u], profile'[u])
      BY <1>4, NoneDiffers DEF HasSeen
    <3>2. ASSUME "stale" \notin mishaps'[u], NEW q \in Requests \ {r},
                 HasSeen(pc[q], job[q], u, base[u], profile[u])
          PROVE  HasSeen(pc[q], job[q], u, base'[u], profile'[u])
      <4>1. CASE base[u].row
        BY <1>1, <3>2, <4>1 DEF HasSeen
      <4>2. CASE u \notin invited
        <5>1. job[q].user = u => pc[q] \notin Steps \ {"registerInsert"}
          BY <4>2 DEF IInv, Known
        <5>2. QED
          BY <5>1, StepSets DEF HasSeen, Marks, HeldSteps
      <4>3. QED
        BY <3>2, <4>1, <4>2
    <3>3. QED
      BY <1>1, <1>2, <1>3, <3>1, <3>2, StepMarked DEF IInv, Sound
  <2>4. ToBeMarked(u)'
    BY <1>1, <1>2, <1>3, StepToBeMarked DEF IInv, Sound
  <2>5. Told(u)'
    <3>1. Tells("done", NoJob, u, profile'[u])
      BY <1>4, NoneDiffers DEF Tells
    <3>2. QED
      BY <1>1, <1>2, <3>1, StepTold DEF IInv, Sound
  <2>6. QED
    BY <2>1, <2>2, <2>3, <2>4, <2>5 DEF Sound
<1>10. QED
  BY <1>5, <1>6, <1>7, <1>8, <1>9 DEF IInv

LEMMA RegisterInsertKeeps ==
    ASSUME IInv, NEW r \in Requests, RegisterInsert(r)
    PROVE  IInv'
<1>1. pc[r] = "registerInsert"
  BY DEF RegisterInsert
<1>2. /\ pc[r] \in Steps /\ pc[r] \notin FlagSteps \cup EmitSteps \cup PostSteps \cup HeldSteps
      /\ ~ Marks(pc[r], job[r])
  BY <1>1, StepSets DEF PostArgSteps, Marks, HeldSteps
<1>3. PICK u \in Users : u = job[r].user
  BY <1>2, OfSteps
<1>4. CASE base[u].row \/ u \in invited
  <2>1. /\ Finish(r, "rejected")
        /\ UNCHANGED <<role, base, profile, postRows, access, announced, mishaps>>
    BY <1>3, <1>4 DEF RegisterInsert, access
  <2>2. QED
    BY <1>2, <2>1, QuietEnd DEF Outcomes
<1>5. CASE ~ base[u].row /\ u \notin invited
  <2> DEFINE new == BaseRow(FALSE, FALSE, 0)
  <2>1. /\ SetBase(r, new) /\ Finish(r, "done") /\ invited' = invited \cup {u}
        /\ UNCHANGED <<role, profile, postRows, entered, announced>>
    BY <1>3, <1>5 DEF RegisterInsert
  <2>2. new \in BaseRows /\ new.complete = FALSE /\ new.posts = 0
    BY DEF new, BaseRow, BaseRows
  <2> HIDE DEF new
  <2>3. ~ profile[u].row
    BY <1>5 DEF IInv, Stored
  <2>4. base'[u] = new
    BY <1>3, <2>1, Types DEF SetBase, IInv
  <2>5. PostsOf(u)' = {}
    BY <1>5, <2>1 DEF PostsOf, IInv, Known, postRows, Typed, TypeOK
  <2>6. \A s \in PostSteps : Owing(s, u)' = {}
    <3>1. ASSUME NEW s \in PostSteps, NEW q \in Requests, pc'[q] = s, job'[q].user = u
          PROVE  FALSE
      <4>1. q # r
        BY <2>1, <3>1, Moved, StepSets DEF Finish, IInv, Outcomes
      <4>2. pc[q] \in Steps \ {"registerInsert"} /\ job[q].user = u
        BY <2>1, <3>1, <4>1, Moved, StepSets DEF Finish, IInv, PostSteps
      <4>3. QED
        BY <1>5, <4>2 DEF IInv, Known
    <3>2. QED
      BY <3>1 DEF Owing
  <2>7. Counted(u)'
    <3>1. Owing("countUp", u)' = {} /\ Owing("countDown", u)' = {}
      BY <2>6 DEF PostSteps
    <3>2. QED
      BY <2>2, <2>4, <2>5, <3>1, FS_EmptySet DEF Counted
  <2>8. invited' \in SUBSET Users
    BY <2>1, Types DEF IInv
  <2>9. QED
    BY <1>2, <1>3, <1>5, <2>1, <2>2, <2>3, <2>7, <2>8, SetBaseKeeps
<1>6. QED
  BY <1>4, <1>5

LEMMA BaseWriteKeeps ==
    ASSUME IInv, NEW r \in Requests, BaseWrite(r)
    PROVE  IInv'
<1>1. pc[r] = "baseWrite"
  BY DEF BaseWrite
<1>2. /\ pc[r] \in Steps /\ pc[r] \in SaveSteps /\ pc[r] \in FlagSteps
      /\ pc[r] # "registerInsert" /\ pc[r] \notin EmitSteps \cup PostSteps
  BY <1>1 DEF Steps, SaveSteps, FlagSteps, EmitSteps, PostSteps
<1>3. PICK u \in Users : u = job[r].user /\ u \in invited
  BY <1>2, OfSteps
<1>4. PICK c \in BaseRows, a \in Flags : c = job[r].copy /\ a = job[r].arg
  BY <1>2, JobOf DEF IInv, Fits
<1> DEFINE d == job[r].columns
<1>5. d = {"*"} \/ d \subseteq BaseColumns
  BY <1>1, JobOf DEF IInv, Fits
<1>6. UNCHANGED <<role, profile, postRows, access, entered, invited, announced>>
  BY DEF BaseWrite, access
<1>7. ASSUME "stale" \notin mishaps[u]
      PROVE  /\ base[u].row /\ base[u] \in BaseRows
             /\ d # {"*"}
             /\ Overlay(c, d, base[u]) = c
             /\ c.posts = base[u].posts
             /\ c.complete = (a = "complete" \/ base[u].complete)
             /\ c.complete => profile[u].row
             /\ ~ c.complete => ~ Marks(pc[r], job[r])
  <2>1. Saves(pc[r], job[r], u, base[u]) /\ HasSeen(pc[r], job[r], u, base[u], profile[u])
    BY <1>7 DEF IInv, Sound, Saved, Marked
  <2>2. base[u].row /\ c = Flagged(a, base[u]) /\ d = Differing(c, base[u])
    BY <1>1, <1>2, <1>3, <1>4, <2>1 DEF Saves
  <2>3. base[u] \in BaseRows
    BY <2>2, RowOf DEF IInv
  <2>4. /\ c.posts = base[u].posts
        /\ c.complete = (a = "complete" \/ base[u].complete)
    BY <2>2, <2>3, FlaggedRow
  <2>5. d # {"*"} /\ Overlay(c, d, base[u]) = c
    BY <2>2, <2>3, DifferingBase
  <2>6. Marks(pc[r], job[r]) <=> a = "complete"
    BY <1>1, <1>2, <1>4 DEF Marks
  <2>7. a = "complete" => profile[u].row
    BY <1>3, <2>1, <2>2, <2>6 DEF HasSeen
  <2>8. base[u].complete => profile[u].row
    BY <1>7, <2>2 DEF IInv, Sound, Marked
  <2>9. ~ c.complete => ~ Marks(pc[r], job[r])
    BY <2>4, <2>6
  <2>10. c.complete => profile[u].row
    BY <2>4, <2>7, <2>8
  <2>11. QED
    BY <2>2, <2>3, <2>4, <2>5, <2>9, <2>10
<1> HIDE DEF d
<1>8. ASSUME NEW new \in BaseRows, SetBase(r, new), Finish(r, "done"),
             "stale" \notin mishaps[u] => new = c
      PROVE  IInv'
  <2>1. /\ mishaps[u] \subseteq mishaps'[u] /\ base'[u] = new
    BY <1>3, <1>8, NoteOthers, Types DEF SetBase, IInv, Mishaps
  <2>2. Counted(u)'
    <3>1. PostsOf(u)' = PostsOf(u)
      BY <1>6 DEF PostsOf, postRows
    <3>2. NoJob.user # u
      BY NoJobFits, NoneDiffers DEF Outcomes
    <3>3. QED
      BY <1>2, <1>7, <1>8, <2>1, <3>1, <3>2, StepCounted DEF Finish, IInv, Sound
  <2>3. "stale" \notin mishaps'[u] =>
            /\ base[u].row \/ u \notin invited
            /\ new.complete => profile[u].row
            /\ profile[u].row /\ ~ new.complete =>
                 ~ base[u].complete /\ ~ Marks(pc[r], job[r])
    BY <1>7, <1>8, <2>1
  <2>4. invited' \in SUBSET Users /\ invited \subseteq invited' /\ u \in invited'
    BY <1>3, <1>6, Types DEF IInv
  <2>5. QED
    BY <1>2, <1>3, <1>6, <1>8, <2>2, <2>3, <2>4, SetBaseKeeps
<1>9. CASE d = {"*"} /\ ~ base[u].row /\ SetBase(r, c) /\ Finish(r, "done")
  BY <1>8, <1>9
<1>10. CASE /\ d # {"*"} /\ base[u].row
            /\ SetBase(r, Overlay(c, d, base[u])) /\ Finish(r, "done")
  <2>1. Overlay(c, d, base[u]) \in BaseRows
    BY <1>10, RowOf, OverlayBase DEF IInv
  <2>2. QED
    BY <1>7, <1>8, <1>10, <2>1
<1>11. CASE /\ (d = {"*"}) = base[u].row
            /\ Finish(r, IF base[u].row THEN "failed" ELSE "done")
            /\ UNCHANGED <<base, mishaps>>
  <2>1. "stale" \in mishaps[u]
    BY <1>7, <1>11
  <2>2. PICK outcome \in Outcomes : Finish(r, outcome)
    BY <1>11 DEF Outcomes
  <2>3. QED
    BY <1>2, <1>3, <1>6, <1>11, <2>1, <2>2, QuietEnd
<1>12. QED
  BY <1>3, <1>4, <1>9, <1>10, <1>11 DEF BaseWrite, d

LEMMA CountPostKeeps ==
    ASSUME IInv, NEW r \in Requests, CountPost(r)
    PROVE  IInv'
<1>1. pc[r] \in PostSteps
  BY DEF CountPost
<1>2. /\ pc[r] \in Steps /\ pc[r] # "registerInsert"
      /\ pc[r] \notin EmitSteps \cup FlagSteps /\ ~ Marks(pc[r], job[r])
  BY <1>1, StepSets DEF PostSteps, EmitSteps, FlagSteps, SaveSteps, Marks
<1>3. PICK u \in Users : u = job[r].user /\ u \in invited
  BY <1>2, OfSteps
<1> DEFINE one == IF pc[r] = "countUp" THEN 1 ELSE -1
           new == [base[u] EXCEPT !.posts = @ + one]
<1>4. /\ Finish(r, "done") /\ Await(r, "done", NoJob)
      /\ UNCHANGED <<role, profile, postRows, access, announced, invited, entered>>
  BY DEF CountPost, access, Finish
<1>5. CASE ~ base[u].row
  <2>1. UNCHANGED <<base, mishaps>>
    BY <1>3, <1>5 DEF CountPost
  <2>2. QED
    BY <1>2, <1>3, <1>4, <1>5, <2>1, QuietEnd DEF Outcomes
<1>6. CASE base[u].row
  <2>1. base[u] \in BaseRows
    BY <1>6, RowOf DEF IInv
  <2>2. SetBase(r, new)
    BY <1>3, <1>6 DEF CountPost
  <2>3. /\ new \in BaseRows /\ new.complete = base[u].complete
        /\ new.posts = base[u].posts + one /\ base[u].posts \in Int
    <3>1. one \in Int
      OBVIOUS
    <3> HIDE DEF one
    <3>2. base[u].posts \in Int
      BY <2>1 DEF BaseRows
    <3>3. base[u].posts + one \in Int
      BY <3>1, <3>2
    <3>4. new \in BaseRows /\ new.complete = base[u].complete
      BY <2>1, <3>3 DEF BaseRows
    <3>5. new.posts = base[u].posts + one
      BY <2>1 DEF BaseRows
    <3>6. QED
      BY <3>2, <3>4, <3>5
  <2> HIDE DEF new
  <2>4. mishaps[u] \subseteq mishaps'[u] /\ base'[u] = new
    BY <1>3, <2>2, NoteOthers, Types DEF SetBase, IInv, Mishaps
  <2>5. Counted(u)'
    <3> SUFFICES ASSUME mishaps'[u] \cap {"miscounted", "stale"} = {}
                 PROVE  base'[u].posts + Cardinality(Owing("countUp", u)') =
                          Cardinality(PostsOf(u)') + Cardinality(Owing("countDown", u)')
      BY DEF Counted
    <3>1. base[u].posts + Cardinality(Owing("countUp", u)) =
            Cardinality(PostsOf(u)) + Cardinality(Owing("countDown", u))
      BY <1>6, <2>4 DEF IInv, Sound, Counted
    <3>2. PostsOf(u)' = PostsOf(u)
      BY <1>4 DEF PostsOf, postRows
    <3>3. /\ Cardinality(Owing("countUp", u)) \in Nat
          /\ Cardinality(Owing("countDown", u)) \in Nat
          /\ Cardinality(PostsOf(u)) \in Nat
      BY OwingFinite, PostsFinite DEF IInv
    <3>4. NoJob.user # u
      BY NoJobFits, NoneDiffers DEF Outcomes
    <3>5. CASE pc[r] = "countUp"
      <4>1. Cardinality(Owing("countUp", u)') = Cardinality(Owing("countUp", u)) - 1
        BY <1>3, <1>4, <3>5, OwingShrinks DEF IInv
      <4>2. Owing("countDown", u)' = Owing("countDown", u)
        BY <1>4, <3>4, <3>5, OwingSame DEF IInv
      <4>3. QED
        BY <2>3, <2>4, <3>1, <3>2, <3>3, <3>5, <4>1, <4>2
    <3>6. CASE pc[r] = "countDown"
      <4>1. Cardinality(Owing("countDown", u)') = Cardinality(Owing("countDown", u)) - 1
        BY <1>3, <1>4, <3>6, OwingShrinks DEF IInv
      <4>2. Owing("countUp", u)' = Owing("countUp", u)
        BY <1>4, <3>4, <3>6, OwingSame DEF IInv
      <4>3. QED
        BY <2>3, <2>4, <3>1, <3>2, <3>3, <3>6, <4>1, <4>2
    <3>7. QED
      BY <1>1, <3>5, <3>6 DEF PostSteps
  <2>6. "stale" \notin mishaps'[u] =>
            /\ base[u].row \/ u \notin invited
            /\ new.complete => profile[u].row
            /\ profile[u].row /\ ~ new.complete =>
                 ~ base[u].complete /\ ~ Marks(pc[r], job[r])
    BY <1>2, <1>6, <2>3, <2>4 DEF IInv, Sound, Marked
  <2>7. invited' \in SUBSET Users /\ invited \subseteq invited' /\ u \in invited'
    BY <1>3, <1>4, Types DEF IInv
  <2>8. QED
    BY <1>2, <1>3, <1>4, <2>2, <2>3, <2>5, <2>6, <2>7, SetBaseKeeps
<1>7. QED
  BY <1>5, <1>6, RowOf DEF IInv

-----------------------------------------------------------------------------
(* Steps that write the profile.                                             *)

(* The profile is written and its event is next.  No other request is        *)
(* between its write and its event, unless that is noted.                    *)
LEMMA SetProfileKeeps ==
    ASSUME IInv, NEW r \in Requests, pc[r] \in {"completeInsert", "profileWrite"},
           NEW u \in Users, u = job[r].user, NEW new \in {NoRow} \cup Filled,
           NEW step \in {"completeFind", "updated"}, NEW args, args.user = u,
           SetProfile(r, new), Await(r, step, args), Fits(step, args),
           UNCHANGED <<role, base, postRows, access, announced>>,
           new.row => base[u].row,
           profile[u].row => new.row,
           "stale" \notin mishaps'[u] /\ new.row => step = "completeFind" \/ profile[u].row,
           step = "completeFind" => new.row,
           "crossed" \notin mishaps'[u] => args.copy = new
    PROVE  IInv'
<1>1. /\ profile' = [profile EXCEPT ![u] = new]
      /\ UNCHANGED <<role, base, author, live, invited, entered, announced>>
  BY DEF SetProfile, postRows, access
<1>2. /\ mishaps' \in [Users -> SUBSET Mishaps]
      /\ \A v \in Users : mishaps[v] \subseteq mishaps'[v]
      /\ "crossed" \notin mishaps'[u] =>
           \A q \in Requests \ {r} : ~ (job[q].user = u /\ pc[q] \in ProfileSteps)
  BY NoteOthers DEF SetProfile, Mishaps, IInv
<1>3. /\ profile' \in [Users -> {NoRow} \cup Filled] /\ profile'[u] = new
      /\ \A v \in Users \ {u} : profile'[v] = profile[v]
  BY <1>1, Types DEF IInv
<1>4. /\ pc[r] \in Steps /\ pc[r] # "registerInsert" /\ pc[r] \notin EmitSteps \cup PostSteps
      /\ ~ Marks(pc[r], job[r])
      /\ step \in EmitSteps /\ step \notin SaveSteps \cup FlagSteps \cup PostSteps
      /\ step # "postInsert" /\ step # "postRemove"
  BY DEF Steps, ProfileSteps, CompleteSteps, EmitSteps, PostSteps, Marks, FlagSteps, SaveSteps
<1>5. u \in invited
  BY <1>4, OfSteps
<1>6. Typed'
  BY <1>1, <1>2, <1>3, StepTyped, Types DEF IInv
<1>7. Known'
  BY <1>1, <1>5, StepKnown DEF IInv
<1>8. Stored'
  BY <1>1, <1>3 DEF IInv, Stored
<1>9. Fresh'
  BY <1>1, <1>4, StepFresh DEF IInv
<1>10. ASSUME NEW v \in Users PROVE Sound(v)'
  <2>0. PostsOf(v)' = PostsOf(v)
    BY <1>1 DEF PostsOf
  <2>1. CASE v # u
    BY <1>1, <1>2, <1>3, <2>0, <2>1, OtherSound DEF IInv
  <2>2. Saved(u)'
    <3>1. Saves(step, args, u, base'[u])
      BY <1>4 DEF Saves
    <3>2. QED
      BY <1>1, <1>2, <3>1, StepSaved DEF IInv, Sound
  <2>3. Marked(u)'
    <3>1. HasSeen(step, args, u, base'[u], profile'[u])
      BY <1>3, <1>4 DEF HasSeen, Marks
    <3>2. \A q \in Requests \ {r} : HasSeen(pc[q], job[q], u, base[u], profile[u])
             => HasSeen(pc[q], job[q], u, base'[u], profile'[u])
      BY <1>1, <1>3 DEF HasSeen
    <3>3. "stale" \notin mishaps'[u] =>
             (base'[u].row /\ base'[u].complete => profile'[u].row)
      BY <1>1, <1>2, <1>3 DEF IInv, Sound, Marked
    <3>4. QED
      BY <1>2, <3>1, <3>2, <3>3, StepMarked DEF IInv, Sound
  <2>4. ToBeMarked(u)'
    <3>1. step = "completeFind" => Marks(step, args)
      BY DEF Marks
    <3>2. QED
      BY <1>1, <1>2, <1>3, <1>4, <3>1, StepToBeMarked DEF IInv, Sound
  <2>5. Told(u)'
    <3>1. ASSUME "crossed" \notin mishaps'[u]
          PROVE  /\ \A q \in Requests \ {r} :
                       Tells(pc[q], job[q], u, profile[u]) => Tells(pc[q], job[q], u, profile'[u])
                 /\ Tells(step, args, u, profile'[u])
      BY <1>2, <1>3, <3>1 DEF Tells, ProfileSteps
    <3>2. QED
      BY <1>1, <1>2, <1>4, <3>1, StepTold DEF IInv, Sound
  <2>6. Counted(u)'
    <3>1. PostsOf(u)' = PostsOf(u)
      BY <1>1 DEF PostsOf
    <3>2. QED
      BY <1>1, <1>2, <1>4, <3>1, StepCounted DEF IInv, Sound
  <2>7. QED
    BY <2>1, <2>2, <2>3, <2>4, <2>5, <2>6 DEF Sound
<1>11. QED
  BY <1>6, <1>7, <1>8, <1>9, <1>10 DEF IInv

LEMMA CompleteInsertKeeps ==
    ASSUME IInv, NEW r \in Requests, CompleteInsert(r)
    PROVE  IInv'
<1>1. pc[r] = "completeInsert" /\ UNCHANGED <<role, base, postRows, access, announced>>
  BY DEF CompleteInsert
<1>2. /\ pc[r] \in Steps /\ pc[r] \in NameSteps
      /\ pc[r] \notin EmitSteps \cup PostSteps /\ ~ Marks(pc[r], job[r])
  BY <1>1 DEF Steps, CompleteSteps, NameSteps, EmitSteps, PostSteps, Marks, FlagSteps, SaveSteps
<1>3. PICK u \in Users : u = job[r].user
  BY <1>2, OfSteps
<1>4. PICK n \in Usernames : n = job[r].arg
  BY <1>2, JobOf DEF IInv, Fits
<1> DEFINE new == ProfileRow(n, FALSE)
           args == Job(u, n, new, {})
<1>5. new \in Filled
  BY ProfileRowFields
<1>6. new.row = TRUE
  BY <1>5 DEF Filled
<1> HIDE DEF new
<1>7. args \in Jobs /\ args.user = u /\ args.arg = n /\ args.copy = new
  BY <1>5, ArgSets, JobFields
<1> HIDE DEF args
<1>8. Fits("completeFind", args)
  <2>1. /\ "completeFind" \in Steps
        /\ "completeFind" \notin NameSteps \cup FlagSteps \cup SaveSteps \cup PostArgSteps
    BY DEF Steps, ProfileSteps, NameSteps, FlagSteps, SaveSteps, PostArgSteps, PostSteps
  <2>2. QED
    BY <1>5, <1>7, <2>1, StepSets DEF Fits, SaveSteps
<1>9. CASE /\ base[u].row /\ ~ profile[u].row
           /\ SetProfile(r, new) /\ Await(r, "completeFind", args)
  BY <1>1, <1>3, <1>5, <1>6, <1>7, <1>8, <1>9, SetProfileKeeps
<1>10. CASE /\ Finish(r, IF base[u].row THEN "rejected" ELSE "failed")
            /\ UNCHANGED <<profile, mishaps>>
  <2>1. PICK outcome \in Outcomes : Finish(r, outcome)
    BY <1>10 DEF Outcomes
  <2>2. QED
    BY <1>1, <1>2, <1>10, <2>1, QuietEnd
<1>11. QED
  BY <1>3, <1>4, <1>9, <1>10 DEF CompleteInsert, args, new

LEMMA ProfileWriteKeeps ==
    ASSUME IInv, NEW r \in Requests, ProfileWrite(r)
    PROVE  IInv'
<1>1. pc[r] = "profileWrite" /\ UNCHANGED <<role, base, postRows, access, announced>>
  BY DEF ProfileWrite
<1>2. /\ pc[r] \in Steps /\ pc[r] \in HeldSteps
      /\ pc[r] \notin EmitSteps \cup PostSteps /\ ~ Marks(pc[r], job[r])
  BY <1>1 DEF Steps, ProfileSteps, HeldSteps, EmitSteps, PostSteps, Marks, FlagSteps, SaveSteps
<1>3. PICK u \in Users : u = job[r].user
  BY <1>2, OfSteps
<1>4. PICK c \in Filled : c = job[r].copy
  BY <1>2, JobOf DEF IInv, Fits
<1> DEFINE d == job[r].columns
           new == IF d = {"*"} THEN c ELSE Overlay(c, d, profile[u])
<1>5. d = {"*"} \/ d \subseteq ProfileColumns
  BY <1>1, JobOf DEF IInv, Fits
<1> HIDE DEF d
<1>6. CASE Finish(r, "failed") /\ UNCHANGED <<profile, mishaps>>
  BY <1>1, <1>2, <1>6, QuietEnd DEF Outcomes
<1>7. ASSUME d = {"*"} => ~ profile[u].row /\ base[u].row,
             SetProfile(r, new), Goto(r, "updated")
      PROVE  IInv'
  <2>1. Await(r, "updated", job[r])
    BY <1>7, GotoAwaits DEF IInv
  <2>2. /\ "updated" \in Steps
        /\ "updated" \notin NameSteps \cup FlagSteps \cup SaveSteps \cup PostArgSteps
    BY DEF Steps, ProfileSteps, NameSteps, FlagSteps, SaveSteps, PostArgSteps, PostSteps
  <2>3. Fits("updated", job[r])
    BY <1>2, <1>3, <2>2, JobOf, StepSets DEF Fits, IInv, SaveSteps
  <2>4. c.row = TRUE
    BY DEF Filled
  <2>5. /\ new \in {NoRow} \cup Filled
        /\ d # {"*"} => (new.row <=> profile[u].row)
        /\ d = {"*"} => new = c
    <3>1. CASE d = {"*"}
      BY <3>1
    <3>2. CASE d # {"*"} /\ ~ profile[u].row
      <4>1. "row" \notin d
        BY <1>5, <3>2 DEF ProfileColumns
      <4>2. profile[u] = NoRow
        BY <3>2, RowOf DEF IInv
      <4>3. new = NoRow
        BY <3>2, <4>1, <4>2, OverlayNothing
      <4>4. QED
        BY <3>2, <4>2, <4>3
    <3>3. CASE d # {"*"} /\ profile[u].row
      <4>1. new \in Filled
        BY <3>3, RowOf, OverlayProfile DEF IInv
      <4>2. QED
        BY <3>3, <4>1, RowKinds
    <3>4. QED
      BY <3>1, <3>2, <3>3, RowOf DEF IInv
  <2>6. mishaps[u] \subseteq mishaps'[u]
    BY <1>3, <1>7, NoteOthers DEF SetProfile, IInv, Mishaps
  <2>7. "crossed" \notin mishaps'[u] => new = c
    <3>1. SUFFICES ASSUME "crossed" \notin mishaps'[u], d # {"*"} PROVE new = c
      BY <2>5
    <3>2. d = Differing(c, profile[u])
      BY <1>1, <1>3, <1>4, <2>6, <3>1 DEF IInv, Sound, Told, Tells, d
    <3>3. profile[u] \in Filled
      BY <3>1, <3>2, RowOf, DifferingNone DEF IInv
    <3>4. QED
      BY <3>1, <3>2, <3>3, DifferingProfile
  <2>8. "stale" \notin mishaps'[u] => profile[u].row \/ ~ base[u].row
    BY <1>1, <1>3, <2>6 DEF IInv, Sound, Marked, HasSeen
  <2>9. profile[u].row => base[u].row
    BY DEF IInv, Stored
  <2> HIDE DEF new
  <2>10. new.row => base[u].row
    BY <1>7, <2>5, <2>9
  <2>11. profile[u].row => new.row
    BY <1>7, <2>5
  <2>12. "stale" \notin mishaps'[u] /\ new.row => profile[u].row
    BY <2>8, <2>10
  <2>13. QED
    BY <1>1, <1>3, <1>4, <1>7, <2>1, <2>3, <2>5, <2>7, <2>10, <2>11, <2>12, SetProfileKeeps
<1>8. QED
  <2>1. base[u].row \in BOOLEAN /\ profile[u].row \in BOOLEAN
    BY RowOf DEF IInv
  <2>2. QED
    BY <1>3, <1>4, <1>6, <1>7, <2>1 DEF ProfileWrite, d

LEMMA DeleteCommitKeeps ==
    ASSUME IInv, NEW r \in Requests, DeleteCommit(r)
    PROVE  IInv'
<1>1. pc[r] = "deleteTx" /\ Goto(r, "deleted") /\ UNCHANGED <<role, author, access, announced>>
  BY DEF DeleteCommit
<1>2. /\ pc[r] \in Steps \ {"registerInsert"}
      /\ pc[r] \notin EmitSteps \cup PostSteps \cup SaveSteps
      /\ ~ Marks(pc[r], job[r])
      /\ "deleted" \in Steps \ {"registerInsert"} /\ "deleted" \in EmitSteps
      /\ "deleted" \notin NameSteps \cup FlagSteps \cup SaveSteps \cup HeldSteps \cup PostArgSteps
            \cup PostSteps
  BY <1>1 DEF Steps, ProfileSteps, NameSteps, HeldSteps, EmitSteps, PostSteps, Marks, FlagSteps,
              SaveSteps, PostArgSteps
<1>3. PICK u \in Users : u = job[r].user /\ u \in invited
  BY <1>2, OfSteps
<1>4. Await(r, "deleted", job[r])
  BY <1>1, GotoAwaits DEF IInv
<1>5. Fits("deleted", job[r])
  BY <1>2, <1>3, JobOf, StepSets DEF Fits, IInv
<1>6. /\ base' \in [Users -> {NoRow} \cup BaseRows] /\ base'[u] = NoRow
      /\ profile' \in [Users -> {NoRow} \cup Filled] /\ profile'[u] = NoRow
      /\ \A v \in Users \ {u} : base'[v] = base[v] /\ profile'[v] = profile[v]
      /\ live' = {p \in live : author[p] # u}
      /\ UNCHANGED <<role, author, invited, entered, announced>>
  BY <1>3, Types DEF DeleteCommit, IInv, access
<1>7. ~ NoRow.row
  BY Domains
<1> DEFINE what == (IF u \in Others(r, SaveSteps) THEN {"stale"} ELSE {})
                   \cup (IF u \in Others(r, ProfileSteps) THEN {"crossed"} ELSE {})
<1>8. mishaps' = [mishaps EXCEPT ![u] = @ \cup what]
  BY <1>3 DEF DeleteCommit
<1>9. what \in SUBSET Mishaps
  BY DEF Mishaps
<1>10. /\ "stale" \notin what =>
            \A q \in Requests \ {r} : ~ (job[q].user = u /\ pc[q] \in SaveSteps)
       /\ "crossed" \notin what =>
            \A q \in Requests \ {r} : ~ (job[q].user = u /\ pc[q] \in ProfileSteps)
  BY DEF Others
<1> HIDE DEF what
<1>11. /\ mishaps' \in [Users -> SUBSET Mishaps]
       /\ \A v \in Users : mishaps[v] \subseteq mishaps'[v]
       /\ what \subseteq mishaps'[u]
  BY <1>8, <1>9, Types DEF IInv
<1>12. Typed'
  BY <1>4, <1>5, <1>6, <1>11, StepTyped, Types DEF IInv
<1>13. Known'
  BY <1>3, <1>4, <1>6, <1>7, StepKnown DEF IInv
<1>14. Stored'
  BY <1>6, <1>7 DEF IInv, Stored
<1>15. Fresh'
  BY <1>4, <1>5, <1>6, StepFresh DEF IInv
<1>16. ASSUME NEW v \in Users PROVE Sound(v)'
  <2>1. CASE v # u
    <3>1. PostsOf(v)' = PostsOf(v)
      BY <1>6, <2>1 DEF PostsOf
    <3>2. QED
      BY <1>3, <1>4, <1>6, <1>11, <2>1, <3>1, OtherSound DEF IInv
  <2>2. Saved(u)'
    <3>1. "stale" \notin mishaps'[u] =>
            \A q \in Requests \ {r} : Saves(pc[q], job[q], u, base'[u])
      BY <1>10, <1>11 DEF Saves
    <3>2. Saves("deleted", job[r], u, base'[u])
      BY <1>2 DEF Saves
    <3>3. QED
      BY <1>4, <1>11, <3>1, <3>2, StepSaved DEF IInv, Sound
  <2>3. Marked(u)'
    <3>1. \A step, args : HasSeen(step, args, u, base'[u], profile'[u])
      BY <1>6, <1>7 DEF HasSeen
    <3>2. QED
      BY <1>4, <1>6, <1>7, <1>11, <3>1, StepMarked DEF IInv, Sound
  <2>4. ToBeMarked(u)'
    BY <1>6, <1>7 DEF ToBeMarked
  <2>5. Told(u)'
    <3>1. ASSUME "crossed" \notin mishaps'[u]
          PROVE  /\ \A q \in Requests \ {r} : Tells(pc[q], job[q], u, profile'[u])
                 /\ Tells("deleted", job[r], u, profile'[u])
      BY <1>6, <1>10, <1>11, <3>1 DEF Tells, ProfileSteps
    <3>2. QED
      BY <1>2, <1>3, <1>4, <1>6, <1>11, <3>1, StepTold DEF IInv, Sound
  <2>6. Counted(u)'
    BY <1>6, <1>7 DEF Counted
  <2>7. QED
    BY <2>1, <2>2, <2>3, <2>4, <2>5, <2>6 DEF Sound
<1>17. QED
  BY <1>12, <1>13, <1>14, <1>15, <1>16 DEF IInv

-----------------------------------------------------------------------------
(* Steps that announce a profile, or its end.                                *)

LEMMA AnnounceKeeps ==
    ASSUME IInv, NEW r \in Requests, pc[r] \in EmitSteps,
           NEW u \in Users, u = job[r].user, NEW new \in {NoRow} \cup Filled,
           NEW step \in {"baseFind", "done"}, NEW args,
           Await(r, step, args), Fits(step, args),
           announced' = [announced EXCEPT ![u] = new],
           UNCHANGED <<role, base, profile, postRows, access, mishaps>>,
           step = "baseFind" => args.user = u /\ args.arg = "complete",
           step = "done" => args.user = None /\ pc[r] # "completeFind",
           "crossed" \notin mishaps[u] =>
               new = profile[u] \/ (~ profile[u].row /\ role[u] # "USER"),
           step = "baseFind" => pc[r] = "completeFind"
    PROVE  IInv'
<1>1. /\ UNCHANGED <<role, base, profile, author, live, invited, entered, mishaps>>
      /\ announced' \in [Users -> {NoRow} \cup Filled] /\ announced'[u] = new
      /\ \A v \in Users \ {u} : announced'[v] = announced[v]
  BY Types DEF IInv, postRows, access
<1>2. /\ pc[r] \in Steps \ {"registerInsert"} /\ pc[r] \notin PostSteps \cup SaveSteps \cup FlagSteps
      /\ step \notin SaveSteps \cup PostSteps \cup EmitSteps \cup HeldSteps
      /\ step # "postInsert" /\ step # "postRemove"
      /\ (step \in FlagSteps <=> step = "baseFind")
      /\ step = "done" => step \notin Steps
  BY StepSets DEF EmitSteps, PostSteps, SaveSteps, HeldSteps, FlagSteps, Outcomes
<1>3. u \in invited
  BY <1>2, OfSteps
<1>4. Marks(step, args) <=> step = "baseFind"
  BY <1>2 DEF Marks, HeldSteps
<1>5. Marks(pc[r], job[r]) <=> pc[r] = "completeFind"
  BY <1>2 DEF Marks
<1>6. Typed'
  BY <1>1, StepTyped, Types DEF IInv
<1>7. Known'
  BY <1>1, <1>2, <1>3, StepKnown DEF IInv
<1>8. Stored'
  BY <1>1 DEF IInv, Stored
<1>9. Fresh'
  BY <1>1, <1>2, StepFresh DEF IInv
<1>10. ASSUME NEW v \in Users PROVE Sound(v)'
  <2>0. PostsOf(v)' = PostsOf(v)
    BY <1>1 DEF PostsOf
  <2>1. CASE v # u
    BY <1>1, <1>2, <2>0, <2>1, OtherSound DEF IInv
  <2>2. Saved(u)'
    <3>1. Saves(step, args, u, base[u])
      BY <1>2 DEF Saves
    <3>2. QED
      BY <1>1, <3>1, StepSaved DEF IInv, Sound
  <2>3. Marked(u)'
    <3>1. "stale" \notin mishaps[u] => HasSeen(pc[r], job[r], u, base[u], profile[u])
      BY DEF IInv, Sound, Marked
    <3>2. "stale" \notin mishaps[u] => HasSeen(step, args, u, base[u], profile[u])
      BY <1>2, <1>4, <1>5, <3>1 DEF HasSeen, HeldSteps
    <3>3. QED
      BY <1>1, <3>2, StepMarked DEF IInv, Sound, Marked
  <2>4. ToBeMarked(u)'
    BY <1>1, <1>4, <1>5, StepToBeMarked DEF IInv, Sound
  <2>5. Told(u)'
    <3>1. Tells(step, args, u, profile[u])
      BY DEF Tells
    <3>2. QED
      BY <1>1, <3>1, StepTold DEF IInv, Sound, Told
  <2>6. Counted(u)'
    <3>1. PostsOf(u)' = PostsOf(u)
      BY <1>1 DEF PostsOf
    <3>2. QED
      BY <1>1, <1>2, <3>1, StepCounted DEF IInv, Sound
  <2>7. QED
    BY <2>1, <2>2, <2>3, <2>4, <2>5, <2>6 DEF Sound
<1>11. QED
  BY <1>6, <1>7, <1>8, <1>9, <1>10 DEF IInv

(* A request that finds the account gone was crossed by its deletion         *)
LEMMA GoneKeeps ==
    ASSUME IInv, NEW r \in Requests, pc[r] \in {"completeFind", "updated"},
           NEW u \in Users, u = job[r].user, ~ base[u].row, Finish(r, "rejected"),
           UNCHANGED <<role, base, profile, postRows, access, announced, mishaps>>
    PROVE  IInv'
<1>1. /\ pc[r] \in EmitSteps /\ pc[r] \in HeldSteps /\ pc[r] \notin PostSteps
      /\ pc[r] \notin FlagSteps
  BY DEF EmitSteps, HeldSteps, PostSteps, FlagSteps, SaveSteps
<1>2. ~ profile[u].row
  BY DEF IInv, Stored
<1>3. job[r].copy.row
  BY <1>1, JobOf, Domains DEF IInv, Fits
<1>4. "crossed" \in mishaps[u]
  BY <1>2, <1>3 DEF IInv, Sound, Told, Tells
<1>5. QED
  BY <1>1, <1>2, <1>4, QuietEnd DEF Outcomes

LEMMA CompleteFindKeeps ==
    ASSUME IInv, NEW r \in Requests, CompleteFind(r)
    PROVE  IInv'
<1>1. /\ pc[r] = "completeFind" /\ UNCHANGED <<role, base, profile, postRows, access, mishaps>>
  BY DEF CompleteFind
<1>2. pc[r] \in Steps /\ pc[r] \in EmitSteps /\ pc[r] \in HeldSteps
  BY <1>1 DEF Steps, CompleteSteps, EmitSteps, HeldSteps
<1>3. PICK u \in Users : u = job[r].user
  BY <1>2, OfSteps
<1>4. PICK c \in Filled : c = job[r].copy
  BY <1>2, JobOf DEF IInv, Fits
<1> DEFINE args == Job(u, "complete", NoRow, {})
<1>5. args \in Jobs /\ args.user = u /\ args.arg = "complete"
  BY DEF args, Job, Jobs, Flags
<1> HIDE DEF args
<1>6. Fits("baseFind", args)
  <2>1. /\ "baseFind" \in Steps /\ "complete" \in Flags
        /\ "baseFind" \notin NameSteps \cup SaveSteps \cup HeldSteps \cup PostArgSteps
    BY DEF Steps, Flags, NameSteps, SaveSteps, HeldSteps, PostArgSteps, PostSteps
  <2>2. QED
    BY <1>5, <2>1, StepSets DEF Fits, SaveSteps, HeldSteps
<1>7. CASE announced' = [announced EXCEPT ![u] = c] /\ Await(r, "baseFind", args)
  <2>1. "crossed" \notin mishaps[u] => c = profile[u]
    BY <1>1, <1>3, <1>4 DEF IInv, Sound, Told, Tells
  <2>2. QED
    BY <1>1, <1>2, <1>3, <1>5, <1>6, <1>7, <2>1, AnnounceKeeps
<1>8. CASE ~ base[u].row /\ Finish(r, "rejected") /\ UNCHANGED announced
  BY <1>1, <1>3, <1>8, GoneKeeps
<1>9. QED
  BY <1>3, <1>4, <1>7, <1>8 DEF CompleteFind, args

LEMMA DoneFits == Fits("done", NoJob) /\ NoJob.user = None
BY NoJobFits DEF Outcomes

LEMMA EmitUpdatedKeeps ==
    ASSUME IInv, NEW r \in Requests, EmitUpdated(r)
    PROVE  IInv'
<1>1. /\ pc[r] = "updated" /\ UNCHANGED <<role, base, profile, postRows, access, mishaps>>
  BY DEF EmitUpdated
<1>2. pc[r] \in Steps /\ pc[r] \in EmitSteps /\ pc[r] \in HeldSteps
  BY <1>1 DEF Steps, ProfileSteps, EmitSteps, HeldSteps
<1>3. PICK u \in Users : u = job[r].user
  BY <1>2, OfSteps
<1>4. PICK c \in Filled : c = job[r].copy
  BY <1>2, JobOf DEF IInv, Fits
<1>5. CASE announced' = [announced EXCEPT ![u] = c] /\ Finish(r, "done")
  <2>1. "crossed" \notin mishaps[u] => c = profile[u]
    BY <1>1, <1>3, <1>4 DEF IInv, Sound, Told, Tells
  <2>2. Await(r, "done", NoJob)
    BY <1>5 DEF Finish
  <2>3. QED
    BY <1>1, <1>2, <1>3, <1>5, <2>1, <2>2, DoneFits, AnnounceKeeps
<1>6. CASE ~ base[u].row /\ Finish(r, "rejected") /\ UNCHANGED announced
  BY <1>1, <1>3, <1>6, GoneKeeps
<1>7. QED
  BY <1>3, <1>4, <1>5, <1>6 DEF EmitUpdated

LEMMA EmitDeletedKeeps ==
    ASSUME IInv, NEW r \in Requests, EmitDeleted(r)
    PROVE  IInv'
<1>1. /\ pc[r] = "deleted" /\ UNCHANGED <<role, base, profile, postRows, access, mishaps>>
      /\ Await(r, "done", NoJob)
  BY DEF EmitDeleted, Finish
<1>2. pc[r] \in Steps /\ pc[r] \in EmitSteps
  BY <1>1 DEF Steps, ProfileSteps, EmitSteps
<1>3. PICK u \in Users : u = job[r].user
  BY <1>2, OfSteps
<1>4. PICK new \in {NoRow} \cup Filled : new = IF role[u] = "USER" THEN NoRow ELSE announced[u]
  BY Types DEF IInv
<1>5. announced' = [announced EXCEPT ![u] = new]
  BY <1>3, <1>4 DEF EmitDeleted
<1>6. "crossed" \notin mishaps[u] => profile[u] = NoRow
  BY <1>1, <1>3 DEF IInv, Sound, Told, Tells
<1>7. "crossed" \notin mishaps[u] =>
         new = profile[u] \/ (~ profile[u].row /\ role[u] # "USER")
  BY <1>4, <1>6, Domains
<1>8. QED
  BY <1>1, <1>2, <1>3, <1>5, <1>7, DoneFits, AnnounceKeeps

-----------------------------------------------------------------------------
(* Steps that write a post.                                                  *)

(* A post comes or goes, and its author's count is owed a step               *)
LEMMA PostKeeps ==
    ASSUME IInv, NEW r \in Requests, pc[r] \in {"postInsert", "postRemove"},
           NEW u \in Users, u = job[r].user, NEW step \in PostSteps, Await(r, step, job[r]),
           UNCHANGED <<role, base, profile, access, announced>>,
           author' \in [Posts -> Users \cup {None}], live' \in SUBSET Posts,
           mishaps' \in [Users -> SUBSET Mishaps],
           \A v \in Users : mishaps[v] \subseteq mishaps'[v],
           \A v \in Users \ {u} : PostsOf(v)' = PostsOf(v),
           "miscounted" \notin mishaps'[u] =>
               Cardinality(PostsOf(u)') = IF step = "countUp" THEN Cardinality(PostsOf(u)) + 1
                                          ELSE Cardinality(PostsOf(u)) - 1,
           \A p \in Posts : author'[p] = author[p]
                              \/ (pc[r] = "postInsert" /\ p = job[r].arg /\ author'[p] = u),
           \A p \in live' : p \in live \/ author'[p] # None
    PROVE  IInv'
<1>1. UNCHANGED <<role, base, profile, invited, entered, announced>>
  BY DEF access
<1>2. /\ pc[r] \in Steps \ {"registerInsert"} /\ pc[r] \in PostArgSteps
      /\ pc[r] \notin EmitSteps \cup PostSteps /\ ~ Marks(pc[r], job[r])
      /\ step \in Steps /\ step \in PostArgSteps
      /\ step \notin FlagSteps \cup SaveSteps \cup NameSteps \cup HeldSteps \cup EmitSteps
      /\ step # "postInsert" /\ step # "postRemove"
  BY DEF Steps, PostArgSteps, EmitSteps, PostSteps, Marks, FlagSteps, SaveSteps, NameSteps, HeldSteps
<1>3. u \in invited
  BY <1>2, OfSteps
<1>4. Fits(step, job[r])
  BY <1>2, JobOf, StepSets DEF Fits, IInv, SaveSteps, HeldSteps
<1>5. Typed'
  BY <1>1, <1>4, StepTyped, Types DEF IInv
<1>6. Known'
  <2>1. \A p \in Posts : author'[p] = author[p] \/ author'[p] \in invited'
    BY <1>1, <1>3
  <2>2. \A p \in live : author'[p] = author[p] \/ author'[p] # None
    BY Types, NoneDiffers DEF IInv
  <2>3. QED
    BY <1>1, <1>3, <2>1, <2>2, StepKnown DEF IInv
<1>7. Stored'
  BY <1>1 DEF IInv, Stored
<1>8. Fresh'
  BY <1>2, <1>4, StepFresh DEF IInv
<1>9. ASSUME NEW v \in Users PROVE Sound(v)'
  <2>1. CASE v # u
    BY <1>1, <2>1, OtherSound DEF IInv
  <2>2. Saved(u)'
    <3>1. Saves(step, job[r], u, base[u])
      BY <1>2 DEF Saves
    <3>2. QED
      BY <1>1, <3>1, StepSaved DEF IInv, Sound
  <2>3. Marked(u)'
    <3>1. HasSeen(step, job[r], u, base[u], profile[u])
      BY <1>2 DEF HasSeen, Marks, HeldSteps
    <3>2. QED
      BY <1>1, <3>1, StepMarked DEF IInv, Sound, Marked
  <2>4. ToBeMarked(u)'
    BY <1>1, <1>2, StepToBeMarked DEF IInv, Sound
  <2>5. Told(u)'
    <3>1. Tells(step, job[r], u, profile[u])
      BY <1>2 DEF Tells, HeldSteps, EmitSteps
    <3>2. QED
      BY <1>1, <1>2, <3>1, StepTold DEF IInv, Sound
  <2>6. Counted(u)'
    <3> SUFFICES ASSUME base[u].row, mishaps'[u] \cap {"miscounted", "stale"} = {}
                 PROVE  base[u].posts + Cardinality(Owing("countUp", u)') =
                          Cardinality(PostsOf(u)') + Cardinality(Owing("countDown", u)')
      BY <1>1 DEF Counted
    <3>1. base[u].posts + Cardinality(Owing("countUp", u)) =
            Cardinality(PostsOf(u)) + Cardinality(Owing("countDown", u))
      BY DEF IInv, Sound, Counted
    <3>2. /\ Cardinality(Owing("countUp", u)) \in Nat
          /\ Cardinality(Owing("countDown", u)) \in Nat
          /\ Cardinality(PostsOf(u)) \in Nat /\ base[u].posts \in Int
      BY OwingFinite, PostsFinite, RowOf DEF IInv
    <3>3. pc[r] # "countUp" /\ pc[r] # "countDown"
      OBVIOUS
    <3>4. CASE step = "countUp"
      <4>1. Cardinality(Owing("countUp", u)') = Cardinality(Owing("countUp", u)) + 1
        BY <3>3, <3>4, OwingGrows DEF IInv
      <4>2. Owing("countDown", u)' = Owing("countDown", u)
        BY <3>3, <3>4, OwingSame DEF IInv
      <4>3. Cardinality(PostsOf(u)') = Cardinality(PostsOf(u)) + 1
        BY <3>4
      <4>4. QED
        BY <3>1, <3>2, <4>1, <4>2, <4>3
    <3>5. CASE step = "countDown"
      <4>1. Cardinality(Owing("countDown", u)') = Cardinality(Owing("countDown", u)) + 1
        BY <3>3, <3>5, OwingGrows DEF IInv
      <4>2. Owing("countUp", u)' = Owing("countUp", u)
        BY <3>3, <3>5, OwingSame DEF IInv
      <4>3. Cardinality(PostsOf(u)') = Cardinality(PostsOf(u)) - 1
        BY <3>5
      <4>4. QED
        BY <3>1, <3>2, <4>1, <4>2, <4>3
    <3>6. QED
      BY <3>4, <3>5 DEF PostSteps
  <2>7. QED
    BY <2>1, <2>2, <2>3, <2>4, <2>5, <2>6 DEF Sound
<1>10. QED
  BY <1>5, <1>6, <1>7, <1>8, <1>9 DEF IInv

LEMMA PostInsertKeeps ==
    ASSUME IInv, NEW r \in Requests, PostInsert(r)
    PROVE  IInv'
<1>1. /\ pc[r] = "postInsert"
      /\ UNCHANGED <<role, base, profile, access, announced, mishaps>>
  BY DEF PostInsert
<1>2. /\ pc[r] \in Steps /\ pc[r] \in PostArgSteps
      /\ pc[r] \notin EmitSteps \cup PostSteps /\ ~ Marks(pc[r], job[r])
  BY <1>1 DEF Steps, PostArgSteps, EmitSteps, PostSteps, Marks, FlagSteps, SaveSteps
<1>3. PICK u \in Users : u = job[r].user
  BY <1>2, OfSteps
<1>4. PICK p \in Posts : p = job[r].arg
  BY <1>2, JobOf DEF IInv, Fits
<1>5. author[p] = None /\ p \notin live
  BY <1>1, <1>4 DEF IInv, Fresh, Known
<1>6. CASE Finish(r, "failed") /\ UNCHANGED postRows
  BY <1>1, <1>2, <1>6, QuietEnd DEF Outcomes
<1>7. CASE author' = [author EXCEPT ![p] = u] /\ live' = live \cup {p} /\ Goto(r, "countUp")
  <2>1. Await(r, "countUp", job[r])
    BY <1>7, GotoAwaits DEF IInv
  <2>2. /\ author' \in [Posts -> Users \cup {None}] /\ live' \in SUBSET Posts /\ author'[p] = u
        /\ \A q \in Posts \ {p} : author'[q] = author[q]
    BY <1>7, Types DEF IInv
  <2>3. live \subseteq Posts
    BY Types DEF IInv
  <2>4. ASSUME NEW v \in Users \ {u} PROVE PostsOf(v)' = PostsOf(v)
    BY <1>5, <1>7, <2>2, <2>3 DEF PostsOf
  <2>5. PostsOf(u)' = PostsOf(u) \cup {p} /\ p \notin PostsOf(u)
    BY <1>5, <1>7, <2>2, <2>3, NoneDiffers DEF PostsOf
  <2>6. Cardinality(PostsOf(u) \cup {p}) = Cardinality(PostsOf(u)) + 1
    BY <2>5, PostsFinite, FS_AddElement DEF IInv
  <2>7. Cardinality(PostsOf(u)') = Cardinality(PostsOf(u)) + 1
    BY <2>5, <2>6
  <2>8. /\ mishaps' \in [Users -> SUBSET Mishaps]
        /\ \A v \in Users : mishaps[v] \subseteq mishaps'[v]
    BY <1>1, Types DEF IInv
  <2>9. \A q \in Posts : author'[q] = author[q]
                           \/ (pc[r] = "postInsert" /\ q = job[r].arg /\ author'[q] = u)
    BY <1>1, <1>4, <2>2
  <2>10. \A q \in live' : q \in live \/ author'[q] # None
    BY <1>7, <2>2, NoneDiffers
  <2>11. "countUp" \in PostSteps
    BY DEF PostSteps
  <2>12. QED
    BY <1>1, <1>3, <2>1, <2>2, <2>4, <2>7, <2>8, <2>9, <2>10, <2>11, PostKeeps
<1>8. QED
  BY <1>3, <1>4, <1>6, <1>7 DEF PostInsert

LEMMA PostRemoveKeeps ==
    ASSUME IInv, NEW r \in Requests, PostRemove(r)
    PROVE  IInv'
<1>1. /\ pc[r] = "postRemove" /\ Goto(r, "countDown")
      /\ UNCHANGED <<role, base, profile, author, access, announced>>
  BY DEF PostRemove
<1>2. pc[r] \in Steps /\ pc[r] \in PostArgSteps
  BY <1>1 DEF Steps, PostArgSteps
<1>3. PICK u \in Users : u = job[r].user
  BY <1>2, OfSteps
<1>4. PICK p \in Posts : p = job[r].arg
  BY <1>2, JobOf DEF IInv, Fits
<1>5. author[p] = u
  BY <1>1, <1>3, <1>4 DEF IInv, Fresh
<1>6. live' = live \ {p} /\ Note({v \in Users : v = u /\ p \notin live}, {"miscounted"})
  BY <1>3, <1>4 DEF PostRemove
<1>7. /\ mishaps' \in [Users -> SUBSET Mishaps]
      /\ \A v \in Users : mishaps[v] \subseteq mishaps'[v]
      /\ p \notin live => "miscounted" \in mishaps'[u]
  BY <1>6, NoteFacts DEF IInv, Mishaps
<1>8. Await(r, "countDown", job[r])
  BY <1>1, GotoAwaits DEF IInv
<1>9. author' \in [Posts -> Users \cup {None}] /\ live' \in SUBSET Posts
  BY <1>1, <1>6, Types DEF IInv
<1>10. \A v \in Users \ {u} : PostsOf(v)' = PostsOf(v)
  BY <1>1, <1>5, <1>6 DEF PostsOf
<1>11. "miscounted" \notin mishaps'[u] => Cardinality(PostsOf(u)') = Cardinality(PostsOf(u)) - 1
  <2>1. PostsOf(u)' = PostsOf(u) \ {p}
    BY <1>1, <1>6 DEF PostsOf
  <2>2. p \in live => p \in PostsOf(u)
    BY <1>5 DEF PostsOf
  <2>3. p \in live => Cardinality(PostsOf(u) \ {p}) = Cardinality(PostsOf(u)) - 1
    BY <2>2, PostsFinite, FS_RemoveElement DEF IInv
  <2>4. QED
    BY <1>7, <2>1, <2>3
<1>12. "countDown" \in PostSteps /\ "countDown" # "countUp"
  BY DEF PostSteps
<1>13. QED
  BY <1>1, <1>3, <1>6, <1>7, <1>8, <1>9, <1>10, <1>11, <1>12, PostKeeps

(* Nothing but the set of those who hold a token changes                     *)
LEMMA Unmoved ==
    ASSUME IInv,
           UNCHANGED <<role, base, profile, author, live, invited, announced, pc, job, mishaps>>,
           entered' \in SUBSET invited
    PROVE  IInv'
<1>1. Typed'
  BY DEF IInv, Typed, TypeOK
<1>2. Known' /\ Stored' /\ Fresh'
  BY DEF IInv, Known, Stored, Fresh
<1>3. ASSUME NEW u \in Users PROVE Sound(u)'
  <2>1. Saved(u)' /\ Marked(u)'
    BY DEF IInv, Sound, Saved, Marked
  <2>2. ToBeMarked(u)'
    BY DEF IInv, Sound, ToBeMarked
  <2>3. InFlight(u, EmitSteps)' = InFlight(u, EmitSteps)
    BY DEF InFlight
  <2>4. Told(u)'
    BY <2>3 DEF IInv, Sound, Told
  <2>5. /\ PostsOf(u)' = PostsOf(u)
        /\ Owing("countUp", u)' = Owing("countUp", u)
        /\ Owing("countDown", u)' = Owing("countDown", u)
    BY DEF PostsOf, Owing
  <2>6. Counted(u)'
    BY <2>5 DEF IInv, Sound, Counted
  <2>7. QED
    BY <2>1, <2>2, <2>4, <2>6 DEF Sound
<1>4. QED
  BY <1>1, <1>2, <1>3 DEF IInv

LEMMA LoginKeeps ==
    ASSUME IInv, NEW u \in Users, Login(u)
    PROVE  IInv'
<1>1. /\ UNCHANGED <<role, base, profile, author, live, invited, announced, pc, job, mishaps>>
      /\ entered' = entered \cup {u} /\ u \in invited
  BY Holders DEF Login, postRows
<1>2. QED
  BY <1>1, Unmoved, Holders

-----------------------------------------------------------------------------
(* The inductive invariant.                                                  *)

LEMMA InitHolds == Init => IInv
<1> SUFFICES ASSUME Init PROVE IInv
  OBVIOUS
<1>1. /\ "idle" \in Control /\ "idle" \notin Steps /\ "idle" \notin HeldSteps \cup FlagSteps
            \cup NameSteps \cup SaveSteps \cup PostArgSteps \cup EmitSteps \cup PostSteps
      /\ "idle" \notin {"registerInsert", "postInsert", "postRemove", "baseWrite", "profileWrite",
            "updateCheck", "profileReload", "completeFind", "updated", "deleted"}
  BY StepSets DEF Control, SaveSteps
<1>2. \A r \in Requests : pc[r] = "idle" /\ job[r] = NoJob
  BY DEF Init
<1>3. NoJob \in Jobs
  BY NoJobFits DEF Fits, Outcomes
<1>4. /\ BaseRow(FALSE, FALSE, 0) \in BaseRows /\ BaseRow(FALSE, FALSE, 0).posts = 0
      /\ BaseRow(TRUE, FALSE, 0) \in BaseRows /\ BaseRow(TRUE, FALSE, 0).posts = 0
      /\ BaseRow(TRUE, TRUE, 0) \in BaseRows /\ BaseRow(TRUE, TRUE, 0).posts = 0
  BY DEF BaseRow, BaseRows
<1>5. base \in [Users -> {NoRow} \cup BaseRows]
  BY <1>4 DEF Init
<1>6. profile \in [Users -> {NoRow} \cup Filled]
  <2>1. \A n \in Usernames : ProfileRow(n, FALSE) \in Filled
    BY DEF ProfileRow, Filled
  <2>2. {NoRow} \cup {ProfileRow(n, FALSE) : n \in Usernames} \subseteq {NoRow} \cup Filled
    BY <2>1
  <2>3. profile \in [Users -> {NoRow} \cup {ProfileRow(n, FALSE) : n \in Usernames}]
    BY DEF Init
  <2>4. QED
    BY <2>2, <2>3
<1>7. \A u \in Users : base[u].row => base[u].posts = 0
  BY <1>4, Domains DEF Init
<1>8. \A u \in Users : profile[u].row <=> base[u].row /\ base[u].complete
  BY DEF Init
<1>9. /\ role \in [Users -> {"USER", "BRAND"}] /\ author = [p \in Posts |-> None] /\ live = {}
      /\ invited = {u \in Users : base[u].row} /\ entered \subseteq invited
      /\ announced = profile
      /\ mishaps = [u \in Users |-> {}]
      /\ pc = [r \in Requests |-> "idle"] /\ job = [r \in Requests |-> NoJob]
  BY DEF Init
<1>10. TypeOK
  <2>1. \A u \in Users : base[u] = NoRow \/ base[u] \in BaseRows
    BY <1>5
  <2>2. profile \in [Users -> Rows]
    BY <1>6, RowsAre
  <2>3. pc \in [Requests -> Control] /\ \A r \in Requests : job[r].user \in Users \cup {None}
    BY <1>1, <1>3, <1>9 DEF Jobs
  <2>4. mishaps \in [Users -> SUBSET Mishaps] /\ author \in [Posts -> Users \cup {None}]
    BY <1>9
  <2>5. QED
    BY <1>9, <2>1, <2>2, <2>3, <2>4 DEF TypeOK, BaseRows, Control
<1>11. Typed
  <2>1. Fits("idle", NoJob)
    BY <1>1, <1>3 DEF Fits
  <2>2. QED
    BY <1>2, <1>3, <1>5, <1>9, <1>10, <2>1 DEF Typed
<1>12. Known
  BY <1>1, <1>2, <1>9 DEF Known
<1>13. Stored
  BY <1>8 DEF Stored
<1>14. Fresh
  BY <1>1, <1>2 DEF Fresh
<1>15. ASSUME NEW u \in Users PROVE Sound(u)
  <2>1. Saved(u)
    BY <1>1, <1>2 DEF Saved, Saves
  <2>2. \A r \in Requests : ~ Marks(pc[r], job[r])
    BY <1>1, <1>2 DEF Marks
  <2>3. Marked(u)
    BY <1>1, <1>2, <1>8, <2>2 DEF Marked, HasSeen
  <2>4. ToBeMarked(u)
    BY <1>8 DEF ToBeMarked
  <2>5. Told(u)
    BY <1>1, <1>2, <1>9 DEF Told, Tells
  <2>6. Counted(u)
    <3>1. Owing("countUp", u) = {} /\ Owing("countDown", u) = {}
      BY <1>1, <1>2 DEF Owing, PostSteps
    <3>2. PostsOf(u) = {}
      BY <1>9 DEF PostsOf
    <3>3. QED
      BY <1>7, <3>1, <3>2, FS_EmptySet DEF Counted
  <2>7. QED
    BY <2>1, <2>3, <2>4, <2>5, <2>6 DEF Sound
<1>16. QED
  BY <1>11, <1>12, <1>13, <1>14, <1>15 DEF IInv

LEMMA StepHolds ==
    ASSUME IInv, [Next]_vars
    PROVE  IInv'
<1>1. ASSUME NEW r \in Requests, Arrive(r) PROVE IInv'
  <2>1. ASSUME NEW u \in Users,
               \/ Register(r, u) \/ VerifyEmail(r, u) \/ ResetPassword(r, u)
               \/ \E n \in Usernames : CompleteProfile(r, u, n) \/ UpdateProfile(r, u, n)
               \/ UpdateProfileImage(r, u) \/ DeleteAccount(r, u)
        PROVE  IInv'
    BY <2>1, ArriveKeeps
  <2>2. ASSUME NEW u \in Users, NEW p \in Posts, CreatePost(r, u, p) PROVE IInv'
    BY <2>2, CreatePostKeeps
  <2>3. ASSUME NEW p \in Posts, DeletePost(r, p) PROVE IInv'
    BY <2>3, DeletePostKeeps
  <2>4. QED
    BY <1>1, <2>1, <2>2, <2>3 DEF Arrive
<1>2. ASSUME NEW r \in Requests, Continue(r) PROVE IInv'
  <2>1. CASE RegisterInsert(r)
    BY <2>1, RegisterInsertKeeps
  <2>2. CASE BaseFind(r)
    BY <2>2, BaseFindKeeps
  <2>3. CASE BaseReload(r)
    BY <2>3, BaseReloadKeeps
  <2>4. CASE BaseWrite(r)
    BY <2>4, BaseWriteKeeps
  <2>5. CASE CompleteInsert(r)
    BY <2>5, CompleteInsertKeeps
  <2>6. CASE CompleteFind(r)
    BY <2>6, CompleteFindKeeps
  <2>7. CASE UpdateFind(r)
    BY <2>7, UpdateFindKeeps
  <2>8. CASE UpdateCheck(r)
    BY <2>8, UpdateCheckKeeps
  <2>9. CASE ImageFind(r)
    BY <2>9, ImageFindKeeps
  <2>10. CASE ProfileReload(r)
    BY <2>10, ProfileReloadKeeps
  <2>11. CASE ProfileWrite(r)
    BY <2>11, ProfileWriteKeeps
  <2>12. CASE EmitUpdated(r)
    BY <2>12, EmitUpdatedKeeps
  <2>13. CASE DeleteFind(r)
    BY <2>13, DeleteFindKeeps
  <2>14. CASE DeleteCommit(r)
    BY <2>14, DeleteCommitKeeps
  <2>15. CASE EmitDeleted(r)
    BY <2>15, EmitDeletedKeeps
  <2>16. CASE PostInsert(r)
    BY <2>16, PostInsertKeeps
  <2>17. CASE PostRemove(r)
    BY <2>17, PostRemoveKeeps
  <2>18. CASE CountPost(r)
    BY <2>18, CountPostKeeps
  <2>19. CASE RequestFails(r)
    BY <2>19, FailsKeeps
  <2>20. QED
    BY <1>2, <2>1, <2>2, <2>3, <2>4, <2>5, <2>6, <2>7, <2>8, <2>9, <2>10, <2>11, <2>12, <2>13,
       <2>14, <2>15, <2>16, <2>17, <2>18, <2>19 DEF Continue
<1>3. ASSUME NEW u \in Users, Login(u) PROVE IInv'
  BY <1>3, LoginKeeps
<1>4. CASE UNCHANGED vars
  <2>1. UNCHANGED <<role, base, profile, author, live, invited, entered, announced, pc, job, mishaps>>
    BY <1>4 DEF vars, postRows, access
  <2>2. QED
    BY <2>1, Unmoved, Types DEF IInv
<1>5. QED
  BY <1>1, <1>2, <1>3, <1>4 DEF Next

LEMMA InvariantHolds == Spec => []IInv
BY InitHolds, StepHolds, PTL DEF Spec

-----------------------------------------------------------------------------
(* Every variable of Accounts keeps its type, for any number of accounts,    *)
(* requests and posts: a row is a whole row, whatever copy was written back. *)
THEOREM TypesCorrect == Spec => []TypeOK
<1>1. IInv => TypeOK
  BY DEF IInv, Typed
<1>2. QED
  BY <1>1, InvariantHolds, PTL

(* An account is marked complete exactly when it has a profile, unless       *)
(* completeProfile was cut short or a save wrote an old copy back.           *)
THEOREM MarksMatch == Spec => []CompleteMatchesProfile
<1>1. IInv => CompleteMatchesProfile
  <2> SUFFICES ASSUME IInv, NEW u \in Users, ~ Completing(u),
                      mishaps[u] \cap {"unmarked", "stale"} = {}
               PROVE  (base[u].row /\ base[u].complete) <=> profile[u].row
    BY DEF CompleteMatchesProfile
  <2>1. base[u].row /\ base[u].complete => profile[u].row
    BY DEF IInv, Sound, Marked
  <2>2. ASSUME profile[u].row PROVE base[u].row /\ base[u].complete
    <3>1. base[u].row
      BY <2>2 DEF IInv, Stored
    <3>2. ASSUME NEW r \in Requests, job[r].user = u, Marks(pc[r], job[r]) PROVE FALSE
      BY <3>2 DEF Completing, InFlight, Marks, CompleteSteps
    <3>3. base[u].complete
      BY <2>2, <3>2 DEF IInv, Sound, ToBeMarked
    <3>4. QED
      BY <3>1, <3>3
  <2>3. QED
    BY <2>1, <2>2, RowOf DEF IInv
<1>2. QED
  BY <1>1, InvariantHolds, PTL

(* What was last announced of an account is its stored profile, or that it   *)
(* is gone, unless an event failed or two requests of the account crossed.   *)
THEOREM AnnouncementsMatch == Spec => []AnnouncedMatchesProfile
<1>1. IInv => AnnouncedMatchesProfile
  <2> SUFFICES ASSUME IInv, NEW u \in Users, ~ InFlight(u, ProfileSteps),
                      mishaps[u] \cap {"crossed", "unannounced"} = {},
                      profile[u].row \/ role[u] = "USER"
               PROVE  announced[u] = profile[u]
    BY DEF AnnouncedMatchesProfile
  <2>1. ~ InFlight(u, EmitSteps)
    BY DEF InFlight, EmitSteps, ProfileSteps
  <2>2. QED
    BY <2>1 DEF IInv, Sound, Told
<1>2. QED
  BY <1>1, InvariantHolds, PTL

(* Once every listener has run, postsCount is the number of the author's     *)
(* posts, unless a count failed, a post was deleted twice, or a save wrote   *)
(* an old count back.                                                        *)
THEOREM PostsCounted == Spec => []PostsCountExact
<1>1. IInv => PostsCountExact
  <2> SUFFICES ASSUME IInv, NEW u \in Users, base[u].row, ~ InFlight(u, PostSteps),
                      mishaps[u] \cap {"miscounted", "stale"} = {}
               PROVE  base[u].posts = Cardinality(PostsOf(u))
    BY DEF PostsCountExact, PostsOf
  <2>1. Owing("countUp", u) = {} /\ Owing("countDown", u) = {}
    BY DEF InFlight, Owing, PostSteps
  <2>2. base[u].posts + Cardinality({}) = Cardinality(PostsOf(u)) + Cardinality({})
    BY <2>1 DEF IInv, Sound, Counted
  <2>3. Cardinality(PostsOf(u)) \in Nat /\ base[u].posts \in Int
    BY PostsFinite, RowOf DEF IInv
  <2>4. QED
    BY <2>2, <2>3, FS_EmptySet
<1>2. QED
  BY <1>1, InvariantHolds, PTL

(* No save brings the row of a deleted account back, unless the deletion     *)
(* came between its read and its write.                                      *)
THEOREM DeletedStay == Spec => DeletedStaysDeleted
<1> DEFINE Stays == \A u \in Users :
         u \in invited /\ ~ base[u].row /\ "stale" \notin mishaps[u] => ~ base'[u].row
<1>1. IInv /\ [Next]_vars => [Stays]_base
  <2> SUFFICES ASSUME IInv, [Next]_vars, base' # base, NEW u \in Users,
                      u \in invited, ~ base[u].row, "stale" \notin mishaps[u]
               PROVE  ~ base'[u].row
    OBVIOUS
  <2>1. PICK r \in Requests : RegisterInsert(r) \/ BaseWrite(r) \/ DeleteCommit(r) \/ CountPost(r)
    <3>1. ASSUME NEW r \in Requests, Arrive(r) PROVE FALSE
      <4>1. \A step, v, a : ~ Begin(r, step, v, a)
        BY DEF Begin
      <4>2. ASSUME NEW v \in Users PROVE ~ Register(r, v) /\ ~ VerifyEmail(r, v) /\ ~ ResetPassword(r, v)
        BY <4>1, Zenon DEF Register, VerifyEmail, ResetPassword
      <4>3. ASSUME NEW v \in Users, NEW n \in Usernames
            PROVE  ~ CompleteProfile(r, v, n) /\ ~ UpdateProfile(r, v, n)
        BY <4>1, Zenon DEF CompleteProfile, UpdateProfile
      <4>4. ASSUME NEW v \in Users PROVE ~ UpdateProfileImage(r, v) /\ ~ DeleteAccount(r, v)
        BY <4>1, Zenon DEF UpdateProfileImage, DeleteAccount
      <4>5. ASSUME NEW p \in Posts
            PROVE  ~ DeletePost(r, p) /\ \A v \in Users : ~ CreatePost(r, v, p)
        BY <4>1, Zenon DEF DeletePost, CreatePost
      <4>6. QED
        BY <3>1, <4>2, <4>3, <4>4, <4>5 DEF Arrive
    <3>2. ASSUME NEW r \in Requests, Continue(r)
          PROVE  RegisterInsert(r) \/ BaseWrite(r) \/ DeleteCommit(r) \/ CountPost(r)
      BY <3>2, Zenon DEF Continue, BaseFind, BaseReload, CompleteInsert, CompleteFind, UpdateFind,
         UpdateCheck, ImageFind, ProfileReload, ProfileWrite, EmitUpdated, DeleteFind,
         EmitDeleted, PostInsert, PostRemove, RequestFails
    <3>3. ASSUME NEW v \in Users PROVE ~ Login(v)
      BY DEF Login
    <3>4. ~ UNCHANGED vars
      BY DEF vars
    <3>5. QED
      BY <3>1, <3>2, <3>3, <3>4 DEF Next
  <2>2. \A v \in Users : \A row : base' = [base EXCEPT ![v] = row] => base'[u] = IF u = v THEN row ELSE base[u]
    BY Types DEF IInv
  <2>3. PICK v \in Users : v = job[r].user
    BY <2>1, OfSteps DEF RegisterInsert, BaseWrite, DeleteCommit, CountPost, Steps, SaveSteps, PostSteps
  <2>4. CASE RegisterInsert(r)
    BY <2>2, <2>3, <2>4 DEF RegisterInsert, SetBase
  <2>5. CASE BaseWrite(r)
    <3>1. u = v => base[u].row
      BY <2>3, <2>5 DEF IInv, Sound, Saved, Saves, BaseWrite, SaveSteps
    <3>2. QED
      BY <2>2, <2>3, <2>5, <3>1 DEF BaseWrite, SetBase
  <2>6. CASE DeleteCommit(r)
    BY <2>2, <2>3, <2>6, Domains DEF DeleteCommit
  <2>7. CASE CountPost(r)
    BY <2>2, <2>3, <2>7 DEF CountPost, SetBase
  <2>8. QED
    BY <2>1, <2>4, <2>5, <2>6, <2>7
<1>2. QED
  BY <1>1, InvariantHolds, PTL DEF Spec, DeletedStaysDeleted
=============================================================================
