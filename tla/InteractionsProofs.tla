------------------------- MODULE InteractionsProofs -------------------------
(***************************************************************************)
(* TLAPS proofs about Interactions, for every finite set of accounts, of   *)
(* comments and of requests.  The inductive invariant has four parts: the  *)
(* types, with what a request between two steps holds in its job; that a   *)
(* comment about to be inserted is known to no other request; the exact    *)
(* counters; and, for the events, the announcements still owed.            *)
(***************************************************************************)
EXTENDS Interactions, FiniteSetTheorems, TLAPS

EmitSteps == {"emitCreated", "emitRemoved"}

LikeSteps == {"reactLookup", "reactTx", "unreactLookup", "unreactTx"}

CommentSteps == {"commentTx", "commentOwner", "uncommentTx", "commentReload", "commentSave"}

Steps == {"idle"} \cup TxSteps \cup OtherSteps \cup Outcomes

Jobs == [subject: Users \cup Comments \cup {None}, actor: Users \cup {None},
         reactionsCount: Int, commentsCount: Int, dirty: SUBSET (Columns \cup {"deletedAt"})]

(* What a request at this step holds                                         *)
Fits(step, args) ==
    /\ step \in Steps
    /\ args \in Jobs
    /\ step \in LikeSteps => args.subject \in Users
    /\ step \in CommentSteps => args.subject \in Comments
    /\ step \in EmitSteps => args.subject \in Users \cup Comments
    /\ step = "postSave" => args.dirty \subseteq Columns

Typed == TypeOK /\ \A r \in Requests : Fits(pc[r], job[r])

(* The id of a comment about to be inserted is nobody else's business        *)
Fresh ==
    \A r \in Requests : pc[r] = "commentTx" =>
        /\ comments[job[r].subject] = "none"
        /\ \A q \in Requests \ {r} : job[q].subject # job[r].subject

(* The announcements of one like or comment that requests still owe          *)
Owing(step, x) == {r \in Requests : pc[r] = step /\ job[r].subject = x}

Row(x) == IF x \in likes \cup LiveComments THEN 1 ELSE 0

EventsBalance ==
    \A x \in (Users \cup Comments) \ skewed :
        announced[x] + Cardinality(Owing("emitCreated", x)) =
            Row(x) + Cardinality(Owing("emitRemoved", x))

IInv == Typed /\ Fresh /\ CountersExact /\ EventsBalance

-----------------------------------------------------------------------------
(* Control of one request.                                                   *)

LEMMA StepSets ==
    /\ EmitSteps \subseteq Steps /\ LikeSteps \subseteq Steps /\ CommentSteps \subseteq Steps
    /\ Outcomes \cup {"idle", "postReload", "postSave", "postDelete"} \subseteq Steps
    /\ Outcomes \cap (EmitSteps \cup LikeSteps \cup CommentSteps) = {}
    /\ \A step \in {"idle", "postReload", "postSave", "postDelete"} :
          step \notin EmitSteps \cup LikeSteps \cup CommentSteps \cup Outcomes
    /\ LikeSteps \cap CommentSteps = {} /\ EmitSteps \cap (LikeSteps \cup CommentSteps) = {}
    /\ "postSave" \notin Outcomes
BY DEF EmitSteps, LikeSteps, CommentSteps, Steps, TxSteps, OtherSteps, Outcomes

LEMMA NamesDiffer ==
    /\ None \notin Users /\ None \notin Comments
    /\ \A u \in Users, c \in Comments : u # c
BY NoneAssumption, CommentsAssumption

LEMMA JobForFields ==
    ASSUME NEW x \in Users \cup Comments \cup {None}, NEW a \in Users \cup {None},
           NEW m \in Int, NEW n \in Int, NEW d \in SUBSET (Columns \cup {"deletedAt"})
    PROVE  /\ JobFor(x, a, m, n, d) \in Jobs
           /\ JobFor(x, a, m, n, d).subject = x
           /\ JobFor(x, a, m, n, d).actor = a
           /\ JobFor(x, a, m, n, d).dirty = d
BY DEF JobFor, Jobs

LEMMA NoJobFits ==
    ASSUME NEW outcome \in Outcomes
    PROVE  Fits(outcome, NoJob) /\ NoJob.subject = None
<1>1. NoJob \in Jobs /\ NoJob.subject = None
  BY JobForFields DEF NoJob
<1>2. QED
  BY <1>1, StepSets DEF Fits, Outcomes

LEMMA JobOf ==
    ASSUME Typed, NEW r \in Requests
    PROVE  /\ Fits(pc[r], job[r])
           /\ job[r] \in Jobs /\ job[r].reactionsCount \in Int /\ job[r].commentsCount \in Int
           /\ job[r].subject \in Users \cup Comments \cup {None}
           /\ job[r].actor \in Users \cup {None}
BY DEF Typed, Fits, Jobs

LEMMA Moved ==
    ASSUME Typed, NEW r \in Requests, NEW step, NEW args, Await(r, step, args)
    PROVE  /\ pc'[r] = step /\ job'[r] = args
           /\ \A q \in Requests \ {r} : pc'[q] = pc[q] /\ job'[q] = job[q]
BY DEF Await, Typed, TypeOK

LEMMA GotoAwaits ==
    ASSUME Typed, NEW r \in Requests, NEW step, Goto(r, step)
    PROVE  Await(r, step, job[r])
BY DEF Goto, Await, Typed, TypeOK

LEMMA AwaitTyped ==
    ASSUME Typed, NEW r \in Requests, NEW step, NEW args,
           Await(r, step, args), Fits(step, args)
    PROVE  /\ pc' \in [Requests -> Steps]
           /\ job' \in [Requests -> Jobs]
           /\ \A q \in Requests : Fits(pc'[q], job'[q])
<1>1. pc \in [Requests -> Steps] /\ job \in [Requests -> Jobs]
  BY DEF Typed, TypeOK, Steps, Jobs
<1>2. step \in Steps /\ args \in Jobs
  BY DEF Fits
<1>3. pc' \in [Requests -> Steps] /\ job' \in [Requests -> Jobs]
  BY <1>1, <1>2 DEF Await
<1>4. ASSUME NEW q \in Requests PROVE Fits(pc'[q], job'[q])
  <2>1. CASE q = r
    BY <2>1, Moved
  <2>2. CASE q # r
    BY <2>2, Moved, JobOf
  <2>3. QED
    BY <2>1, <2>2
<1>5. QED
  BY <1>3, <1>4

LEMMA ControlTyped ==
    ASSUME Typed, NEW r \in Requests, NEW step, NEW args,
           Await(r, step, args), Fits(step, args), UNCHANGED <<db, announced, skewed>>
    PROVE  Typed'
<1>1. /\ pc' \in [Requests -> Steps]
      /\ job' \in [Requests -> Jobs]
      /\ \A q \in Requests : Fits(pc'[q], job'[q])
  BY AwaitTyped
<1>2. QED
  BY <1>1 DEF Typed, TypeOK, db, rows, Steps, Jobs

(* A request cannot take the id of a comment being inserted, unless it       *)
(* already has it, and nothing else makes such a comment exist.              *)
LEMMA AwaitFresh ==
    ASSUME Typed, Fresh, NEW r \in Requests, NEW step, NEW args,
           Await(r, step, args), step # "commentTx",
           \/ args.subject \in Users \cup {None}
           \/ args.subject = job[r].subject
           \/ args.subject \in Comments /\ comments[args.subject] # "none",
           \A c \in Comments : comments[c] = "none" /\ c # job[r].subject => comments'[c] = "none"
    PROVE  Fresh'
<1> SUFFICES ASSUME NEW q \in Requests, pc'[q] = "commentTx"
             PROVE  /\ comments'[job'[q].subject] = "none"
                    /\ \A p \in Requests \ {q} : job'[p].subject # job'[q].subject
  BY DEF Fresh
<1>1. q # r
  BY Moved
<1>2. pc[q] = "commentTx" /\ job'[q] = job[q]
  BY <1>1, Moved
<1>3. /\ comments[job[q].subject] = "none"
      /\ \A p \in Requests \ {q} : job[p].subject # job[q].subject
  BY <1>2 DEF Fresh
<1>4. job[q].subject \in Comments
  BY <1>2, JobOf DEF Fits, CommentSteps
<1>5. job[r].subject # job[q].subject
  BY <1>1, <1>3
<1>6. comments'[job[q].subject] = "none"
  BY <1>3, <1>4, <1>5
<1>7. args.subject # job[q].subject
  BY <1>3, <1>4, <1>5, NamesDiffer
<1>8. ASSUME NEW p \in Requests \ {q} PROVE job'[p].subject # job[q].subject
  <2>1. CASE p = r
    BY <1>7, <2>1, Moved
  <2>2. CASE p # r
    BY <1>3, <2>2, Moved
  <2>3. QED
    BY <2>1, <2>2
<1>9. QED
  BY <1>2, <1>6, <1>8

-----------------------------------------------------------------------------
(* Counting the likes, the comments and the announcements owed.              *)

LEMMA CountsFinite ==
    ASSUME Typed
    PROVE  /\ IsFiniteSet(likes) /\ Cardinality(likes) \in Nat
           /\ IsFiniteSet(LiveComments) /\ Cardinality(LiveComments) \in Nat
<1>1. likes \subseteq Users /\ LiveComments \subseteq Comments
  BY DEF Typed, TypeOK, LiveComments
<1>2. QED
  BY <1>1, UsersAssumption, CommentsAssumption, FS_Subset, FS_CardinalityType

LEMMA OwingFinite ==
    ASSUME NEW step, NEW x
    PROVE  IsFiniteSet(Owing(step, x)) /\ Cardinality(Owing(step, x)) \in Nat
BY RequestsAssumption, FS_Subset, FS_CardinalityType DEF Owing

(* A request that enters an emit step owes one announcement more, of its     *)
(* subject and kind; one that leaves it owes one less; the others the same.  *)
LEMMA OwingGrows ==
    ASSUME Typed, NEW r \in Requests, NEW step \in EmitSteps, NEW s \in EmitSteps, NEW x,
           pc[r] \notin EmitSteps, Await(r, step, job[r])
    PROVE  Cardinality(Owing(s, x)') = IF s = step /\ x = job[r].subject
                                         THEN Cardinality(Owing(s, x)) + 1
                                         ELSE Cardinality(Owing(s, x))
<1>1. CASE s = step /\ x = job[r].subject
  <2>1. Owing(s, x)' = Owing(s, x) \cup {r}
    BY <1>1, Moved DEF Owing
  <2>2. r \notin Owing(s, x)
    BY <1>1 DEF Owing
  <2>3. QED
    BY <1>1, <2>1, <2>2, OwingFinite, FS_AddElement, ZenonT(60)
<1>2. CASE ~ (s = step /\ x = job[r].subject)
  <2>1. Owing(s, x)' = Owing(s, x)
    BY <1>2, Moved DEF Owing
  <2>2. QED
    BY <1>2, <2>1
<1>3. QED
  BY <1>1, <1>2

LEMMA OwingShrinks ==
    ASSUME Typed, NEW r \in Requests, NEW s \in EmitSteps, NEW x, NEW step, NEW args,
           pc[r] \in EmitSteps, step \notin EmitSteps, Await(r, step, args)
    PROVE  Cardinality(Owing(s, x)') = IF s = pc[r] /\ x = job[r].subject
                                         THEN Cardinality(Owing(s, x)) - 1
                                         ELSE Cardinality(Owing(s, x))
<1>1. CASE s = pc[r] /\ x = job[r].subject
  <2>1. Owing(s, x)' = Owing(s, x) \ {r}
    BY <1>1, Moved DEF Owing
  <2>2. r \in Owing(s, x)
    BY <1>1 DEF Owing
  <2>3. Cardinality(Owing(s, x) \ {r}) = Cardinality(Owing(s, x)) - 1
    BY <2>2, OwingFinite, FS_RemoveElement
  <2>4. QED
    BY <1>1, <2>1, <2>3
<1>2. CASE ~ (s = pc[r] /\ x = job[r].subject)
  <2>1. Owing(s, x)' = Owing(s, x)
    BY <1>2, Moved DEF Owing
  <2>2. QED
    BY <1>2, <2>1
<1>3. QED
  BY <1>1, <1>2

LEMMA OwingSame ==
    ASSUME Typed, NEW r \in Requests, NEW step, NEW args,
           pc[r] \notin EmitSteps, step \notin EmitSteps, Await(r, step, args)
    PROVE  \A s \in EmitSteps : \A x : Owing(s, x)' = Owing(s, x)
<1> SUFFICES ASSUME NEW s \in EmitSteps, NEW x PROVE Owing(s, x)' = Owing(s, x)
  OBVIOUS
<1> QED
  BY Moved DEF Owing

LEMMA QuietBalance ==
    ASSUME EventsBalance, skewed \subseteq skewed', UNCHANGED announced,
           \A x \in (Users \cup Comments) \ skewed' : Row(x)' = Row(x),
           \A s \in EmitSteps : \A x : Owing(s, x)' = Owing(s, x)
    PROVE  EventsBalance'
BY DEF EventsBalance, EmitSteps

(* A row that comes with an announcement of its creation owed, or goes with  *)
(* one of its removal, keeps the balance.                                    *)
LEMMA RowBalance ==
    ASSUME Typed, EventsBalance, NEW r \in Requests, NEW step \in EmitSteps, NEW x,
           x = job[r].subject, pc[r] \notin EmitSteps, Await(r, step, job[r]),
           skewed \subseteq skewed', UNCHANGED announced,
           x \notin skewed' => Row(x)' = IF step = "emitCreated" THEN Row(x) + 1 ELSE Row(x) - 1,
           \A y \in (Users \cup Comments) \ skewed' : y # x => Row(y)' = Row(y)
    PROVE  EventsBalance'
<1> SUFFICES ASSUME NEW y \in (Users \cup Comments) \ skewed'
             PROVE  announced[y] + Cardinality(Owing("emitCreated", y)') =
                      Row(y)' + Cardinality(Owing("emitRemoved", y)')
  BY DEF EventsBalance
<1>1. \A s \in EmitSteps :
        Cardinality(Owing(s, y)') = IF s = step /\ y = x THEN Cardinality(Owing(s, y)) + 1
                                                         ELSE Cardinality(Owing(s, y))
  BY OwingGrows
<1>2. announced[y] + Cardinality(Owing("emitCreated", y)) =
        Row(y) + Cardinality(Owing("emitRemoved", y))
  BY DEF EventsBalance
<1>3. announced[y] \in Int /\ Row(y) \in Int
  BY DEF Typed, TypeOK, Row
<1>4. /\ Cardinality(Owing("emitCreated", y)) \in Int
      /\ Cardinality(Owing("emitRemoved", y)) \in Int
  BY OwingFinite
<1>5. CASE y = x
  <2>1. Row(y)' = IF step = "emitCreated" THEN Row(y) + 1 ELSE Row(y) - 1
    BY <1>5
  <2>2. CASE step = "emitCreated"
    BY <1>1, <1>2, <1>3, <1>4, <1>5, <2>1, <2>2 DEF EmitSteps
  <2>3. CASE step = "emitRemoved"
    BY <1>1, <1>2, <1>3, <1>4, <1>5, <2>1, <2>3 DEF EmitSteps
  <2>4. QED
    BY <2>2, <2>3 DEF EmitSteps
<1>6. CASE y # x
  BY <1>1, <1>2, <1>6 DEF EmitSteps
<1>7. QED
  BY <1>5, <1>6

LEMMA QuietCounters ==
    ASSUME CountersExact, UNCHANGED <<post, likes, comments, reactionsCount, commentsCount, skewed>>
    PROVE  CountersExact'
BY DEF CountersExact, LiveComments

(* A step that reads, decides and moves its request, and writes no row       *)
LEMMA QuietKeeps ==
    ASSUME IInv, NEW r \in Requests, NEW step, NEW args,
           Await(r, step, args), Fits(step, args), UNCHANGED <<db, announced, skewed>>,
           pc[r] \notin EmitSteps, step \notin EmitSteps
    PROVE  Typed' /\ CountersExact' /\ EventsBalance'
<1>1. UNCHANGED <<accounts, post, likes, comments, reactionsCount, commentsCount>>
  BY DEF db, rows
<1>2. \A x : Row(x)' = Row(x)
  BY <1>1 DEF Row, LiveComments
<1>3. EventsBalance'
  BY <1>2, OwingSame, QuietBalance DEF IInv
<1>4. QED
  BY <1>1, <1>3, ControlTyped, QuietCounters DEF IInv

LEMMA QuietStep ==
    ASSUME IInv, NEW r \in Requests, NEW step, NEW args,
           Await(r, step, args), Fits(step, args), UNCHANGED <<db, announced, skewed>>,
           pc[r] \notin EmitSteps, step \notin EmitSteps \cup {"commentTx"},
           \/ args.subject \in Users \cup {None}
           \/ args.subject = job[r].subject
           \/ args.subject \in Comments /\ comments[args.subject] # "none"
    PROVE  IInv'
<1>1. UNCHANGED comments
  BY DEF db, rows
<1>2. Fresh'
  BY <1>1, AwaitFresh DEF IInv
<1>3. QED
  BY <1>2, QuietKeeps DEF IInv

(* A request answered at once, or by a step that read a row                  *)
LEMMA QuietEnd ==
    ASSUME IInv, NEW r \in Requests, NEW outcome \in Outcomes,
           Finish(r, outcome), UNCHANGED <<db, announced, skewed>>, pc[r] \notin EmitSteps
    PROVE  IInv'
<1>1. outcome \notin EmitSteps \cup {"commentTx"}
  BY StepSets DEF CommentSteps
<1>2. QED
  BY <1>1, NoJobFits, QuietStep DEF Finish

(* A request that goes on with the job it has                                *)
LEMMA QuietGoto ==
    ASSUME IInv, NEW r \in Requests, NEW step,
           Goto(r, step), UNCHANGED <<db, announced, skewed>>, pc[r] \notin EmitSteps,
           \/ step \in LikeSteps /\ pc[r] \in LikeSteps
           \/ step \in CommentSteps \ {"commentTx"} /\ pc[r] \in CommentSteps
    PROVE  IInv'
<1>1. Await(r, step, job[r])
  BY GotoAwaits DEF IInv
<1>2. step \notin EmitSteps \cup {"commentTx", "postSave"}
  BY StepSets DEF CommentSteps, LikeSteps
<1>3. Fits(step, job[r])
  BY <1>2, JobOf, StepSets DEF IInv, Fits
<1>4. QED
  BY <1>1, <1>2, <1>3, QuietStep

-----------------------------------------------------------------------------
(* Arrivals.                                                                 *)

LEMMA BeginKeeps ==
    ASSUME IInv, NEW r \in Requests, NEW ok, NEW step, NEW args, Begin(r, ok, step, args),
           Fits(step, args), step \notin EmitSteps \cup {"commentTx"},
           \/ args.subject \in Users \cup {None}
           \/ ok => args.subject \in Comments /\ comments[args.subject] # "none"
    PROVE  IInv'
<1>1. pc[r] = "idle" /\ UNCHANGED <<db, announced, skewed>>
  BY DEF Begin
<1>2. pc[r] \notin EmitSteps
  BY <1>1 DEF EmitSteps
<1>3. CASE ok /\ Await(r, step, args)
  BY <1>1, <1>2, <1>3, QuietStep
<1>4. CASE Finish(r, "rejected")
  BY <1>1, <1>2, <1>4, QuietEnd DEF Outcomes
<1>5. QED
  BY <1>3, <1>4, Zenon DEF Begin

LEMMA ReactKeeps ==
    ASSUME IInv, NEW r \in Requests, NEW u \in Users, React(r, u) \/ Unreact(r, u)
    PROVE  IInv'
<1> DEFINE args == JobFor(u, u, 0, 0, {})
<1>1. args \in Jobs /\ args.subject = u
  BY JobForFields
<1> HIDE DEF args
<1>2. ASSUME NEW step \in LikeSteps PROVE Fits(step, args)
  BY <1>1, StepSets DEF Fits, LikeSteps
<1>3. "reactLookup" \in LikeSteps /\ "unreactLookup" \in LikeSteps
  BY DEF LikeSteps
<1>4. "commentTx" \notin LikeSteps
  BY DEF LikeSteps
<1>5. CASE Begin(r, post = "live", "reactLookup", args)
  BY <1>1, <1>2, <1>3, <1>4, <1>5, BeginKeeps, StepSets
<1>6. CASE Begin(r, post = "live", "unreactLookup", args)
  BY <1>1, <1>2, <1>3, <1>4, <1>6, BeginKeeps, StepSets
<1>7. QED
  BY <1>5, <1>6, Zenon DEF React, Unreact, args

LEMMA ChangeCommentKeeps ==
    ASSUME IInv, NEW r \in Requests, NEW a \in Users, NEW c \in Comments,
           UpdateComment(r, a, c) \/ DeleteComment(r, a, c)
    PROVE  IInv'
<1> DEFINE args == JobFor(c, a, 0, 0, {})
<1>1. args \in Jobs /\ args.subject = c
  BY JobForFields
<1> HIDE DEF args
<1>2. Fits("commentReload", args) /\ Fits("commentOwner", args)
  BY <1>1, StepSets DEF Fits, CommentSteps
<1>3. /\ "commentReload" \notin EmitSteps \cup {"commentTx"}
      /\ "commentOwner" \notin EmitSteps \cup {"commentTx"}
  BY DEF EmitSteps
<1>4. CASE Begin(r, comments[c] = "live" /\ a = Writer[c], "commentReload", args)
  BY <1>1, <1>2, <1>3, <1>4, BeginKeeps
<1>5. CASE Begin(r, comments[c] = "live", "commentOwner", args)
  BY <1>1, <1>2, <1>3, <1>5, BeginKeeps
<1>6. QED
  BY <1>4, <1>5, Zenon DEF UpdateComment, DeleteComment, args

LEMMA ChangePostKeeps ==
    ASSUME IInv, NEW r \in Requests, NEW a \in Users, UpdatePost(r, a) \/ DeletePost(r, a)
    PROVE  IInv'
<1> DEFINE held == JobFor(None, a, reactionsCount, commentsCount, {})
           none == JobFor(None, a, 0, 0, {})
<1>1. reactionsCount \in Int /\ commentsCount \in Int
  BY DEF IInv, Typed, TypeOK
<1>2. held \in Jobs /\ held.subject = None
  BY <1>1 DEF held, JobFor, Jobs
<1>3. none \in Jobs /\ none.subject = None
  BY DEF none, JobFor, Jobs
<1> HIDE DEF held, none
<1>4. Fits("postReload", held) /\ Fits("postDelete", none)
  BY <1>2, <1>3, StepSets DEF Fits
<1>5. /\ "postReload" \notin EmitSteps \cup {"commentTx"}
      /\ "postDelete" \notin EmitSteps \cup {"commentTx"}
  BY DEF EmitSteps
<1>6. CASE Begin(r, post = "live" /\ a = PostAuthor, "postReload", held)
  BY <1>2, <1>4, <1>5, <1>6, BeginKeeps
<1>7. CASE Begin(r, post = "live" /\ a = PostAuthor, "postDelete", none)
  BY <1>3, <1>4, <1>5, <1>7, BeginKeeps
<1>8. QED
  BY <1>6, <1>7, Zenon DEF UpdatePost, DeletePost, held, none

(* The id that addComment will insert is generated for it: no row and no     *)
(* request has it.                                                           *)
LEMMA AddCommentKeeps ==
    ASSUME IInv, NEW r \in Requests, NEW c \in Comments, AddComment(r, c)
    PROVE  IInv'
<1> DEFINE args == JobFor(c, Writer[c], 0, 0, {})
<1>1. Writer[c] \in Users
  BY CommentsAssumption
<1>2. args \in Jobs /\ args.subject = c
  BY <1>1, JobForFields
<1> HIDE DEF args
<1>3. /\ comments[c] = "none"
      /\ \A q \in Requests : job[q].subject # c
      /\ Begin(r, post = "live", "commentTx", args)
  BY DEF AddComment, args
<1>4. pc[r] = "idle" /\ UNCHANGED <<db, announced, skewed>>
  BY <1>3 DEF Begin
<1>5. pc[r] \notin EmitSteps /\ "commentTx" \notin EmitSteps
  BY <1>4 DEF EmitSteps
<1>6. CASE Await(r, "commentTx", args)
  <2>1. Fits("commentTx", args)
    BY <1>2, StepSets DEF Fits, CommentSteps
  <2>2. UNCHANGED comments
    BY <1>4 DEF db, rows
  <2>3. Fresh'
    <3> SUFFICES ASSUME NEW q \in Requests, pc'[q] = "commentTx"
                 PROVE  /\ comments[job'[q].subject] = "none"
                        /\ \A p \in Requests \ {q} : job'[p].subject # job'[q].subject
      BY <2>2 DEF Fresh
    <3>1. Typed
      BY DEF IInv
    <3>2. CASE q = r
      BY <1>2, <1>3, <1>6, <3>1, <3>2, Moved
    <3>3. CASE q # r
      BY <1>2, <1>3, <1>6, <3>1, <3>3, Moved DEF IInv, Fresh
    <3>4. QED
      BY <3>2, <3>3
  <2>4. QED
    BY <1>4, <1>5, <1>6, <2>1, <2>3, QuietKeeps DEF IInv
<1>7. CASE Finish(r, "rejected")
  BY <1>4, <1>5, <1>7, QuietEnd DEF Outcomes
<1>8. QED
  BY <1>3, <1>6, <1>7 DEF Begin

LEMMA ArriveKeeps ==
    ASSUME IInv, NEW r \in Requests, Arrive(r)
    PROVE  IInv'
BY ReactKeeps, ChangeCommentKeeps, ChangePostKeeps, AddCommentKeeps DEF Arrive

-----------------------------------------------------------------------------
(* The steps that write no row.                                              *)

LEMMA CheckKeeps ==
    ASSUME IInv, NEW r \in Requests, NEW at, NEW ok, NEW step, Check(r, at, ok, step),
           \/ step \in LikeSteps /\ at \in LikeSteps
           \/ step \in CommentSteps \ {"commentTx"} /\ at \in CommentSteps
    PROVE  IInv'
<1>1. pc[r] = at /\ UNCHANGED <<db, announced, skewed>>
  BY DEF Check
<1>2. pc[r] \notin EmitSteps
  BY <1>1, StepSets
<1>3. CASE Goto(r, step)
  BY <1>1, <1>2, <1>3, QuietGoto
<1>4. CASE Finish(r, "rejected")
  BY <1>1, <1>2, <1>4, QuietEnd DEF Outcomes
<1>5. QED
  BY <1>3, <1>4, Zenon DEF Check

LEMMA LookupsKeep ==
    ASSUME IInv, NEW r \in Requests, ReactLookup(r) \/ UnreactLookup(r) \/ CommentOwner(r)
    PROVE  IInv'
<1>1. CASE ReactLookup(r)
  <2>1. "reactLookup" \in LikeSteps /\ "reactTx" \in LikeSteps
    BY DEF LikeSteps
  <2>2. QED
    BY <1>1, <2>1, CheckKeeps, Zenon DEF ReactLookup
<1>2. CASE UnreactLookup(r)
  <2>1. "unreactLookup" \in LikeSteps /\ "unreactTx" \in LikeSteps
    BY DEF LikeSteps
  <2>2. QED
    BY <1>2, <2>1, CheckKeeps, Zenon DEF UnreactLookup
<1>3. CASE CommentOwner(r)
  <2>1. "commentOwner" \in CommentSteps /\ "uncommentTx" \in CommentSteps \ {"commentTx"}
    BY DEF CommentSteps
  <2>2. QED
    BY <1>3, <2>1, CheckKeeps, Zenon DEF CommentOwner
<1>4. QED
  BY <1>1, <1>2, <1>3

LEMMA FailuresKeep ==
    ASSUME IInv, NEW r \in Requests, ReactConflict(r) \/ CommentConflict(r) \/ TxAborted(r)
    PROVE  IInv'
<1>1. Finish(r, "failed") /\ UNCHANGED <<db, announced, skewed>> /\ pc[r] \in TxSteps
  BY DEF ReactConflict, CommentConflict, TxAborted, TxSteps
<1>2. pc[r] \notin EmitSteps /\ "failed" \in Outcomes
  BY <1>1 DEF TxSteps, EmitSteps, Outcomes
<1>3. QED
  BY <1>1, <1>2, QuietEnd

LEMMA CommentReloadKeeps ==
    ASSUME IInv, NEW r \in Requests, CommentReload(r)
    PROVE  IInv'
<1> DEFINE c == job[r].subject
           dirty == IF comments[c] = "deleted" THEN {"deletedAt"} ELSE {}
           args == JobFor(c, job[r].actor, 0, 0, dirty)
<1>1. pc[r] = "commentReload" /\ UNCHANGED <<db, announced, skewed>>
  BY DEF CommentReload
<1>2. c \in Comments /\ job[r].actor \in Users \cup {None}
  BY <1>1, JobOf DEF IInv, Fits, CommentSteps
<1>3. dirty \in SUBSET (Columns \cup {"deletedAt"})
  OBVIOUS
<1>4. args \in Jobs /\ args.subject = c
  BY <1>2, <1>3, JobForFields
<1>5. Finish(r, "failed") \/ Await(r, "commentSave", args)
  BY DEF CommentReload
<1> HIDE DEF args
<1>6. pc[r] \notin EmitSteps /\ "commentSave" \notin EmitSteps \cup {"commentTx"}
  BY <1>1 DEF EmitSteps
<1>7. Fits("commentSave", args)
  BY <1>2, <1>4, StepSets DEF Fits, CommentSteps
<1>8. CASE Finish(r, "failed")
  BY <1>1, <1>6, <1>8, QuietEnd DEF Outcomes
<1>9. CASE Await(r, "commentSave", args)
  BY <1>1, <1>4, <1>6, <1>7, <1>9, QuietStep
<1>10. QED
  BY <1>5, <1>8, <1>9

LEMMA PostReloadKeeps ==
    ASSUME IInv, NEW r \in Requests, PostReload(r)
    PROVE  IInv'
<1>1. pc[r] = "postReload" /\ UNCHANGED <<db, announced, skewed>>
  BY DEF PostReload
<1>2. pc[r] \notin EmitSteps /\ "postSave" \notin EmitSteps \cup {"commentTx"}
  BY <1>1 DEF EmitSteps
<1>3. CASE Finish(r, "failed")
  BY <1>1, <1>2, <1>3, QuietEnd DEF Outcomes
<1>4. ASSUME NEW dirty \in SUBSET Columns,
             Await(r, "postSave", JobFor(None, job[r].actor, job[r].reactionsCount,
                                         job[r].commentsCount, dirty))
      PROVE  IInv'
  <2> DEFINE args == JobFor(None, job[r].actor, job[r].reactionsCount,
                            job[r].commentsCount, dirty)
  <2>1. args \in Jobs /\ args.subject = None /\ args.dirty = dirty
    <3>1. dirty \in SUBSET (Columns \cup {"deletedAt"})
      OBVIOUS
    <3>2. QED
      BY <3>1, JobOf DEF IInv, JobFor, Jobs
  <2>2. Await(r, "postSave", args)
    BY <1>4
  <2> HIDE DEF args
  <2>3. Fits("postSave", args)
    BY <2>1, StepSets DEF Fits
  <2>4. QED
    BY <1>1, <1>2, <2>1, <2>2, <2>3, QuietStep
<1>5. QED
  BY <1>3, <1>4 DEF PostReload

-----------------------------------------------------------------------------
(* The steps that write rows.                                                *)

(* A commit goes on to its announcement with the job it has                  *)
LEMMA CommitMoves ==
    ASSUME IInv, NEW r \in Requests, NEW step \in EmitSteps, Goto(r, step), pc[r] \in TxSteps,
           \A c \in Comments : comments[c] = "none" /\ c # job[r].subject => comments'[c] = "none"
    PROVE  /\ pc' \in [Requests -> Steps]
           /\ job' \in [Requests -> Jobs]
           /\ \A q \in Requests : Fits(pc'[q], job'[q])
           /\ Fresh'
           /\ Await(r, step, job[r])
           /\ pc[r] \notin EmitSteps
<1>1. Await(r, step, job[r])
  BY GotoAwaits DEF IInv
<1>2. pc[r] \in LikeSteps \cup CommentSteps /\ pc[r] \notin EmitSteps
  BY DEF TxSteps, LikeSteps, CommentSteps, EmitSteps
<1>3. step # "commentTx" /\ step # "postSave"
  BY DEF EmitSteps
<1>4. Fits(step, job[r])
  BY <1>2, <1>3, JobOf, StepSets DEF IInv, Fits
<1>5. Fresh'
  BY <1>1, <1>3, AwaitFresh DEF IInv
<1>6. QED
  BY <1>1, <1>2, <1>4, <1>5, AwaitTyped DEF IInv

LEMMA LikeSubject ==
    ASSUME IInv, NEW r \in Requests, pc[r] \in LikeSteps
    PROVE  job[r].subject \in Users /\ job[r].subject \notin LiveComments
BY JobOf, NamesDiffer DEF IInv, Fits, LiveComments

LEMMA CommentSubject ==
    ASSUME IInv, NEW r \in Requests, pc[r] \in CommentSteps
    PROVE  job[r].subject \in Comments /\ job[r].subject \notin likes
BY JobOf, NamesDiffer DEF IInv, Fits, Typed, TypeOK

LEMMA ReactCommitKeeps ==
    ASSUME IInv, NEW r \in Requests, ReactCommit(r)
    PROVE  IInv'
<1>0. PICK u : u = job[r].subject
  OBVIOUS
<1>1. /\ pc[r] = "reactTx" /\ Goto(r, "emitCreated") /\ post # "gone"
      /\ u \notin likes /\ likes' = likes \cup {u}
      /\ reactionsCount' = reactionsCount + 1
      /\ UNCHANGED <<accounts, post, comments, commentsCount, announced, skewed>>
  BY <1>0 DEF ReactCommit, Added
<1>2. u \in Users /\ u \notin LiveComments
  BY <1>0, <1>1, LikeSubject DEF LikeSteps
<1>3. /\ pc' \in [Requests -> Steps] /\ job' \in [Requests -> Jobs]
      /\ \A q \in Requests : Fits(pc'[q], job'[q])
      /\ Fresh' /\ Await(r, "emitCreated", job[r]) /\ pc[r] \notin EmitSteps
  BY <1>1, CommitMoves DEF EmitSteps, TxSteps
<1>4. Typed'
  BY <1>1, <1>2, <1>3 DEF IInv, Typed, TypeOK, Steps, Jobs
<1>5. CountersExact'
  <2>1. Cardinality(likes') = Cardinality(likes) + 1
    BY <1>1, CountsFinite, FS_AddElement DEF IInv
  <2>2. LiveComments' = LiveComments
    BY <1>1 DEF LiveComments
  <2>3. QED
    BY <1>1, <2>1, <2>2 DEF IInv, CountersExact
<1>6. EventsBalance'
  <2>1. Row(u)' = Row(u) + 1
    BY <1>1, <1>2 DEF Row, LiveComments
  <2>2. \A y : y # u => Row(y)' = Row(y)
    BY <1>1 DEF Row, LiveComments
  <2>3. QED
    BY <1>0, <1>1, <1>3, <2>1, <2>2, RowBalance DEF IInv, EmitSteps
<1>7. QED
  BY <1>3, <1>4, <1>5, <1>6 DEF IInv

LEMMA UnreactCommitKeeps ==
    ASSUME IInv, NEW r \in Requests, UnreactCommit(r)
    PROVE  IInv'
<1>0. PICK u : u = job[r].subject
  OBVIOUS
<1>1. /\ pc[r] = "unreactTx" /\ Goto(r, "emitRemoved")
      /\ likes' = likes \ {u}
      /\ reactionsCount' = IF post = "gone" THEN reactionsCount ELSE reactionsCount + (-1)
      /\ skewed' = IF u \in likes THEN skewed ELSE skewed \cup {"reactionsCount", u}
      /\ UNCHANGED <<accounts, post, comments, commentsCount, announced>>
  BY <1>0 DEF UnreactCommit, Added
<1>2. u \in Users /\ u \notin LiveComments
  BY <1>0, <1>1, LikeSubject DEF LikeSteps
<1>3. /\ pc' \in [Requests -> Steps] /\ job' \in [Requests -> Jobs]
      /\ \A q \in Requests : Fits(pc'[q], job'[q])
      /\ Fresh' /\ Await(r, "emitRemoved", job[r]) /\ pc[r] \notin EmitSteps
  BY <1>1, CommitMoves DEF EmitSteps, TxSteps
<1>4. Typed'
  <2>1. "reactionsCount" \in Columns
    BY DEF Columns
  <2>2. /\ reactionsCount \in Int /\ likes \in SUBSET Users
        /\ skewed \in SUBSET (Columns \cup Users \cup Comments)
    BY DEF IInv, Typed, TypeOK
  <2>3. /\ reactionsCount' \in Int /\ likes' \in SUBSET Users
        /\ skewed' \in SUBSET (Columns \cup Users \cup Comments)
    BY <1>1, <1>2, <2>1, <2>2
  <2>4. QED
    BY <1>1, <1>3, <2>3 DEF IInv, Typed, TypeOK, Steps, Jobs
<1>5. CountersExact'
  <2>1. LiveComments' = LiveComments
    BY <1>1 DEF LiveComments
  <2>2. CASE u \in likes
    <3>1. Cardinality(likes') = Cardinality(likes) - 1
      BY <1>1, <2>2, CountsFinite, FS_RemoveElement DEF IInv
    <3>2. reactionsCount \in Int
      BY DEF IInv, Typed, TypeOK
    <3>3. QED
      BY <1>1, <2>1, <2>2, <3>1, <3>2, CountsFinite DEF IInv, CountersExact
  <2>3. CASE u \notin likes
    BY <1>1, <2>1, <2>3 DEF IInv, CountersExact
  <2>4. QED
    BY <2>2, <2>3
<1>6. EventsBalance'
  <2>1. u \notin skewed' => Row(u)' = Row(u) - 1
    BY <1>1, <1>2 DEF Row, LiveComments
  <2>2. \A y : y # u => Row(y)' = Row(y)
    BY <1>1 DEF Row, LiveComments
  <2>3. QED
    BY <1>0, <1>1, <1>3, <2>1, <2>2, RowBalance DEF IInv, EmitSteps
<1>7. QED
  BY <1>3, <1>4, <1>5, <1>6 DEF IInv

LEMMA CommentCommitKeeps ==
    ASSUME IInv, NEW r \in Requests, CommentCommit(r)
    PROVE  IInv'
<1>0. PICK c : c = job[r].subject
  OBVIOUS
<1>1. /\ pc[r] = "commentTx" /\ Goto(r, "emitCreated") /\ post # "gone"
      /\ comments' = [comments EXCEPT ![c] = "live"]
      /\ commentsCount' = commentsCount + 1
      /\ UNCHANGED <<accounts, post, likes, reactionsCount, announced, skewed>>
  BY <1>0 DEF CommentCommit, Added
<1>2. c \in Comments /\ c \notin likes /\ comments[c] = "none"
  BY <1>0, <1>1, CommentSubject DEF CommentSteps, IInv, Fresh
<1>3. \A d \in Comments : d # c => comments'[d] = comments[d]
  BY <1>1 DEF IInv, Typed, TypeOK
<1>4. /\ pc' \in [Requests -> Steps] /\ job' \in [Requests -> Jobs]
      /\ \A q \in Requests : Fits(pc'[q], job'[q])
      /\ Fresh' /\ Await(r, "emitCreated", job[r]) /\ pc[r] \notin EmitSteps
  BY <1>0, <1>1, <1>3, CommitMoves DEF EmitSteps, TxSteps
<1>5. Typed'
  BY <1>1, <1>2, <1>4 DEF IInv, Typed, TypeOK, Steps, Jobs
<1>6. LiveComments' = LiveComments \cup {c} /\ c \notin LiveComments
  BY <1>1, <1>2 DEF LiveComments, IInv, Typed, TypeOK
<1>7. CountersExact'
  <2>1. Cardinality(LiveComments') = Cardinality(LiveComments) + 1
    BY <1>6, CountsFinite, FS_AddElement DEF IInv
  <2>2. QED
    BY <1>1, <2>1 DEF IInv, CountersExact
<1>8. EventsBalance'
  <2>1. Row(c)' = Row(c) + 1
    BY <1>1, <1>2, <1>6 DEF Row
  <2>2. \A y : y # c => Row(y)' = Row(y)
    BY <1>1, <1>6 DEF Row
  <2>3. QED
    BY <1>0, <1>1, <1>4, <2>1, <2>2, RowBalance DEF IInv, EmitSteps
<1>9. QED
  BY <1>4, <1>5, <1>7, <1>8 DEF IInv

LEMMA UncommentCommitKeeps ==
    ASSUME IInv, NEW r \in Requests, UncommentCommit(r)
    PROVE  IInv'
<1>0. PICK c : c = job[r].subject
  OBVIOUS
<1>1. /\ pc[r] = "uncommentTx" /\ Goto(r, "emitRemoved")
      /\ comments' = [comments EXCEPT ![c] = IF comments[c] = "gone" THEN "gone" ELSE "deleted"]
      /\ commentsCount' = IF post = "gone" THEN commentsCount ELSE commentsCount + (-1)
      /\ skewed' = IF comments[c] = "live" THEN skewed ELSE skewed \cup {"commentsCount", c}
      /\ UNCHANGED <<accounts, post, likes, reactionsCount, announced>>
  BY <1>0 DEF UncommentCommit, Added
<1>2. c \in Comments /\ c \notin likes
  BY <1>0, <1>1, CommentSubject DEF CommentSteps
<1>3. /\ comments'[c] \in {"gone", "deleted"}
      /\ \A d \in Comments : d # c => comments'[d] = comments[d]
  BY <1>1, <1>2 DEF IInv, Typed, TypeOK
<1>4. /\ pc' \in [Requests -> Steps] /\ job' \in [Requests -> Jobs]
      /\ \A q \in Requests : Fits(pc'[q], job'[q])
      /\ Fresh' /\ Await(r, "emitRemoved", job[r]) /\ pc[r] \notin EmitSteps
  BY <1>0, <1>1, <1>3, CommitMoves DEF EmitSteps, TxSteps
<1>5. Typed'
  <2>1. "commentsCount" \in Columns
    BY DEF Columns
  <2>2. /\ commentsCount \in Int
        /\ comments \in [Comments -> {"none", "live", "deleted", "gone"}]
        /\ skewed \in SUBSET (Columns \cup Users \cup Comments)
    BY DEF IInv, Typed, TypeOK
  <2>3. /\ commentsCount' \in Int
        /\ comments' \in [Comments -> {"none", "live", "deleted", "gone"}]
        /\ skewed' \in SUBSET (Columns \cup Users \cup Comments)
    BY <1>1, <1>2, <2>1, <2>2
  <2>4. QED
    BY <1>1, <1>4, <2>3 DEF IInv, Typed, TypeOK, Steps, Jobs
<1>6. LiveComments' = LiveComments \ {c}
  BY <1>3 DEF LiveComments
<1>7. CountersExact'
  <2>1. CASE comments[c] = "live"
    <3>1. c \in LiveComments
      BY <1>2, <2>1 DEF LiveComments
    <3>2. Cardinality(LiveComments') = Cardinality(LiveComments) - 1
      BY <1>6, <3>1, CountsFinite, FS_RemoveElement DEF IInv
    <3>3. commentsCount \in Int
      BY DEF IInv, Typed, TypeOK
    <3>4. QED
      BY <1>1, <2>1, <3>2, <3>3, CountsFinite DEF IInv, CountersExact
  <2>2. CASE comments[c] # "live"
    BY <1>1, <2>2 DEF IInv, CountersExact
  <2>3. QED
    BY <2>1, <2>2
<1>8. EventsBalance'
  <2>1. c \notin skewed' => Row(c)' = Row(c) - 1
    BY <1>1, <1>2, <1>6 DEF Row, LiveComments
  <2>2. \A y : y # c => Row(y)' = Row(y)
    BY <1>1, <1>6 DEF Row
  <2>3. QED
    BY <1>0, <1>1, <1>4, <2>1, <2>2, RowBalance DEF IInv, EmitSteps
<1>9. QED
  BY <1>4, <1>5, <1>7, <1>8 DEF IInv

(* The steps after which a request is over                                   *)
LEMMA EndMoves ==
    ASSUME IInv, NEW r \in Requests, NEW outcome \in Outcomes, Finish(r, outcome),
           \A c \in Comments : comments[c] = "none" /\ c # job[r].subject => comments'[c] = "none"
    PROVE  /\ pc' \in [Requests -> Steps]
           /\ job' \in [Requests -> Jobs]
           /\ \A q \in Requests : Fits(pc'[q], job'[q])
           /\ Fresh'
           /\ Await(r, outcome, NoJob)
           /\ outcome \notin EmitSteps
<1>1. Await(r, outcome, NoJob)
  BY DEF Finish
<1>2. Fits(outcome, NoJob) /\ NoJob.subject = None
  BY NoJobFits
<1>3. outcome \notin EmitSteps \cup {"commentTx"}
  BY StepSets DEF CommentSteps
<1>4. Fresh'
  BY <1>1, <1>2, <1>3, AwaitFresh DEF IInv
<1>5. QED
  BY <1>1, <1>2, <1>3, <1>4, AwaitTyped DEF IInv

LEMMA CommentSaveKeeps ==
    ASSUME IInv, NEW r \in Requests, CommentSave(r)
    PROVE  IInv'
<1>0. PICK c : c = job[r].subject
  OBVIOUS
<1> DEFINE revived == comments[c] = "deleted" /\ "deletedAt" \in job[r].dirty
<1>1. /\ pc[r] = "commentSave" /\ Finish(r, "done")
      /\ comments' = IF revived THEN [comments EXCEPT ![c] = "live"] ELSE comments
      /\ skewed' = IF revived THEN skewed \cup {"commentsCount", c} ELSE skewed
      /\ UNCHANGED <<accounts, post, likes, reactionsCount, commentsCount, announced>>
  BY <1>0 DEF CommentSave
<1>2. c \in Comments /\ pc[r] \notin EmitSteps
  BY <1>0, <1>1, CommentSubject DEF CommentSteps, EmitSteps
<1>3. revived => comments[c] = "deleted"
  OBVIOUS
<1> HIDE DEF revived
<1>4. \A d \in Comments : d # c => comments'[d] = comments[d]
  BY <1>1 DEF IInv, Typed, TypeOK
<1>5. /\ pc' \in [Requests -> Steps] /\ job' \in [Requests -> Jobs]
      /\ \A q \in Requests : Fits(pc'[q], job'[q])
      /\ Fresh' /\ Await(r, "done", NoJob) /\ "done" \notin EmitSteps
  BY <1>0, <1>1, <1>4, EndMoves DEF Outcomes
<1>6. Typed'
  <2>1. "commentsCount" \in Columns
    BY DEF Columns
  <2>2. /\ comments \in [Comments -> {"none", "live", "deleted", "gone"}]
        /\ skewed \in SUBSET (Columns \cup Users \cup Comments)
    BY DEF IInv, Typed, TypeOK
  <2>3. /\ comments' \in [Comments -> {"none", "live", "deleted", "gone"}]
        /\ skewed' \in SUBSET (Columns \cup Users \cup Comments)
    BY <1>1, <1>2, <2>1, <2>2
  <2>4. QED
    BY <1>1, <1>5, <2>3 DEF IInv, Typed, TypeOK, Steps, Jobs
<1>7. CountersExact'
  <2>1. CASE revived
    BY <1>1, <2>1 DEF IInv, CountersExact
  <2>2. CASE ~ revived
    <3>1. UNCHANGED <<post, likes, comments, reactionsCount, commentsCount, skewed>>
      BY <1>1, <2>2
    <3>2. QED
      BY <3>1, QuietCounters DEF IInv
  <2>3. QED
    BY <2>1, <2>2
<1>8. EventsBalance'
  <2>1. \A x \in (Users \cup Comments) \ skewed' : Row(x)' = Row(x)
    BY <1>1, <1>2, <1>4 DEF Row, LiveComments
  <2>2. skewed \subseteq skewed'
    BY <1>1
  <2>3. QED
    BY <1>1, <1>2, <1>5, <2>1, <2>2, OwingSame, QuietBalance DEF IInv
<1>9. QED
  BY <1>5, <1>6, <1>7, <1>8 DEF IInv

LEMMA EmitKeeps ==
    ASSUME IInv, NEW r \in Requests, NEW step \in EmitSteps,
           Emit(r, step, IF step = "emitCreated" THEN 1 ELSE -1)
    PROVE  IInv'
<1>0. PICK x : x = job[r].subject
  OBVIOUS
<1> DEFINE n == IF step = "emitCreated" THEN 1 ELSE -1
<1>1. /\ pc[r] = step /\ Finish(r, "done") /\ UNCHANGED <<db, skewed>>
      /\ announced' = [announced EXCEPT ![x] = announced[x] + n]
  BY <1>0 DEF Emit
<1>2. UNCHANGED <<accounts, post, likes, comments, reactionsCount, commentsCount>>
  BY <1>1 DEF db, rows
<1>3. x \in Users \cup Comments
  BY <1>0, <1>1, JobOf DEF IInv, Fits
<1>4. /\ pc' \in [Requests -> Steps] /\ job' \in [Requests -> Jobs]
      /\ \A q \in Requests : Fits(pc'[q], job'[q])
      /\ Fresh' /\ Await(r, "done", NoJob) /\ "done" \notin EmitSteps
  BY <1>1, <1>2, EndMoves DEF Outcomes
<1>5. Typed'
  <2>1. announced \in [Users \cup Comments -> Int] /\ n \in Int
    BY DEF IInv, Typed, TypeOK
  <2> HIDE DEF n
  <2>2. announced' \in [Users \cup Comments -> Int]
    BY <1>1, <1>3, <2>1
  <2>3. QED
    BY <1>1, <1>2, <1>4, <2>2 DEF IInv, Typed, TypeOK, Steps, Jobs
<1>6. CountersExact'
  BY <1>1, <1>2, QuietCounters DEF IInv
<1>7. EventsBalance'
  <2> SUFFICES ASSUME NEW y \in (Users \cup Comments) \ skewed
               PROVE  announced'[y] + Cardinality(Owing("emitCreated", y)') =
                        Row(y) + Cardinality(Owing("emitRemoved", y)')
    BY <1>1, <1>2 DEF EventsBalance, Row, LiveComments
  <2>1. \A s \in EmitSteps :
          Cardinality(Owing(s, y)') = IF s = step /\ y = x THEN Cardinality(Owing(s, y)) - 1
                                                           ELSE Cardinality(Owing(s, y))
    BY <1>0, <1>1, <1>4, OwingShrinks DEF IInv
  <2>2. announced'[y] = IF y = x THEN announced[y] + n ELSE announced[y]
    BY <1>1 DEF IInv, Typed, TypeOK
  <2>3. announced[y] + Cardinality(Owing("emitCreated", y)) =
          Row(y) + Cardinality(Owing("emitRemoved", y))
    BY DEF IInv, EventsBalance
  <2>4. announced[y] \in Int /\ Row(y) \in Int
    BY DEF IInv, Typed, TypeOK, Row
  <2>5. /\ Cardinality(Owing("emitCreated", y)) \in Int
        /\ Cardinality(Owing("emitRemoved", y)) \in Int
    BY OwingFinite
  <2>6. CASE step = "emitCreated"
    BY <2>1, <2>2, <2>3, <2>4, <2>5, <2>6 DEF EmitSteps
  <2>7. CASE step = "emitRemoved"
    BY <2>1, <2>2, <2>3, <2>4, <2>5, <2>7 DEF EmitSteps
  <2>8. QED
    BY <2>6, <2>7 DEF EmitSteps
<1>8. QED
  BY <1>4, <1>5, <1>6, <1>7 DEF IInv

LEMMA EmitsKeep ==
    ASSUME IInv, NEW r \in Requests, EmitCreated(r) \/ EmitRemoved(r)
    PROVE  IInv'
BY EmitKeeps DEF EmitCreated, EmitRemoved, EmitSteps

LEMMA PostSaveKeeps ==
    ASSUME IInv, NEW r \in Requests, PostSave(r)
    PROVE  IInv'
<1> DEFINE dirty == IF post = "gone" THEN {} ELSE job[r].dirty
<1>1. /\ pc[r] = "postSave" /\ Finish(r, "done")
      /\ reactionsCount' =
           IF "reactionsCount" \in dirty THEN job[r].reactionsCount ELSE reactionsCount
      /\ commentsCount' =
           IF "commentsCount" \in dirty THEN job[r].commentsCount ELSE commentsCount
      /\ skewed' = skewed \cup dirty
      /\ UNCHANGED <<rows, announced>>
  BY DEF PostSave
<1>2. dirty \subseteq Columns
  BY <1>1, JobOf DEF IInv, Fits
<1> HIDE DEF dirty
<1>3. pc[r] \notin EmitSteps /\ UNCHANGED <<accounts, post, likes, comments>>
  BY <1>1 DEF EmitSteps, rows
<1>4. /\ pc' \in [Requests -> Steps] /\ job' \in [Requests -> Jobs]
      /\ \A q \in Requests : Fits(pc'[q], job'[q])
      /\ Fresh' /\ Await(r, "done", NoJob) /\ "done" \notin EmitSteps
  BY <1>1, <1>3, EndMoves DEF Outcomes
<1>5. Typed'
  <2>1. job[r].reactionsCount \in Int /\ job[r].commentsCount \in Int
    BY JobOf DEF IInv
  <2>2. /\ reactionsCount \in Int /\ commentsCount \in Int
        /\ skewed \in SUBSET (Columns \cup Users \cup Comments)
    BY DEF IInv, Typed, TypeOK
  <2>3. /\ reactionsCount' \in Int /\ commentsCount' \in Int
        /\ skewed' \in SUBSET (Columns \cup Users \cup Comments)
    BY <1>1, <1>2, <2>1, <2>2
  <2>4. QED
    BY <1>1, <1>3, <1>4, <2>3 DEF IInv, Typed, TypeOK, Steps, Jobs
<1>6. CountersExact'
  BY <1>1, <1>3 DEF IInv, CountersExact, LiveComments
<1>7. EventsBalance'
  <2>1. \A x : Row(x)' = Row(x)
    BY <1>3 DEF Row, LiveComments
  <2>2. skewed \subseteq skewed'
    BY <1>1
  <2>3. QED
    BY <1>1, <1>3, <1>4, <2>1, <2>2, OwingSame, QuietBalance DEF IInv
<1>8. QED
  BY <1>4, <1>5, <1>6, <1>7 DEF IInv

LEMMA PostDeleteKeeps ==
    ASSUME IInv, NEW r \in Requests, PostDelete(r)
    PROVE  IInv'
<1>1. /\ pc[r] = "postDelete" /\ Finish(r, "done")
      /\ post' = IF post = "gone" THEN "gone" ELSE "deleted"
      /\ UNCHANGED <<accounts, likes, comments, reactionsCount, commentsCount, announced, skewed>>
  BY DEF PostDelete
<1>2. pc[r] \notin EmitSteps
  BY <1>1 DEF EmitSteps
<1>3. /\ pc' \in [Requests -> Steps] /\ job' \in [Requests -> Jobs]
      /\ \A q \in Requests : Fits(pc'[q], job'[q])
      /\ Fresh' /\ Await(r, "done", NoJob) /\ "done" \notin EmitSteps
  BY <1>1, EndMoves DEF Outcomes
<1>4. Typed'
  BY <1>1, <1>3 DEF IInv, Typed, TypeOK, Steps, Jobs
<1>5. CountersExact'
  BY <1>1 DEF IInv, CountersExact, LiveComments
<1>6. EventsBalance'
  <2>1. \A x : Row(x)' = Row(x)
    BY <1>1 DEF Row, LiveComments
  <2>2. QED
    BY <1>1, <1>2, <1>3, <2>1, OwingSame, QuietBalance DEF IInv
<1>7. QED
  BY <1>3, <1>4, <1>5, <1>6 DEF IInv

(* A cascade takes rows and adjusts no counter, which skewed remembers.      *)
LEMMA DeleteAccountKeeps ==
    ASSUME IInv, NEW u \in Users, DeleteAccount(u)
    PROVE  IInv'
<1> DEFINE whole == u = PostAuthor
           lost == {c \in Comments : (whole \/ Writer[c] = u) /\ comments[c] \in {"live", "deleted"}}
           unliked == IF whole THEN likes ELSE likes \cap {u}
<1>1. /\ accounts' = accounts \ {u}
      /\ post' = IF whole THEN "gone" ELSE post
      /\ likes' = likes \ unliked
      /\ comments' = [c \in Comments |-> IF c \in lost THEN "gone" ELSE comments[c]]
      /\ reactionsCount' = IF whole THEN 0 ELSE reactionsCount
      /\ commentsCount' = IF whole THEN 0 ELSE commentsCount
      /\ skewed' = skewed \cup unliked \cup lost
                     \cup (IF unliked = {} THEN {} ELSE {"reactionsCount"})
                     \cup (IF lost \cap LiveComments = {} THEN {} ELSE {"commentsCount"})
      /\ UNCHANGED <<announced, pc, job>>
  BY DEF DeleteAccount
<1>2. lost \subseteq Comments /\ \A c \in lost : comments[c] # "none"
  OBVIOUS
<1>3. unliked \subseteq likes
  OBVIOUS
<1> HIDE DEF lost, unliked, whole
<1>4. Typed'
  <2>1. {"reactionsCount", "commentsCount"} \subseteq Columns
    BY DEF Columns
  <2>2. /\ accounts \in SUBSET Users /\ likes \in SUBSET Users
        /\ post \in {"live", "deleted", "gone"}
        /\ comments \in [Comments -> {"none", "live", "deleted", "gone"}]
        /\ reactionsCount \in Int /\ commentsCount \in Int
        /\ skewed \in SUBSET (Columns \cup Users \cup Comments)
    BY DEF IInv, Typed, TypeOK
  <2>3. skewed' \in SUBSET (Columns \cup Users \cup Comments)
    BY <1>1, <1>2, <1>3, <2>1, <2>2
  <2>4. /\ accounts' \in SUBSET Users /\ likes' \in SUBSET Users
        /\ post' \in {"live", "deleted", "gone"}
        /\ comments' \in [Comments -> {"none", "live", "deleted", "gone"}]
        /\ reactionsCount' \in Int /\ commentsCount' \in Int
    BY <1>1, <2>2
  <2>5. QED
    BY <1>1, <2>3, <2>4 DEF IInv, Typed, TypeOK, Steps, Jobs
<1>5. Fresh'
  <2>1. \A c \in Comments : comments[c] = "none" => comments'[c] = "none"
    BY <1>1, <1>2
  <2>2. \A q \in Requests : pc[q] = "commentTx" => job[q].subject \in Comments
    BY JobOf DEF IInv, Fits, CommentSteps
  <2>3. QED
    BY <1>1, <2>1, <2>2 DEF IInv, Fresh
<1>6. LiveComments' = LiveComments \ lost
  BY <1>1, <1>2 DEF LiveComments
<1>7. CountersExact'
  <2>1. CASE whole
    BY <1>1, <2>1 DEF CountersExact
  <2>2. CASE ~ whole
    <3>1. UNCHANGED <<post, reactionsCount, commentsCount>>
      BY <1>1, <2>2
    <3>2. "reactionsCount" \notin skewed' => likes' = likes
      BY <1>1
    <3>3. "commentsCount" \notin skewed' => LiveComments' = LiveComments
      BY <1>1, <1>6
    <3>4. skewed \subseteq skewed'
      BY <1>1
    <3>5. QED
      BY <3>1, <3>2, <3>3, <3>4 DEF IInv, CountersExact
  <2>3. QED
    BY <2>1, <2>2
<1>8. EventsBalance'
  <2>1. \A x \in (Users \cup Comments) \ skewed' : Row(x)' = Row(x)
    BY <1>1, <1>6 DEF Row
  <2>2. skewed \subseteq skewed'
    BY <1>1
  <2>3. \A s \in EmitSteps : \A x : Owing(s, x)' = Owing(s, x)
    BY <1>1 DEF Owing
  <2>4. QED
    BY <1>1, <2>1, <2>2, <2>3, QuietBalance DEF IInv
<1>9. QED
  BY <1>4, <1>5, <1>7, <1>8 DEF IInv

-----------------------------------------------------------------------------
(* The invariant holds.                                                      *)

LEMMA NextKeeps == IInv /\ [Next]_vars => IInv'
<1>1. ASSUME IInv, NEW r \in Requests, Continue(r)
      PROVE  IInv'
  BY <1>1, LookupsKeep, FailuresKeep, CommentReloadKeeps, PostReloadKeeps,
     ReactCommitKeeps, UnreactCommitKeeps, CommentCommitKeeps, UncommentCommitKeeps,
     CommentSaveKeeps, EmitsKeep, PostSaveKeeps, PostDeleteKeeps
  DEF Continue
<1>2. ASSUME IInv, UNCHANGED vars
      PROVE  IInv'
  <2>1. UNCHANGED <<accounts, post, likes, comments, reactionsCount, commentsCount,
                    announced, pc, job, skewed>>
    BY <1>2 DEF vars, db, rows
  <2>2. Typed'
    BY <1>2, <2>1 DEF IInv, Typed, TypeOK
  <2>3. Fresh'
    BY <1>2, <2>1 DEF IInv, Fresh
  <2>4. CountersExact'
    BY <1>2, <2>1, QuietCounters DEF IInv
  <2>5. EventsBalance'
    BY <1>2, <2>1, QuietBalance DEF IInv, Owing, Row, LiveComments
  <2>6. QED
    BY <2>2, <2>3, <2>4, <2>5 DEF IInv
<1>3. QED
  BY <1>1, <1>2, ArriveKeeps, DeleteAccountKeeps DEF Next

LEMMA InitHolds == Init => IInv
<1> SUFFICES ASSUME Init PROVE IInv
  OBVIOUS
<1>1. NoJob \in Jobs
  BY JobForFields DEF NoJob
<1>2. TypeOK
  BY <1>1 DEF Init, TypeOK, Jobs
<1>3. \A r \in Requests : Fits(pc[r], job[r])
  BY <1>1, StepSets DEF Init, Fits
<1>4. Fresh
  BY DEF Init, Fresh
<1>5. likes = {} /\ LiveComments = {}
  BY DEF Init, LiveComments
<1>6. CountersExact
  BY <1>5, FS_EmptySet DEF Init, CountersExact
<1>7. EventsBalance
  <2> SUFFICES ASSUME NEW x \in Users \cup Comments
               PROVE  announced[x] + Cardinality(Owing("emitCreated", x)) =
                        Row(x) + Cardinality(Owing("emitRemoved", x))
    BY DEF EventsBalance
  <2>1. Owing("emitCreated", x) = {} /\ Owing("emitRemoved", x) = {}
    BY DEF Init, Owing
  <2>2. announced[x] = 0 /\ Row(x) = 0
    BY <1>5 DEF Init, Row
  <2>3. QED
    BY <2>1, <2>2, FS_EmptySet
<1>8. QED
  BY <1>2, <1>3, <1>4, <1>6, <1>7 DEF IInv, Typed

LEMMA InvariantHolds == Spec => []IInv
BY InitHolds, NextKeeps, PTL DEF Spec

(* Every variable keeps its type, with any number of users, comments and     *)
(* concurrent requests; the counters of the post stay integers, of any sign. *)
THEOREM TypesCorrect == Spec => []TypeOK
<1>1. IInv => TypeOK
  BY DEF IInv, Typed
<1>2. QED
  BY <1>1, InvariantHolds, PTL

(* InteractionsService, updatePost and the cascades keep reactionsCount and  *)
(* commentsCount equal to the likes and the comments that are shown, except  *)
(* for the races that CountersExact names, for any number of requests.       *)
THEOREM CountersStayExact == Spec => []CountersExact
<1>1. IInv => CountersExact
  BY DEF IInv
<1>2. QED
  BY <1>1, InvariantHolds, PTL

(* The created and removed events of a like or of a comment say whether it   *)
(* exists as soon as no announcement of it is outstanding.                   *)
THEOREM EventsStayMatched == Spec => []EventsMatchRows
<1>1. IInv => EventsMatchRows
  <2> SUFFICES ASSUME IInv, NEW x \in (Users \cup Comments) \ skewed, ~ Announcing(x)
               PROVE  announced[x] = Row(x)
    BY DEF EventsMatchRows, Row
  <2>1. Owing("emitCreated", x) = {} /\ Owing("emitRemoved", x) = {}
    BY DEF Announcing, Owing
  <2>2. announced[x] + 0 = Row(x) + 0
    BY <2>1, FS_EmptySet DEF IInv, EventsBalance
  <2>3. announced[x] \in Int /\ Row(x) \in Int
    BY DEF IInv, Typed, TypeOK, Row
  <2>4. QED
    BY <2>2, <2>3
<1>2. QED
  BY <1>1, InvariantHolds, PTL

=============================================================================
