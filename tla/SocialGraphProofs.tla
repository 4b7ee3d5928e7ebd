-------------------------- MODULE SocialGraphProofs --------------------------
(***************************************************************************)
(* TLAPS proofs about SocialGraph, for every finite set of accounts and of *)
(* requests.  The invariants are carried by the types, by what a request   *)
(* in flight holds in its job, by what an open transaction has written and *)
(* locked (Held) and, for the events, by the announcements still owed.     *)
(***************************************************************************)
EXTENDS SocialGraph, FiniteSetTheorems, TLAPS

PairSteps == {"followTx", "unfollowTx"} \cup HeldSteps \cup EmitSteps

(* A request between two steps holds real accounts, and two different ones   *)
(* when it is about to insert a row.                                         *)
JobsOK ==
    \A r \in Requests :
        /\ pc[r] \in PairSteps \cup {"deleteTx"} \cup SaveSteps => job[r].actor \in Users
        /\ pc[r] \in PairSteps => job[r].target \in Users
        /\ pc[r] = "followTx" => job[r].actor # job[r].target

Typed == TypeOK /\ JobsOK

-----------------------------------------------------------------------------
(* What each part of a request's control does to the types.                  *)

LEMMA AwaitTyped ==
    ASSUME Typed, NEW r \in Requests, NEW args \in Jobs,
           NEW step \in Steps,
           Await(r, step, args),
           step \in PairSteps \cup {"deleteTx"} \cup SaveSteps => args.actor \in Users,
           step \in PairSteps => args.target \in Users,
           step = "followTx" => args.actor # args.target
    PROVE  /\ pc' \in [Requests -> Steps]
           /\ job' \in [Requests -> Jobs]
           /\ JobsOK'
<1>1. pc' = [pc EXCEPT ![r] = step] /\ job' = [job EXCEPT ![r] = args]
  BY DEF Await
<1>2. /\ pc \in [Requests -> Steps]
      /\ job \in [Requests -> Jobs]
  BY DEF Typed, TypeOK
<1>3. \A q \in Requests : q # r => pc'[q] = pc[q] /\ job'[q] = job[q]
  BY <1>1, <1>2
<1>4. pc'[r] = step /\ job'[r] = args
  BY <1>1, <1>2
<1>5. JobsOK'
  BY <1>3, <1>4 DEF Typed, JobsOK
<1>6. QED
  BY <1>1, <1>2, <1>5

LEMMA JobForTyped ==
    ASSUME NEW a \in Users \cup {NoUser}, NEW t \in Users \cup {NoUser},
           NEW f \in Int, NEW g \in Int, NEW d \in SUBSET Columns
    PROVE  /\ JobFor(a, t, f, g, d) \in Jobs
           /\ JobFor(a, t, f, g, d).actor = a
           /\ JobFor(a, t, f, g, d).target = t
BY DEF JobFor, Jobs

LEMMA NoJobTyped == NoJob \in Jobs
BY JobForTyped DEF NoJob

LEMMA FinishTyped ==
    ASSUME Typed, NEW r \in Requests, NEW outcome \in Outcomes, Finish(r, outcome)
    PROVE  /\ pc' \in [Requests -> Steps]
           /\ job' \in [Requests -> Jobs]
           /\ JobsOK'
<1>1. outcome \notin PairSteps \cup {"deleteTx"} \cup SaveSteps
  BY DEF Outcomes, PairSteps, SaveSteps, EmitSteps, HeldSteps
<1>0. outcome \in Steps
  BY DEF Steps
<1>2. outcome # "followTx"
  BY DEF Outcomes
<1>3. QED
  BY <1>0, <1>1, <1>2, NoJobTyped, AwaitTyped DEF Finish

LEMMA ShowCountersTyped ==
    ASSUME Typed, NEW r \in Requests, ShowCounters(r)
    PROVE  /\ followersCount' \in [Users -> Int]
           /\ followingCount' \in [Users -> Int]
<1>1. job[r].followersCount \in Int /\ job[r].followingCount \in Int
  BY DEF Typed, TypeOK, Jobs
<1>2. QED
  BY <1>1 DEF Typed, TypeOK, ShowCounters

-----------------------------------------------------------------------------
(* Every action keeps the types.                                             *)

LEMMA ControlTyped ==
    ASSUME Typed, UNCHANGED <<db, published, history>>,
           pc' \in [Requests -> Steps], job' \in [Requests -> Jobs], JobsOK'
    PROVE  Typed'
BY DEF Typed, TypeOK, db, history

LEMMA JobOf ==
    ASSUME Typed, NEW r \in Requests
    PROVE  /\ job[r] \in Jobs
           /\ pc[r] \in Steps
           /\ pc[r] \in PairSteps \cup {"deleteTx"} \cup SaveSteps => job[r].actor \in Users
           /\ pc[r] \in PairSteps => job[r].target \in Users
           /\ pc[r] = "followTx" => job[r].actor # job[r].target
BY DEF Typed, TypeOK, JobsOK

LEMMA FollowTyped ==
    ASSUME Typed, NEW r \in Requests, NEW a \in Users, NEW t \in Users, Follow(r, a, t)
    PROVE  Typed'
<1>1. UNCHANGED <<db, published, history>>
  BY DEF Follow, Begin
<1>2. CASE Await(r, "followTx", PairJob(a, t)) /\ a # t
  <2>1. PairJob(a, t) \in Jobs /\ PairJob(a, t).actor = a /\ PairJob(a, t).target = t
    BY JobForTyped DEF PairJob
  <2>2. "followTx" \in Steps
    BY DEF Steps, TxSteps
  <2>3. QED
    BY <1>1, <1>2, <2>1, <2>2, AwaitTyped, ControlTyped
<1>3. CASE Finish(r, "rejected")
  BY <1>1, <1>3, FinishTyped, ControlTyped DEF Outcomes
<1>4. QED
  BY <1>2, <1>3 DEF Follow, Begin

LEMMA UnfollowTyped ==
    ASSUME Typed, NEW r \in Requests, NEW a \in Users, NEW t \in Users, Unfollow(r, a, t)
    PROVE  Typed'
<1>1. UNCHANGED <<db, published, history>>
  BY DEF Unfollow, Begin
<1>2. CASE Await(r, "unfollowTx", PairJob(a, t))
  <2>1. PairJob(a, t) \in Jobs /\ PairJob(a, t).actor = a /\ PairJob(a, t).target = t
    BY JobForTyped DEF PairJob
  <2>2. "unfollowTx" \in Steps
    BY DEF Steps, TxSteps
  <2>3. QED
    BY <1>1, <1>2, <2>1, <2>2, AwaitTyped, ControlTyped
<1>3. CASE Finish(r, "rejected")
  BY <1>1, <1>3, FinishTyped, ControlTyped DEF Outcomes
<1>4. QED
  BY <1>2, <1>3 DEF Unfollow, Begin

LEMMA DeleteAccountTyped ==
    ASSUME Typed, NEW r \in Requests, NEW u \in Users, DeleteAccount(r, u)
    PROVE  Typed'
<1>1. UNCHANGED <<db, published, history>>
  BY DEF DeleteAccount, Begin
<1>2. CASE Await(r, "deleteTx", AccountJob(u))
  <2>1. AccountJob(u) \in Jobs /\ AccountJob(u).actor = u
    BY DEF AccountJob, JobFor, Jobs
  <2>2. "deleteTx" \in Steps /\ "deleteTx" \notin PairSteps
    BY DEF Steps, TxSteps, PairSteps, EmitSteps, HeldSteps
  <2>3. QED
    BY <1>1, <1>2, <2>1, <2>2, AwaitTyped, ControlTyped
<1>3. CASE Finish(r, "rejected")
  BY <1>1, <1>3, FinishTyped, ControlTyped DEF Outcomes
<1>4. QED
  BY <1>2, <1>3 DEF DeleteAccount, Begin

LEMMA SaveReadTyped ==
    ASSUME Typed, NEW r \in Requests, NEW u \in Users, SaveRead(r, u)
    PROVE  Typed'
<1> DEFINE args == JobFor(u, NoUser, followersCount[u], followingCount[u], {})
<1>1. UNCHANGED <<db, published, history>>
  BY DEF SaveRead, Begin
<1>2. CASE Await(r, "reload", args)
  <2>0. followersCount[u] \in Int /\ followingCount[u] \in Int
    BY DEF Typed, TypeOK
  <2>1. args \in Jobs /\ args.actor = u
    BY <2>0 DEF JobFor, Jobs
  <2>2. "reload" \in Steps /\ "reload" \notin PairSteps
    BY DEF Steps, SaveSteps, PairSteps, EmitSteps, HeldSteps
  <2> HIDE DEF args
  <2>3. QED
    BY <1>1, <1>2, <2>1, <2>2, AwaitTyped, ControlTyped
<1>3. CASE Finish(r, "rejected")
  BY <1>1, <1>3, FinishTyped, ControlTyped DEF Outcomes
<1>4. QED
  BY <1>2, <1>3 DEF SaveRead, Begin

LEMMA ArriveTyped ==
    ASSUME Typed, NEW r \in Requests, Arrive(r)
    PROVE  Typed'
BY FollowTyped, UnfollowTyped, DeleteAccountTyped, SaveReadTyped DEF Arrive

(* Goto keeps the arguments, so it only has to move between steps that need  *)
(* no more of them.                                                          *)
LEMMA GotoTyped ==
    ASSUME Typed, NEW r \in Requests, NEW step \in Steps, Goto(r, step),
           step \in PairSteps => pc[r] \in PairSteps,
           step \in {"deleteTx"} \cup SaveSteps => pc[r] \in {"deleteTx"} \cup SaveSteps,
           step # "followTx"
    PROVE  /\ pc' \in [Requests -> Steps]
           /\ job' \in [Requests -> Jobs]
           /\ JobsOK'
<1>1. pc' = [pc EXCEPT ![r] = step] /\ job' = job
  BY DEF Goto
<1>2. pc \in [Requests -> Steps] /\ job \in [Requests -> Jobs]
  BY DEF Typed, TypeOK
<1>3. JobsOK'
  <2> SUFFICES ASSUME NEW q \in Requests
               PROVE  /\ pc'[q] \in PairSteps \cup {"deleteTx"} \cup SaveSteps => job[q].actor \in Users
                      /\ pc'[q] \in PairSteps => job[q].target \in Users
                      /\ pc'[q] = "followTx" => job[q].actor # job[q].target
    BY <1>1 DEF JobsOK
  <2>1. CASE q = r
    BY <2>1, <1>1, <1>2, JobOf
  <2>2. CASE q # r
    <3>1. pc'[q] = pc[q]
      BY <2>2, <1>1, <1>2
    <3>2. QED
      BY <3>1, JobOf
  <2>3. QED
    BY <2>1, <2>2
<1>4. QED
  BY <1>1, <1>2, <1>3

LEMMA StepNames ==
    /\ "done" \in Outcomes /\ "failed" \in Outcomes /\ "rejected" \in Outcomes
    /\ HeldSteps = {"targetTx", "actorTx", "commitTx"} /\ HeldSteps \subseteq Steps
    /\ EmitSteps = {"emitFollowed", "emitUnfollowed"} /\ EmitSteps \subseteq Steps
    /\ SaveSteps = {"reload", "update", "insert"} /\ SaveSteps \subseteq Steps
    /\ TxSteps = {"followTx", "unfollowTx", "deleteTx", "targetTx", "actorTx", "commitTx"}
    /\ PairSteps = {"followTx", "unfollowTx"} \cup HeldSteps \cup EmitSteps
BY DEF Outcomes, PairSteps, HeldSteps, EmitSteps, TxSteps, SaveSteps, Steps

(* A transaction's next statement, and the announcement after its commit,    *)
(* are about the same pair.                                                  *)
LEMMA PairAwaitTyped ==
    ASSUME Typed, NEW r \in Requests, pc[r] \in PairSteps,
           NEW step \in HeldSteps \cup EmitSteps, NEW args \in Jobs, Await(r, step, args),
           args.actor = job[r].actor, args.target = job[r].target
    PROVE  /\ pc' \in [Requests -> Steps]
           /\ job' \in [Requests -> Jobs]
           /\ JobsOK'
<1>1. step \in Steps /\ step # "followTx"
  BY StepNames
<1>2. job[r].actor \in Users /\ job[r].target \in Users
  BY JobOf
<1>3. QED
  BY <1>1, <1>2, AwaitTyped

LEMMA EmitJobTyped ==
    ASSUME Typed, NEW r \in Requests, pc[r] \in PairSteps
    PROVE  /\ EmitJob(r) \in Jobs
           /\ EmitJob(r).actor = job[r].actor
           /\ EmitJob(r).target = job[r].target
BY JobOf DEF EmitJob, PairJob, JobFor, Jobs

(* An increment writes its column of the job and nothing else of it.         *)
LEMMA WrittenTyped ==
    ASSUME NEW j \in Jobs, NEW v \in Int,
           NEW w \in SUBSET (Columns \cup {"row"})
    PROVE  /\ [j EXCEPT !.followersCount = v, !.writes = w] \in Jobs
           /\ [j EXCEPT !.followingCount = v, !.writes = w] \in Jobs
BY DEF Jobs

LEMMA StatementTyped ==
    ASSUME Typed, NEW r \in Requests,
           FollowInsert(r) \/ UnfollowDelete(r) \/ IncrementTarget(r) \/ IncrementActor(r)
    PROVE  Typed'
<1>0. job[r] \in Jobs /\ UNCHANGED <<db, published, history>> /\ pc[r] \in PairSteps
  BY JobOf, StepNames DEF FollowInsert, UnfollowDelete, IncrementTarget, IncrementActor
<1>1. ASSUME NEW step \in HeldSteps, NEW args \in Jobs, Await(r, step, args),
             args.actor = job[r].actor, args.target = job[r].target
      PROVE  Typed'
  BY <1>0, <1>1, PairAwaitTyped, ControlTyped
<1>2. "targetTx" \in HeldSteps /\ "actorTx" \in HeldSteps /\ "commitTx" \in HeldSteps
  BY StepNames
<1>3. ASSUME NEW w \in SUBSET (Columns \cup {"row"}), NEW n \in {-1, 0, 1}
      PROVE  /\ [job[r] EXCEPT !.writes = w, !.n = n] \in Jobs
             /\ [job[r] EXCEPT !.writes = w, !.n = n].actor = job[r].actor
             /\ [job[r] EXCEPT !.writes = w, !.n = n].target = job[r].target
  BY <1>0, <1>3 DEF Jobs
<1>4. CASE FollowInsert(r)
  BY <1>1, <1>2, <1>3, <1>4 DEF FollowInsert
<1>5. CASE UnfollowDelete(r)
  <2> DEFINE w == IF Pair(r) \in follows THEN {"row"} ELSE {}
  <2>1. w \in SUBSET (Columns \cup {"row"})
    OBVIOUS
  <2>2. Await(r, "targetTx", [job[r] EXCEPT !.writes = w, !.n = -1])
    BY <1>5 DEF UnfollowDelete
  <2> HIDE DEF w
  <2>3. QED
    BY <1>1, <1>2, <1>3, <2>1, <2>2
<1>6. CASE IncrementTarget(r)
  <2> DEFINE t == job[r].target
             v == followersCount[t] + job[r].n
             w == job[r].writes \cup {"followersCount"}
             args == [job[r] EXCEPT !.followersCount = v, !.writes = w]
  <2>1. t \in Users /\ followersCount \in [Users -> Int]
    BY <1>0, JobOf DEF Typed, TypeOK
  <2>2. v \in Int /\ w \in SUBSET (Columns \cup {"row"})
    BY <1>0, <2>1 DEF Jobs, Columns
  <2>3. args \in Jobs /\ args.actor = job[r].actor /\ args.target = t
    <3> HIDE DEF v, w
    <3>1. QED
      BY <1>0, <2>2, WrittenTyped DEF Jobs
  <2>4. Await(r, "actorTx", IF t \in accounts THEN args ELSE job[r])
    BY <1>6 DEF IncrementTarget
  <2> HIDE DEF args
  <2>5. QED
    BY <1>0, <1>1, <1>2, <2>3, <2>4
<1>7. CASE IncrementActor(r)
  <2> DEFINE a == job[r].actor
             v == followingCount[a] + job[r].n
             w == job[r].writes \cup {"followingCount"}
             args == [job[r] EXCEPT !.followingCount = v, !.writes = w]
  <2>1. a \in Users /\ followingCount \in [Users -> Int]
    BY <1>0, JobOf DEF Typed, TypeOK
  <2>2. v \in Int /\ w \in SUBSET (Columns \cup {"row"})
    BY <1>0, <2>1 DEF Jobs, Columns
  <2>3. args \in Jobs /\ args.actor = a /\ args.target = job[r].target
    <3> HIDE DEF v, w
    <3>1. QED
      BY <1>0, <2>2, WrittenTyped DEF Jobs
  <2>4. Await(r, "commitTx", IF a \in accounts THEN args ELSE job[r])
    BY <1>7 DEF IncrementActor
  <2> HIDE DEF args
  <2>5. QED
    BY <1>0, <1>1, <1>2, <2>3, <2>4
<1>8. QED
  BY <1>4, <1>5, <1>6, <1>7

LEMMA ContinueTyped ==
    ASSUME Typed, NEW r \in Requests, Continue(r)
    PROVE  Typed'
<1>1. CASE FollowCommit(r)
  <2>1. job[r].actor \in Users /\ job[r].target \in Users
    BY <1>1, JobOf, StepNames DEF FollowCommit
  <2>2. pc' \in [Requests -> Steps] /\ job' \in [Requests -> Jobs] /\ JobsOK'
    BY <1>1, PairAwaitTyped, EmitJobTyped, StepNames DEF FollowCommit
  <2>3. followersCount' \in [Users -> Int] /\ followingCount' \in [Users -> Int]
    BY <1>1, ShowCountersTyped DEF FollowCommit
  <2>4. follows' \in SUBSET Pairs
    BY <1>1, <2>1 DEF FollowCommit, Typed, TypeOK, Pairs, Pair
  <2>5. QED
    BY <1>1, <2>2, <2>3, <2>4 DEF FollowCommit, Typed, TypeOK, history
<1>2. CASE FollowConflict(r)
  BY <1>2, FinishTyped, ControlTyped, StepNames DEF FollowConflict
<1>3. CASE UnfollowCommit(r)
  <2>1. job[r].actor \in Users /\ job[r].target \in Users
    BY <1>3, JobOf, StepNames DEF UnfollowCommit
  <2>2. pc' \in [Requests -> Steps] /\ job' \in [Requests -> Jobs] /\ JobsOK'
    BY <1>3, PairAwaitTyped, EmitJobTyped, StepNames DEF UnfollowCommit
  <2>3. followersCount' \in [Users -> Int] /\ followingCount' \in [Users -> Int]
    BY <1>3, ShowCountersTyped DEF UnfollowCommit
  <2>4. follows' \in SUBSET Pairs /\ skewed' \in SUBSET Users /\ blind' \in SUBSET Pairs
    BY <1>3, <2>1 DEF UnfollowCommit, Typed, TypeOK, Pairs, Pair
  <2>5. QED
    BY <1>3, <2>2, <2>3, <2>4 DEF UnfollowCommit, Typed, TypeOK
<1>4. ASSUME NEW step \in EmitSteps, NEW n \in Int, Emit(r, step, n)
      PROVE  Typed'
  <2>1. pc' \in [Requests -> Steps] /\ job' \in [Requests -> Jobs] /\ JobsOK'
    BY <1>4, FinishTyped, StepNames DEF Emit
  <2>2. published' \in [Pairs -> Int]
    <3>1. Pair(r) \in Pairs
      BY <1>4, JobOf DEF Emit, PairSteps, Pair, Pairs
    <3>2. QED
      BY <1>4, <3>1 DEF Emit, Typed, TypeOK
  <2>3. QED
    BY <1>4, <2>1, <2>2 DEF Emit, Typed, TypeOK, db, history
<1>5. CASE DeleteCommit(r)
  <2>1. pc' \in [Requests -> Steps] /\ job' \in [Requests -> Jobs] /\ JobsOK'
    BY <1>5, FinishTyped, StepNames DEF DeleteCommit
  <2>2. followersCount' \in [Users -> Int] /\ followingCount' \in [Users -> Int]
    <3>1. job[r].actor \in Users
      BY <1>5, JobOf DEF DeleteCommit
    <3>2. QED
      BY <1>5, <3>1 DEF DeleteCommit, Typed, TypeOK
  <2>3. skewed' \in SUBSET Users /\ blind' \in SUBSET Pairs
    BY <1>5 DEF DeleteCommit, Typed, TypeOK, Followers, Following, Edges
  <2>4. QED
    BY <1>5, <2>1, <2>2, <2>3 DEF DeleteCommit, Typed, TypeOK
<1>6. CASE TxAborted(r)
  BY <1>6, FinishTyped, ControlTyped, StepNames DEF TxAborted
<1>7. CASE SaveReload(r)
  <2>1. UNCHANGED <<db, published, history>>
    BY <1>7 DEF SaveReload
  <2>2. CASE Goto(r, "insert")
    BY <1>7, <2>1, <2>2, GotoTyped, ControlTyped, StepNames DEF SaveReload
  <2>3. ASSUME NEW d \in SUBSET Columns,
               Await(r, "update", JobFor(job[r].actor, NoUser, job[r].followersCount,
                                         job[r].followingCount, d))
        PROVE  Typed'
    <3> DEFINE args == JobFor(job[r].actor, NoUser, job[r].followersCount,
                              job[r].followingCount, d)
    <3>1. job[r].actor \in Users
      BY <1>7, JobOf, StepNames DEF SaveReload
    <3>2. job[r].followersCount \in Int /\ job[r].followingCount \in Int
      BY JobOf DEF Jobs
    <3>3. args \in Jobs /\ args.actor \in Users
      BY <3>1, <3>2 DEF JobFor, Jobs
    <3>4. "update" \in Steps /\ "update" \notin PairSteps
      BY StepNames
    <3> HIDE DEF args
    <3>5. Await(r, "update", args)
      BY <2>3 DEF args
    <3>6. QED
      BY <2>1, <3>3, <3>4, <3>5, AwaitTyped, ControlTyped
  <2>4. QED
    BY <1>7, <2>2, <2>3 DEF SaveReload
<1>8. CASE SaveUpdate(r)
  <2>1. pc' \in [Requests -> Steps] /\ job' \in [Requests -> Jobs] /\ JobsOK'
    BY <1>8, FinishTyped, StepNames DEF SaveUpdate
  <2>2. /\ job[r].actor \in Users
        /\ job[r].followersCount \in Int
        /\ job[r].followingCount \in Int
    BY <1>8, JobOf, StepNames DEF SaveUpdate, Jobs
  <2>3. followersCount' \in [Users -> Int] /\ followingCount' \in [Users -> Int]
    BY <1>8, <2>2 DEF SaveUpdate, Typed, TypeOK
  <2>4. skewed' \in SUBSET Users
    BY <1>8, <2>2 DEF SaveUpdate, Typed, TypeOK
  <2>5. QED
    BY <1>8, <2>1, <2>3, <2>4 DEF SaveUpdate, Typed, TypeOK
<1>9. CASE SaveInsert(r)
  <2>1. pc' \in [Requests -> Steps] /\ job' \in [Requests -> Jobs] /\ JobsOK'
    BY <1>9, FinishTyped, StepNames DEF SaveInsert
  <2>2. /\ job[r].actor \in Users
        /\ job[r].followersCount \in Int
        /\ job[r].followingCount \in Int
    BY <1>9, JobOf, StepNames DEF SaveInsert, Jobs
  <2>3. CASE job[r].actor \in accounts
    BY <1>9, <2>1, <2>3 DEF SaveInsert, Typed, TypeOK, db, history
  <2>4. CASE job[r].actor \notin accounts
    BY <1>9, <2>1, <2>2, <2>4 DEF SaveInsert, Typed, TypeOK
  <2>5. QED
    BY <2>3, <2>4
<1>10. QED
  BY <1>1, <1>2, <1>3, <1>4, <1>5, <1>6, <1>7, <1>8, <1>9, StatementTyped
  DEF Continue, EmitFollowed, EmitUnfollowed, EmitSteps

-----------------------------------------------------------------------------
(* Type correctness: every variable keeps its type in every reachable state, *)
(* with any number of accounts and of concurrent requests.                   *)
LEMMA InitTyped == Init => Typed
<1> SUFFICES ASSUME Init PROVE Typed
  OBVIOUS
<1>1. \A u \in Users : /\ IsFiniteSet(Followers(u)) /\ IsFiniteSet(Following(u))
  BY UsersAssumption, FS_Subset DEF Followers, Following
<1>2. \A u \in Users : Cardinality(Followers(u)) \in Int /\ Cardinality(Following(u)) \in Int
  BY <1>1, FS_CardinalityType
<1>3. TypeOK
  BY <1>2, NoJobTyped, CompletedAssumption DEF Init, TypeOK, Steps, Pairs
<1>4. JobsOK
  BY DEF Init, JobsOK, PairSteps, HeldSteps, EmitSteps, SaveSteps
<1>5. QED
  BY <1>3, <1>4 DEF Typed

LEMMA NextTyped == Typed /\ [Next]_vars => Typed'
<1>1. Typed /\ Next => Typed'
  BY ArriveTyped, ContinueTyped DEF Next
<1>2. Typed /\ UNCHANGED vars => Typed'
  BY ControlTyped DEF vars, Typed, TypeOK, JobsOK, db, history
<1>3. QED
  BY <1>1, <1>2

THEOREM TypesCorrect == Spec => []TypeOK
<1>1. Typed => TypeOK
  BY DEF Typed
<1>2. QED
  BY <1>1, InitTyped, NextTyped, PTL DEF Spec

-----------------------------------------------------------------------------
(* An open transaction stands by what it has written: it knows what its row  *)
(* is, has written the counters of the statements behind it, and each        *)
(* counter it wrote is the committed one moved by its increment.             *)
RowHeld(r) ==
    /\ job[r].actor # job[r].target
    /\ {job[r].actor, job[r].target} \subseteq accounts
    /\ Pair(r) \in follows <=> job[r].n = -1
    /\ pc[r] \in {"actorTx", "commitTx"} => "followersCount" \in job[r].writes
    /\ pc[r] = "commitTx" => "followingCount" \in job[r].writes

FollowersHeld(r) ==
    /\ job[r].target \in accounts
    /\ job[r].followersCount = followersCount[job[r].target] + job[r].n

FollowingHeld(r) ==
    /\ job[r].actor \in accounts
    /\ job[r].followingCount = followingCount[job[r].actor] + job[r].n

TxHeld(r) ==
    /\ job[r].n \in {1, -1}
    /\ job[r].n = 1 => "row" \in job[r].writes
    /\ "row" \in job[r].writes => RowHeld(r)
    /\ "followersCount" \in job[r].writes => FollowersHeld(r)
    /\ "followingCount" \in job[r].writes => FollowingHeld(r)

(* No two of them hold the same row of follows or of base_users.             *)
Exclusive ==
    \A q \in Requests : \A r \in Requests \ {q} :
        /\ \A u \in Users : ~ (HoldsAccount(q, u) /\ HoldsAccount(r, u))
        /\ \A p \in Pairs : ~ (HoldsRow(q, p) /\ HoldsRow(r, p))

Held == Exclusive /\ \A r \in Requests : pc[r] \in HeldSteps => TxHeld(r)

LEMMA HeldOf ==
    ASSUME Held, NEW r \in Requests, pc[r] \in HeldSteps
    PROVE  TxHeld(r)
BY DEF Held

(* A step that changes one request, and takes only locks that are free,      *)
(* leaves the locks exclusive.                                               *)
LEMMA ExclusiveKept ==
    ASSUME Exclusive, NEW r \in Requests,
           \A q \in Requests \ {r} : pc'[q] = pc[q] /\ job'[q] = job[q],
           \A u \in Users : HoldsAccount(r, u)' => HoldsAccount(r, u) \/ ~ Locked(r, u),
           \A p \in Pairs : HoldsRow(r, p)' => HoldsRow(r, p) \/ ~ RowTaken(r, p)
    PROVE  Exclusive'
<1> SUFFICES ASSUME NEW x \in Requests, NEW y \in Requests \ {x}
             PROVE  /\ \A u \in Users : ~ (HoldsAccount(x, u)' /\ HoldsAccount(y, u)')
                    /\ \A p \in Pairs : ~ (HoldsRow(x, p)' /\ HoldsRow(y, p)')
  BY DEF Exclusive
<1>1. ASSUME NEW q \in Requests \ {r}
      PROVE  /\ \A u \in Users : HoldsAccount(q, u)' = HoldsAccount(q, u)
             /\ \A p \in Pairs : HoldsRow(q, p)' = HoldsRow(q, p)
  BY <1>1 DEF HoldsAccount, HoldsRow, Pair
<1>2. ASSUME NEW q \in Requests \ {r}
      PROVE  /\ \A u \in Users : ~ (HoldsAccount(r, u)' /\ HoldsAccount(q, u))
             /\ \A p \in Pairs : ~ (HoldsRow(r, p)' /\ HoldsRow(q, p))
  BY <1>2 DEF Exclusive, Locked, RowTaken
<1>3. QED
  BY <1>1, <1>2 DEF Exclusive

(* The other transactions stay as they are when a step touches no row that   *)
(* one of them holds.                                                        *)
LEMMA OthersKept ==
    ASSUME Typed, Held, NEW r \in Requests,
           \A q \in Requests \ {r} : pc'[q] = pc[q] /\ job'[q] = job[q],
           \A u \in accounts : Locked(r, u) =>
              /\ u \in accounts'
              /\ followersCount'[u] = followersCount[u]
              /\ followingCount'[u] = followingCount[u],
           \A p \in Pairs : RowTaken(r, p) =>
              /\ p \in follows' <=> p \in follows
              /\ accounts \cap {p[1], p[2]} \subseteq accounts'
    PROVE  \A q \in Requests \ {r} : pc'[q] \in HeldSteps => TxHeld(q)'
<1> SUFFICES ASSUME NEW q \in Requests \ {r}, pc'[q] \in HeldSteps
             PROVE  TxHeld(q)'
  OBVIOUS
<1>1. pc'[q] = pc[q] /\ job'[q] = job[q] /\ TxHeld(q)
  BY HeldOf
<1>2. job[q].actor \in Users /\ job[q].target \in Users /\ Pair(q) \in Pairs
  BY <1>1, JobOf DEF PairSteps, Pair, Pairs
<1>3. ASSUME "row" \in job[q].writes
      PROVE  RowHeld(q)'
  <2>1. RowTaken(r, Pair(q))
    BY <1>1, <1>3 DEF RowTaken, HoldsRow
  <2>2. RowHeld(q)
    BY <1>1, <1>3 DEF TxHeld
  <2>3. /\ Pair(q) \in follows' <=> Pair(q) \in follows
        /\ accounts \cap {job[q].actor, job[q].target} \subseteq accounts'
    BY <1>2, <2>1 DEF Pair
  <2>4. Pair(q)' = Pair(q)
    BY <1>1 DEF Pair
  <2>5. QED
    BY <1>1, <2>2, <2>3, <2>4 DEF RowHeld
<1>4. ASSUME "followersCount" \in job[q].writes
      PROVE  FollowersHeld(q)'
  <2>1. Locked(r, job[q].target)
    BY <1>1, <1>4 DEF Locked, HoldsAccount
  <2>2. FollowersHeld(q)
    BY <1>1, <1>4 DEF TxHeld
  <2>3. QED
    BY <1>1, <2>1, <2>2 DEF FollowersHeld
<1>5. ASSUME "followingCount" \in job[q].writes
      PROVE  FollowingHeld(q)'
  <2>1. Locked(r, job[q].actor)
    BY <1>1, <1>5 DEF Locked, HoldsAccount
  <2>2. FollowingHeld(q)
    BY <1>1, <1>5 DEF TxHeld
  <2>3. QED
    BY <1>1, <2>1, <2>2 DEF FollowingHeld
<1>6. QED
  BY <1>1, <1>3, <1>4, <1>5 DEF TxHeld

(* What a step does to the request it serves, and to no other                *)
LEMMA OnlyMoves ==
    ASSUME Typed, NEW r \in Requests, NEW step, NEW args, Await(r, step, args)
    PROVE  /\ pc'[r] = step /\ job'[r] = args
           /\ \A q \in Requests \ {r} : pc'[q] = pc[q] /\ job'[q] = job[q]
BY DEF Await, Typed, TypeOK

(* A request outside the transactions' statements holds nothing.             *)
LEMMA ReleasedHeld ==
    ASSUME Typed, Held, NEW r \in Requests, NEW step, NEW args, Await(r, step, args),
           step \notin HeldSteps,
           \A u \in accounts : Locked(r, u) =>
              /\ u \in accounts'
              /\ followersCount'[u] = followersCount[u]
              /\ followingCount'[u] = followingCount[u],
           \A p \in Pairs : RowTaken(r, p) =>
              /\ p \in follows' <=> p \in follows
              /\ accounts \cap {p[1], p[2]} \subseteq accounts'
    PROVE  Held'
<1>1. /\ pc'[r] = step
      /\ \A q \in Requests \ {r} : pc'[q] = pc[q] /\ job'[q] = job[q]
  BY OnlyMoves
<1>2. \A q \in Requests : pc'[q] \in HeldSteps => TxHeld(q)'
  BY <1>1, OthersKept
<1>3. Exclusive'
  <2>1. /\ \A u \in Users : ~ HoldsAccount(r, u)'
        /\ \A p \in Pairs : ~ HoldsRow(r, p)'
    BY <1>1 DEF HoldsAccount, HoldsRow
  <2>2. QED
    BY <1>1, <2>1, ExclusiveKept DEF Held
<1>4. QED
  BY <1>2, <1>3 DEF Held

(* The row and the accounts a transaction holds, nobody else holds.          *)
LEMMA MineAlone ==
    ASSUME Held, NEW r \in Requests
    PROVE  /\ \A u \in Users : HoldsAccount(r, u) => ~ Locked(r, u)
           /\ \A p \in Pairs : HoldsRow(r, p) => ~ RowTaken(r, p)
BY DEF Held, Exclusive, Locked, RowTaken

-----------------------------------------------------------------------------
(* Every action keeps the open transactions standing.                        *)

LEMMA QuietHeld ==
    ASSUME Typed, Held, NEW r \in Requests, NEW step, NEW args, Await(r, step, args),
           step \notin HeldSteps, UNCHANGED <<accounts, follows, followersCount, followingCount>>
    PROVE  Held'
BY ReleasedHeld

LEMMA CommitHeld ==
    ASSUME Typed, Held, NEW r \in Requests, FollowCommit(r) \/ UnfollowCommit(r)
    PROVE  Held'
<1>1. pc[r] = "commitTx" /\ accounts' = accounts /\ ShowCounters(r) /\ pc[r] \in HeldSteps
  BY StepNames DEF FollowCommit, UnfollowCommit
<1>2. PICK step \in EmitSteps : Await(r, step, EmitJob(r))
  BY StepNames DEF FollowCommit, UnfollowCommit
<1>3. step \notin HeldSteps
  BY StepNames
<1>4. job[r].actor \in Users /\ job[r].target \in Users /\ Pair(r) \in Pairs
  BY <1>1, JobOf, StepNames DEF Pair, Pairs
<1>5. ASSUME NEW u \in accounts, Locked(r, u)
      PROVE  followersCount'[u] = followersCount[u] /\ followingCount'[u] = followingCount[u]
  <2>1. u \in Users /\ ~ HoldsAccount(r, u)
    BY <1>5, MineAlone DEF Typed, TypeOK
  <2>2. /\ "followersCount" \in job[r].writes => job[r].target # u
        /\ "followingCount" \in job[r].writes => job[r].actor # u
    BY <1>1, <2>1 DEF HoldsAccount
  <2>3. QED
    BY <1>1, <2>1, <2>2 DEF ShowCounters, Typed, TypeOK
<1>6. ASSUME NEW p \in Pairs, RowTaken(r, p)
      PROVE  p \in follows' <=> p \in follows
  <2>1. CASE "row" \in job[r].writes
    <3>1. p # Pair(r)
      BY <1>1, <1>6, <2>1, MineAlone DEF HoldsRow
    <3>2. QED
      BY <3>1 DEF FollowCommit, UnfollowCommit
  <2>2. CASE "row" \notin job[r].writes
    <3>1. job[r].n = -1
      BY <1>1, <2>2, HeldOf DEF TxHeld
    <3>2. follows' = follows
      BY <2>2, <3>1 DEF FollowCommit, UnfollowCommit
    <3>3. QED
      BY <3>2
  <2>3. QED
    BY <2>1, <2>2
<1>7. QED
  BY <1>1, <1>2, <1>3, <1>5, <1>6, ReleasedHeld

LEMMA DeleteHeld ==
    ASSUME Typed, Held, NEW r \in Requests, DeleteCommit(r)
    PROVE  Held'
<1> DEFINE d == job[r].actor
<1>1. /\ Await(r, "done", NoJob) /\ "done" \notin HeldSteps /\ ~ InUse(r, d)
      /\ accounts' = accounts \ {d} /\ follows' = follows \ Edges(d)
      /\ followersCount' = [followersCount EXCEPT ![d] = 0]
      /\ followingCount' = [followingCount EXCEPT ![d] = 0]
  BY StepNames DEF DeleteCommit, Finish
<1> HIDE DEF d
<1>2. ASSUME NEW u \in accounts, Locked(r, u)
      PROVE  /\ u \in accounts'
             /\ followersCount'[u] = followersCount[u]
             /\ followingCount'[u] = followingCount[u]
  <2>1. u # d
    BY <1>1, <1>2 DEF InUse
  <2>2. QED
    BY <1>1, <2>1 DEF Typed, TypeOK
<1>3. ASSUME NEW p \in Pairs, RowTaken(r, p)
      PROVE  /\ p \in follows' <=> p \in follows
             /\ accounts \cap {p[1], p[2]} \subseteq accounts'
  <2>1. d \notin {p[1], p[2]}
    BY <1>1, <1>3 DEF InUse
  <2>2. QED
    BY <1>1, <2>1 DEF Edges
<1>4. QED
  BY <1>1, <1>2, <1>3, ReleasedHeld

LEMMA SaveHeld ==
    ASSUME Typed, Held, NEW r \in Requests, SaveUpdate(r) \/ SaveInsert(r)
    PROVE  Held'
<1>1. PICK step \in Outcomes : Await(r, step, NoJob)
  BY StepNames DEF SaveUpdate, SaveInsert, Finish
<1>2. step \notin HeldSteps /\ follows' = follows /\ accounts \subseteq accounts'
  BY StepNames DEF SaveUpdate, SaveInsert, Outcomes, db
<1>3. ASSUME NEW u \in accounts, Locked(r, u)
      PROVE  followersCount'[u] = followersCount[u] /\ followingCount'[u] = followingCount[u]
  <2>1. u \in Users
    BY DEF Typed, TypeOK
  <2>2. CASE SaveUpdate(r)
    BY <1>3, <2>1, <2>2 DEF SaveUpdate, Typed, TypeOK
  <2>3. CASE SaveInsert(r)
    BY <1>3, <2>1, <2>3 DEF SaveInsert, Typed, TypeOK, db
  <2>4. QED
    BY <2>2, <2>3
<1>4. QED
  BY <1>1, <1>2, <1>3, ReleasedHeld

(* A statement writes nothing the others can see; it has only to stand by    *)
(* what it writes itself, under a lock that was free.                        *)
LEMMA StatementHeld ==
    ASSUME Typed, Held, NEW r \in Requests, NEW step, NEW args, Await(r, step, args),
           UNCHANGED <<accounts, follows, followersCount, followingCount>>,
           TxHeld(r)',
           \A u \in Users : HoldsAccount(r, u)' => HoldsAccount(r, u) \/ ~ Locked(r, u),
           \A p \in Pairs : HoldsRow(r, p)' => HoldsRow(r, p) \/ ~ RowTaken(r, p)
    PROVE  Held'
<1>1. \A q \in Requests \ {r} : pc'[q] = pc[q] /\ job'[q] = job[q]
  BY OnlyMoves
<1>2. \A q \in Requests \ {r} : pc'[q] \in HeldSteps => TxHeld(q)'
  BY <1>1, OthersKept
<1>3. Exclusive'
  BY <1>1, ExclusiveKept DEF Held
<1>4. QED
  BY <1>2, <1>3 DEF Held

LEMMA FollowInsertHeld ==
    ASSUME Typed, Held, NEW r \in Requests, FollowInsert(r)
    PROVE  Held'
<1> DEFINE args == [job[r] EXCEPT !.writes = {"row"}, !.n = 1]
<1>1. Await(r, "targetTx", args) /\ ~ RowTaken(r, Pair(r))
  BY DEF FollowInsert
<1>2. UNCHANGED <<accounts, follows, followersCount, followingCount>>
  BY DEF FollowInsert, db
<1>3. pc'[r] = "targetTx" /\ job'[r] = args
  BY <1>1, OnlyMoves
<1>4. /\ args.writes = {"row"} /\ args.n = 1
      /\ args.actor = job[r].actor /\ args.target = job[r].target
  BY JobOf DEF Jobs
<1> HIDE DEF args
<1>5. Pair(r)' = Pair(r)
  BY <1>3, <1>4 DEF Pair
<1>6. RowHeld(r)'
  <2>1. /\ job[r].actor # job[r].target /\ Pair(r) \notin follows
        /\ {job[r].actor, job[r].target} \subseteq accounts
    BY JobOf DEF FollowInsert
  <2>2. QED
    BY <1>2, <1>3, <1>4, <1>5, <2>1 DEF RowHeld
<1>7. TxHeld(r)'
  BY <1>3, <1>4, <1>6 DEF TxHeld
<1>8. \A u \in Users : ~ HoldsAccount(r, u)'
  BY <1>3, <1>4 DEF HoldsAccount
<1>9. \A p \in Pairs : HoldsRow(r, p)' => ~ RowTaken(r, p)
  BY <1>1, <1>5 DEF HoldsRow
<1>10. QED
  BY <1>1, <1>2, <1>7, <1>8, <1>9, StatementHeld

LEMMA UnfollowDeleteHeld ==
    ASSUME Typed, GraphWellFormed, Held, NEW r \in Requests, UnfollowDelete(r)
    PROVE  Held'
<1> DEFINE w == IF Pair(r) \in follows THEN {"row"} ELSE {}
           args == [job[r] EXCEPT !.writes = w, !.n = -1]
<1>1. Await(r, "targetTx", args) /\ (Pair(r) \in follows => ~ RowTaken(r, Pair(r)))
  BY DEF UnfollowDelete
<1>2. UNCHANGED <<accounts, follows, followersCount, followingCount>>
  BY DEF UnfollowDelete, db
<1>3. pc'[r] = "targetTx" /\ job'[r] = args
  BY <1>1, OnlyMoves
<1>4. /\ args.writes = w /\ args.n = -1
      /\ args.actor = job[r].actor /\ args.target = job[r].target
  BY JobOf DEF Jobs
<1> HIDE DEF args
<1>5. Pair(r)' = Pair(r)
  BY <1>3, <1>4 DEF Pair
<1>6. Pair(r) \in follows => RowHeld(r)'
  <2>1. Pair(r) \in follows =>
          /\ job[r].actor # job[r].target
          /\ {job[r].actor, job[r].target} \subseteq accounts
    BY DEF GraphWellFormed, Pair
  <2>2. QED
    BY <1>2, <1>3, <1>4, <1>5, <2>1 DEF RowHeld
<1>7. TxHeld(r)'
  BY <1>3, <1>4, <1>6 DEF TxHeld
<1>8. \A u \in Users : ~ HoldsAccount(r, u)'
  BY <1>3, <1>4 DEF HoldsAccount
<1>9. \A p \in Pairs : HoldsRow(r, p)' => ~ RowTaken(r, p)
  BY <1>1, <1>3, <1>4, <1>5 DEF HoldsRow
<1>10. QED
  BY <1>1, <1>2, <1>7, <1>8, <1>9, StatementHeld

LEMMA IncrementTargetHeld ==
    ASSUME Typed, Held, NEW r \in Requests, IncrementTarget(r)
    PROVE  Held'
<1> DEFINE t == job[r].target
           args == IF t \in accounts
                     THEN [job[r] EXCEPT !.followersCount = followersCount[t] + job[r].n,
                                         !.writes = @ \cup {"followersCount"}]
                     ELSE job[r]
<1>1. Await(r, "actorTx", args) /\ ~ Locked(r, t) /\ pc[r] = "targetTx" /\ TxHeld(r)
  BY HeldOf, StepNames DEF IncrementTarget
<1>2. UNCHANGED <<accounts, follows, followersCount, followingCount>>
  BY DEF IncrementTarget, db
<1>3. pc'[r] = "actorTx" /\ job'[r] = args
  BY <1>1, OnlyMoves
<1>4. /\ args.actor = job[r].actor /\ args.target = t /\ args.n = job[r].n
      /\ args.followingCount = job[r].followingCount
      /\ t \in accounts => /\ args.followersCount = followersCount[t] + job[r].n
                           /\ args.writes = job[r].writes \cup {"followersCount"}
      /\ t \notin accounts => /\ args.followersCount = job[r].followersCount
                              /\ args.writes = job[r].writes
  BY JobOf DEF Jobs
<1> HIDE DEF args
<1>5. Pair(r)' = Pair(r)
  BY <1>3, <1>4 DEF Pair
<1>6. "row" \in args.writes => RowHeld(r)'
  BY <1>1, <1>2, <1>3, <1>4, <1>5 DEF TxHeld, RowHeld
<1>7. "followersCount" \in args.writes => FollowersHeld(r)'
  BY <1>1, <1>2, <1>3, <1>4 DEF TxHeld, FollowersHeld
<1>8. "followingCount" \in args.writes => FollowingHeld(r)'
  BY <1>1, <1>2, <1>3, <1>4 DEF TxHeld, FollowingHeld
<1>9. TxHeld(r)'
  BY <1>1, <1>3, <1>4, <1>6, <1>7, <1>8 DEF TxHeld
<1>10. \A u \in Users : HoldsAccount(r, u)' => HoldsAccount(r, u) \/ ~ Locked(r, u)
  BY <1>1, <1>3, <1>4, StepNames DEF HoldsAccount
<1>11. \A p \in Pairs : HoldsRow(r, p)' => HoldsRow(r, p)
  BY <1>1, <1>3, <1>4, <1>5, StepNames DEF HoldsRow
<1>12. QED
  BY <1>1, <1>2, <1>9, <1>10, <1>11, StatementHeld

LEMMA IncrementActorHeld ==
    ASSUME Typed, Held, NEW r \in Requests, IncrementActor(r)
    PROVE  Held'
<1> DEFINE a == job[r].actor
           args == IF a \in accounts
                     THEN [job[r] EXCEPT !.followingCount = followingCount[a] + job[r].n,
                                         !.writes = @ \cup {"followingCount"}]
                     ELSE job[r]
<1>1. Await(r, "commitTx", args) /\ ~ Locked(r, a) /\ pc[r] = "actorTx" /\ TxHeld(r)
  BY HeldOf, StepNames DEF IncrementActor
<1>2. UNCHANGED <<accounts, follows, followersCount, followingCount>>
  BY DEF IncrementActor, db
<1>3. pc'[r] = "commitTx" /\ job'[r] = args
  BY <1>1, OnlyMoves
<1>4. /\ args.actor = a /\ args.target = job[r].target /\ args.n = job[r].n
      /\ args.followersCount = job[r].followersCount
      /\ a \in accounts => /\ args.followingCount = followingCount[a] + job[r].n
                           /\ args.writes = job[r].writes \cup {"followingCount"}
      /\ a \notin accounts => /\ args.followingCount = job[r].followingCount
                              /\ args.writes = job[r].writes
  BY JobOf DEF Jobs
<1> HIDE DEF args
<1>5. Pair(r)' = Pair(r)
  BY <1>3, <1>4 DEF Pair
<1>6. "row" \in args.writes => RowHeld(r)'
  BY <1>1, <1>2, <1>3, <1>4, <1>5 DEF TxHeld, RowHeld
<1>7. "followersCount" \in args.writes => FollowersHeld(r)'
  BY <1>1, <1>2, <1>3, <1>4 DEF TxHeld, FollowersHeld
<1>8. "followingCount" \in args.writes => FollowingHeld(r)'
  BY <1>1, <1>2, <1>3, <1>4 DEF TxHeld, FollowingHeld
<1>9. TxHeld(r)'
  BY <1>1, <1>3, <1>4, <1>6, <1>7, <1>8 DEF TxHeld
<1>10. \A u \in Users : HoldsAccount(r, u)' => HoldsAccount(r, u) \/ ~ Locked(r, u)
  BY <1>1, <1>3, <1>4, StepNames DEF HoldsAccount
<1>11. \A p \in Pairs : HoldsRow(r, p)' => HoldsRow(r, p)
  BY <1>1, <1>3, <1>4, <1>5, StepNames DEF HoldsRow
<1>12. QED
  BY <1>1, <1>2, <1>9, <1>10, <1>11, StatementHeld

LEMMA ArriveHeld ==
    ASSUME Typed, Held, NEW r \in Requests, Arrive(r)
    PROVE  Held'
<1>1. ASSUME NEW ok, NEW step \in {"followTx", "unfollowTx", "deleteTx", "reload"}, NEW args,
             Begin(r, ok, step, args)
      PROVE  Held'
  BY <1>1, QuietHeld, StepNames DEF Begin, Finish, db
<1>2. ASSUME NEW a \in Users, NEW t \in Users, Follow(r, a, t)
      PROVE  Held'
  BY <1>1, <1>2, Zenon DEF Follow
<1>3. ASSUME NEW a \in Users, NEW t \in Users, Unfollow(r, a, t)
      PROVE  Held'
  BY <1>1, <1>3, Zenon DEF Unfollow
<1>4. ASSUME NEW u \in Users, DeleteAccount(r, u)
      PROVE  Held'
  BY <1>1, <1>4, Zenon DEF DeleteAccount
<1>5. ASSUME NEW u \in Users, SaveRead(r, u)
      PROVE  Held'
  BY <1>1, <1>5, Zenon DEF SaveRead
<1>6. QED
  BY <1>2, <1>3, <1>4, <1>5 DEF Arrive

LEMMA ContinueHeld ==
    ASSUME Typed, GraphWellFormed, Held, NEW r \in Requests, Continue(r)
    PROVE  Held'
<1>1. CASE FollowConflict(r) \/ TxAborted(r)
  BY <1>1, QuietHeld, StepNames DEF FollowConflict, TxAborted, Finish, db
<1>2. CASE EmitFollowed(r) \/ EmitUnfollowed(r)
  BY <1>2, QuietHeld, StepNames DEF EmitFollowed, EmitUnfollowed, Emit, Finish, db
<1>3. CASE SaveReload(r)
  <2>1. UNCHANGED <<accounts, follows, followersCount, followingCount>>
    BY <1>3 DEF SaveReload, db
  <2>2. ASSUME NEW step \in SaveSteps, NEW args, Await(r, step, args)
        PROVE  Held'
    BY <2>1, <2>2, QuietHeld, StepNames
  <2>3. CASE Goto(r, "insert")
    <3>1. Await(r, "insert", job[r])
      BY <2>3 DEF Goto, Await, Typed, TypeOK
    <3>2. QED
      BY <2>2, <3>1, StepNames
  <2>4. QED
    BY <1>3, <2>2, <2>3, StepNames DEF SaveReload
<1>4. QED
  BY <1>1, <1>2, <1>3, FollowInsertHeld, UnfollowDeleteHeld, IncrementTargetHeld,
     IncrementActorHeld, CommitHeld, DeleteHeld, SaveHeld DEF Continue

LEMMA NextHeld == Typed /\ GraphWellFormed /\ Held /\ [Next]_vars => Held'
<1>1. Typed /\ GraphWellFormed /\ Held /\ Next => Held'
  BY ArriveHeld, ContinueHeld DEF Next
<1>2. Held /\ UNCHANGED vars => Held'
  BY DEF vars, db, Held, Exclusive, HoldsAccount, HoldsRow, Pair, TxHeld, RowHeld,
         FollowersHeld, FollowingHeld
<1>3. QED
  BY <1>1, <1>2

LEMMA InitHeld == Init => Held
BY StepNames DEF Init, Held, Exclusive, HoldsAccount, HoldsRow

-----------------------------------------------------------------------------
(* A commit whose transaction holds a row shows both counters moved by one.  *)
LEMMA CommitOwns ==
    ASSUME Typed, Held, NEW r \in Requests, pc[r] = "commitTx",
           job[r].n = 1 \/ "row" \in job[r].writes
    PROVE  /\ job[r].n = 1 => "row" \in job[r].writes
           /\ RowHeld(r)
           /\ {"followersCount", "followingCount"} \subseteq job[r].writes
           /\ FollowersHeld(r) /\ FollowingHeld(r)
<1>1. TxHeld(r)
  BY HeldOf, StepNames
<1>2. QED
  BY <1>1 DEF TxHeld, RowHeld

LEMMA NextWellFormed == Typed /\ Held /\ GraphWellFormed /\ [Next]_vars => GraphWellFormed'
<1> SUFFICES ASSUME Typed, Held, GraphWellFormed, [Next]_vars PROVE GraphWellFormed'
  OBVIOUS
<1>1. ASSUME NEW r \in Requests, FollowCommit(r)
      PROVE  GraphWellFormed'
  <2>1. RowHeld(r)
    BY <1>1, CommitOwns DEF FollowCommit
  <2>2. QED
    BY <1>1, <2>1 DEF FollowCommit, GraphWellFormed, RowHeld, Pair
<1>2. ASSUME NEW r \in Requests, UnfollowCommit(r)
      PROVE  GraphWellFormed'
  BY <1>2 DEF UnfollowCommit, GraphWellFormed
<1>3. ASSUME NEW r \in Requests, DeleteCommit(r)
      PROVE  GraphWellFormed'
  <2>1. \A e \in follows' : job[r].actor \notin {e[1], e[2]}
    BY <1>3 DEF DeleteCommit, Edges
  <2>2. QED
    BY <1>3, <2>1 DEF DeleteCommit, GraphWellFormed
<1>4. ASSUME follows' = follows, accounts \subseteq accounts'
      PROVE  GraphWellFormed'
  BY <1>4 DEF GraphWellFormed
<1>5. ASSUME NEW r \in Requests, Arrive(r)
      PROVE  GraphWellFormed'
  BY <1>4, <1>5 DEF Arrive, Follow, Unfollow, DeleteAccount, SaveRead, Begin, db
<1>6. ASSUME NEW r \in Requests, Continue(r)
      PROVE  GraphWellFormed'
  <2>1. CASE FollowInsert(r) \/ FollowConflict(r) \/ UnfollowDelete(r) \/ IncrementTarget(r)
             \/ IncrementActor(r) \/ EmitFollowed(r) \/ EmitUnfollowed(r)
             \/ TxAborted(r) \/ SaveReload(r)
    BY <2>1, <1>4 DEF FollowInsert, FollowConflict, UnfollowDelete, IncrementTarget, IncrementActor,
                    EmitFollowed, EmitUnfollowed, Emit, TxAborted, SaveReload, db
  <2>2. CASE SaveUpdate(r) \/ SaveInsert(r)
    BY <2>2, <1>4 DEF SaveUpdate, SaveInsert, db
  <2>3. QED
    BY <1>1, <1>2, <1>3, <1>6, <2>1, <2>2 DEF Continue
<1>7. CASE UNCHANGED vars
  BY <1>4, <1>7 DEF vars, db
<1>8. QED
  BY <1>5, <1>6, <1>7 DEF Next

(* The parts of the inductive invariant that every theorem needs             *)
Sound == Typed /\ Held /\ GraphWellFormed

LEMMA InitSound == Init => Sound
<1>1. Init => GraphWellFormed
  BY DEF Init, GraphWellFormed, Pairs
<1>2. QED
  BY <1>1, InitTyped, InitHeld DEF Sound

LEMMA NextSound == Sound /\ [Next]_vars => Sound'
BY NextTyped, NextHeld, NextWellFormed DEF Sound

(* No interleaving of follows, unfollows, deletions and resurrecting saves   *)
(* leaves an edge at a missing account or from an account to itself.         *)
THEOREM GraphStaysWellFormed == Spec => []GraphWellFormed
<1>1. Sound => GraphWellFormed
  BY DEF Sound
<1>2. QED
  BY <1>1, InitSound, NextSound, PTL DEF Spec

-----------------------------------------------------------------------------
(* Counting the edges of one account.                                        *)

LEMMA CountsFinite ==
    ASSUME NEW u \in Users
    PROVE  /\ IsFiniteSet(Followers(u)) /\ Cardinality(Followers(u)) \in Nat
           /\ IsFiniteSet(Following(u)) /\ Cardinality(Following(u)) \in Nat
BY UsersAssumption, FS_Subset, FS_CardinalityType DEF Followers, Following

(* A new edge adds one follower at its head and one followee at its tail.    *)
LEMMA EdgeAdded ==
    ASSUME NEW a \in Users, NEW t \in Users, NEW u \in Users,
           <<a, t>> \notin follows, follows' = follows \cup {<<a, t>>}
    PROVE  /\ Cardinality(Followers(u)') =
                IF u = t THEN Cardinality(Followers(u)) + 1 ELSE Cardinality(Followers(u))
           /\ Cardinality(Following(u)') =
                IF u = a THEN Cardinality(Following(u)) + 1 ELSE Cardinality(Following(u))
<1>1. Followers(u)' = IF u = t THEN Followers(u) \cup {a} ELSE Followers(u)
  BY DEF Followers
<1>2. Following(u)' = IF u = a THEN Following(u) \cup {t} ELSE Following(u)
  BY DEF Following
<1>3. u = t => a \notin Followers(u)
  BY DEF Followers
<1>4. u = a => t \notin Following(u)
  BY DEF Following
<1>5. Cardinality(Followers(u)') =
        IF u = t THEN Cardinality(Followers(u)) + 1 ELSE Cardinality(Followers(u))
  BY <1>1, <1>3, CountsFinite, FS_AddElement
<1>6. Cardinality(Following(u)') =
        IF u = a THEN Cardinality(Following(u)) + 1 ELSE Cardinality(Following(u))
  BY <1>2, <1>4, CountsFinite, FS_AddElement
<1>7. QED
  BY <1>5, <1>6

LEMMA EdgeRemoved ==
    ASSUME NEW a \in Users, NEW t \in Users, NEW u \in Users,
           <<a, t>> \in follows, follows' = follows \ {<<a, t>>}
    PROVE  /\ Cardinality(Followers(u)') =
                IF u = t THEN Cardinality(Followers(u)) - 1 ELSE Cardinality(Followers(u))
           /\ Cardinality(Following(u)') =
                IF u = a THEN Cardinality(Following(u)) - 1 ELSE Cardinality(Following(u))
<1>1. Followers(u)' = IF u = t THEN Followers(u) \ {a} ELSE Followers(u)
  BY DEF Followers
<1>2. Following(u)' = IF u = a THEN Following(u) \ {t} ELSE Following(u)
  BY DEF Following
<1>3. u = t => a \in Followers(u)
  BY DEF Followers
<1>4. u = a => t \in Following(u)
  BY DEF Following
<1>5. Cardinality(Followers(u)') =
        IF u = t THEN Cardinality(Followers(u)) - 1 ELSE Cardinality(Followers(u))
  BY <1>1, <1>3, CountsFinite, FS_RemoveElement
<1>6. Cardinality(Following(u)') =
        IF u = a THEN Cardinality(Following(u)) - 1 ELSE Cardinality(Following(u))
  BY <1>2, <1>4, CountsFinite, FS_RemoveElement
<1>7. QED
  BY <1>5, <1>6

(* A step that moves neither edges nor counters of the accounts that stay    *)
(* exact cannot disturb CountersExact.                                       *)
LEMMA SameCounters ==
    ASSUME CountersExact, accounts' \ skewed' \subseteq accounts \ skewed,
           \A u \in accounts' \ skewed' :
              /\ Followers(u)' = Followers(u) /\ Following(u)' = Following(u)
              /\ followersCount'[u] = followersCount[u]
              /\ followingCount'[u] = followingCount[u]
    PROVE  CountersExact'
BY DEF CountersExact

LEMMA QuietCounters ==
    ASSUME CountersExact, UNCHANGED <<accounts, follows, followersCount, followingCount, skewed>>
    PROVE  CountersExact'
BY SameCounters DEF Followers, Following

LEMMA NextCounters == Typed /\ Held /\ CountersExact /\ [Next]_vars => CountersExact'
<1> SUFFICES ASSUME Typed, Held, CountersExact, [Next]_vars PROVE CountersExact'
  OBVIOUS
<1>0. ASSUME NEW r \in Requests, ShowCounters(r), pc[r] = "commitTx",
             job[r].n = 1 \/ "row" \in job[r].writes, NEW u \in accounts
      PROVE  /\ followersCount'[u] = IF u = job[r].target THEN followersCount[u] + job[r].n
                                                          ELSE followersCount[u]
             /\ followingCount'[u] = IF u = job[r].actor THEN followingCount[u] + job[r].n
                                                         ELSE followingCount[u]
  <2>1. /\ {"followersCount", "followingCount"} \subseteq job[r].writes
        /\ FollowersHeld(r) /\ FollowingHeld(r)
    BY <1>0, CommitOwns
  <2>2. QED
    BY <1>0, <2>1 DEF ShowCounters, FollowersHeld, FollowingHeld, Typed, TypeOK
<1>1. ASSUME NEW r \in Requests, FollowCommit(r)
      PROVE  CountersExact'
  <2> DEFINE a == job[r].actor
             t == job[r].target
  <2>1. a \in Users /\ t \in Users
    BY <1>1, JobOf, StepNames DEF FollowCommit
  <2>2. Pair(r) \notin follows
    BY <1>1, CommitOwns DEF FollowCommit, RowHeld
  <2>3. <<a, t>> \notin follows /\ follows' = follows \cup {<<a, t>>}
    BY <1>1, <2>2 DEF FollowCommit, Pair
  <2>4. UNCHANGED <<accounts, skewed>>
    BY <1>1 DEF FollowCommit, history
  <2> SUFFICES ASSUME NEW u \in accounts \ skewed
               PROVE  /\ followersCount'[u] = Cardinality(Followers(u)')
                      /\ followingCount'[u] = Cardinality(Following(u)')
    BY <2>4 DEF CountersExact
  <2>5. u \in Users /\ job[r].n = 1
    BY <1>1 DEF Typed, TypeOK, FollowCommit
  <2>6. /\ followersCount'[u] = IF u = t THEN followersCount[u] + 1 ELSE followersCount[u]
        /\ followingCount'[u] = IF u = a THEN followingCount[u] + 1 ELSE followingCount[u]
    BY <1>0, <1>1, <2>5 DEF FollowCommit
  <2> HIDE DEF a, t
  <2>7. QED
    BY <2>1, <2>3, <2>5, <2>6, EdgeAdded DEF CountersExact
<1>2. ASSUME NEW r \in Requests, UnfollowCommit(r)
      PROVE  CountersExact'
  <2> DEFINE a == job[r].actor
             t == job[r].target
  <2>1. a \in Users /\ t \in Users /\ accounts' = accounts
    BY <1>2, JobOf, StepNames DEF UnfollowCommit
  <2> SUFFICES ASSUME NEW u \in accounts \ skewed'
               PROVE  /\ followersCount'[u] = Cardinality(Followers(u)')
                      /\ followingCount'[u] = Cardinality(Following(u)')
    BY <2>1 DEF CountersExact
  <2>2. u \in Users /\ u \in accounts \ skewed
    BY <1>2 DEF UnfollowCommit, Typed, TypeOK
  <2>3. CASE "row" \in job[r].writes
    <3>1. job[r].n = -1 /\ Pair(r) \in follows
      BY <1>2, <2>3, CommitOwns DEF UnfollowCommit, RowHeld
    <3>2. <<a, t>> \in follows /\ follows' = follows \ {<<a, t>>}
      BY <1>2, <2>3, <3>1 DEF UnfollowCommit, Pair
    <3>3. /\ followersCount'[u] = IF u = t THEN followersCount[u] + (-1) ELSE followersCount[u]
          /\ followingCount'[u] = IF u = a THEN followingCount[u] + (-1) ELSE followingCount[u]
      BY <1>0, <1>2, <2>3, <3>1 DEF UnfollowCommit
    <3>4. followersCount[u] \in Int /\ followingCount[u] \in Int
      BY <2>2 DEF Typed, TypeOK
    <3> HIDE DEF a, t
    <3>5. QED
      BY <2>1, <2>2, <3>2, <3>3, <3>4, EdgeRemoved DEF CountersExact
  <2>4. CASE "row" \notin job[r].writes
    <3>1. u # a /\ u # t /\ follows' = follows
      BY <1>2, <2>4 DEF UnfollowCommit
    <3>2. followersCount'[u] = followersCount[u] /\ followingCount'[u] = followingCount[u]
      BY <1>2, <2>2, <3>1 DEF UnfollowCommit, ShowCounters, Typed, TypeOK
    <3>3. Followers(u)' = Followers(u) /\ Following(u)' = Following(u)
      BY <3>1 DEF Followers, Following
    <3>4. QED
      BY <2>2, <3>2, <3>3 DEF CountersExact
  <2>5. QED
    BY <2>3, <2>4
<1>3. ASSUME NEW r \in Requests, DeleteCommit(r)
      PROVE  CountersExact'
  <2> DEFINE d == job[r].actor
  <2>1. accounts' = accounts \ {d} /\ follows' = follows \ Edges(d)
    BY <1>3 DEF DeleteCommit
  <2>2. skewed' = skewed \cup Followers(d) \cup Following(d)
    BY <1>3 DEF DeleteCommit
  <2>3. /\ followersCount' = [followersCount EXCEPT ![d] = 0]
        /\ followingCount' = [followingCount EXCEPT ![d] = 0]
    BY <1>3 DEF DeleteCommit
  <2>4. ASSUME NEW u \in accounts' \ skewed'
        PROVE  /\ Followers(u)' = Followers(u) /\ Following(u)' = Following(u)
               /\ followersCount'[u] = followersCount[u]
               /\ followingCount'[u] = followingCount[u]
    <3>1. u \in Users /\ u # d /\ u \notin Followers(d) /\ u \notin Following(d)
      BY <2>1, <2>2 DEF Typed, TypeOK
    <3>2. <<u, d>> \notin follows /\ <<d, u>> \notin follows
      BY <3>1 DEF Followers, Following
    <3>3. \A f \in Users : (<<f, u>> \in follows' <=> <<f, u>> \in follows)
      BY <2>1, <3>1, <3>2 DEF Edges
    <3>4. \A f \in Users : (<<u, f>> \in follows' <=> <<u, f>> \in follows)
      BY <2>1, <3>1, <3>2 DEF Edges
    <3>5. Followers(u)' = Followers(u) /\ Following(u)' = Following(u)
      BY <3>3, <3>4 DEF Followers, Following
    <3>6. QED
      BY <2>3, <3>1, <3>5 DEF Typed, TypeOK
  <2>5. QED
    BY <2>1, <2>2, <2>4, SameCounters
<1>4. ASSUME NEW r \in Requests, SaveUpdate(r)
      PROVE  CountersExact'
  <2>1. UNCHANGED <<accounts, follows>>
    BY <1>4 DEF SaveUpdate
  <2>2. "followersCount" \in job[r].writes \/ "followingCount" \in job[r].writes => job[r].writes # {}
    OBVIOUS
  <2>3. skewed \subseteq skewed'
    BY <1>4 DEF SaveUpdate
  <2>4. ASSUME NEW u \in accounts' \ skewed'
        PROVE  followersCount'[u] = followersCount[u] /\ followingCount'[u] = followingCount[u]
    BY <1>4, <2>1, <2>2 DEF SaveUpdate, Typed, TypeOK
  <2>5. QED
    BY <2>1, <2>3, <2>4, SameCounters DEF Followers, Following
<1>5. ASSUME NEW r \in Requests, SaveInsert(r)
      PROVE  CountersExact'
  <2>1. CASE job[r].actor \in accounts
    BY <1>5, <2>1, QuietCounters DEF SaveInsert, db, history
  <2>2. CASE job[r].actor \notin accounts
    <3>1. accounts' \ skewed' \subseteq accounts \ skewed /\ UNCHANGED follows
      BY <1>5, <2>2 DEF SaveInsert
    <3>2. \A u \in accounts' \ skewed' :
            followersCount'[u] = followersCount[u] /\ followingCount'[u] = followingCount[u]
      BY <1>5, <2>2 DEF SaveInsert, Typed, TypeOK
    <3>3. QED
      BY <3>1, <3>2, SameCounters DEF Followers, Following
  <2>3. QED
    BY <2>1, <2>2
<1>6. ASSUME UNCHANGED <<db, history>>
      PROVE  CountersExact'
  BY <1>6, QuietCounters DEF db, history
<1>7. ASSUME NEW r \in Requests, Arrive(r)
      PROVE  UNCHANGED <<db, history>>
  BY <1>7 DEF Arrive, Follow, Unfollow, DeleteAccount, SaveRead, Begin
<1>8. ASSUME NEW r \in Requests, Continue(r)
      PROVE  CountersExact'
  <2>1. CASE FollowInsert(r) \/ FollowConflict(r) \/ UnfollowDelete(r) \/ IncrementTarget(r)
             \/ IncrementActor(r) \/ EmitFollowed(r) \/ EmitUnfollowed(r)
             \/ TxAborted(r) \/ SaveReload(r)
    BY <2>1, <1>6 DEF FollowInsert, FollowConflict, UnfollowDelete, IncrementTarget, IncrementActor,
                    EmitFollowed, EmitUnfollowed, Emit, TxAborted, SaveReload
  <2>2. QED
    BY <1>1, <1>2, <1>3, <1>4, <1>5, <1>8, <2>1 DEF Continue
<1>9. CASE UNCHANGED vars
  BY <1>6, <1>9 DEF vars
<1>10. QED
  BY <1>6, <1>7, <1>8, <1>9 DEF Next

(* FollowService and the deletion handlers keep both counters of every       *)
(* account that met none of the three races equal to the rows they count,    *)
(* whatever the interleaving of the statements of any finite number of       *)
(* requests, and wherever a transaction is aborted.                          *)
THEOREM CountersStayExact == Spec => []CountersExact
<1>1. Init => CountersExact
  BY DEF Init, CountersExact
<1>2. Sound /\ CountersExact /\ [Next]_vars => CountersExact'
  BY NextCounters DEF Sound
<1>3. QED
  BY <1>1, <1>2, InitSound, NextSound, PTL DEF Spec

-----------------------------------------------------------------------------
(* EventsMatchGraph says nothing while an announcement is owed; counting the *)
(* owed announcements as well makes it inductive.                            *)

Owing(step, p) == {r \in Requests : pc[r] = step /\ Pair(r) = p}

Row(p) == IF p \in follows THEN 1 ELSE 0

EventsBalance ==
    \A p \in Pairs \ blind :
        published[p] + Cardinality(Owing("emitFollowed", p)) = Row(p) + Cardinality(Owing("emitUnfollowed", p))

LEMMA OwingFinite ==
    ASSUME NEW step, NEW p
    PROVE  IsFiniteSet(Owing(step, p)) /\ Cardinality(Owing(step, p)) \in Nat
BY RequestsAssumption, FS_Subset, FS_CardinalityType DEF Owing

(* A request that enters an emit step owes one announcement more, of its     *)
(* pair and kind; one that leaves it owes one less; the others owe the same. *)
LEMMA OwingGrows ==
    ASSUME Typed, NEW r \in Requests, NEW step \in EmitSteps, NEW s \in EmitSteps, NEW p,
           pc[r] \notin EmitSteps, pc[r] \in PairSteps, Await(r, step, EmitJob(r))
    PROVE  Cardinality(Owing(s, p)') = IF s = step /\ p = Pair(r)
                                         THEN Cardinality(Owing(s, p)) + 1
                                         ELSE Cardinality(Owing(s, p))
<1>1. /\ pc'[r] = step /\ Pair(r)' = Pair(r)
      /\ \A q \in Requests \ {r} : pc'[q] = pc[q] /\ Pair(q)' = Pair(q)
  BY OnlyMoves, EmitJobTyped DEF Pair
<1>2. CASE s = step /\ p = Pair(r)
  <2>1. Owing(s, p)' = Owing(s, p) \cup {r}
    BY <1>1, <1>2 DEF Owing
  <2>2. r \notin Owing(s, p)
    BY <1>2 DEF Owing
  <2>3. IsFiniteSet(Owing(s, p)) /\ Cardinality(Owing(s, p)) \in Nat
    BY OwingFinite
  <2>4. Cardinality(Owing(s, p) \cup {r}) = Cardinality(Owing(s, p)) + 1
    BY <2>2, <2>3, FS_AddElement
  <2>5. QED
    BY <1>2, <2>1, <2>4
<1>3. CASE ~ (s = step /\ p = Pair(r))
  <2>1. Owing(s, p)' = Owing(s, p)
    BY <1>1, <1>3 DEF Owing
  <2>2. QED
    BY <1>3, <2>1
<1>4. QED
  BY <1>2, <1>3

LEMMA OwingShrinks ==
    ASSUME Typed, NEW r \in Requests, NEW s \in EmitSteps, NEW p,
           pc[r] \in EmitSteps, Finish(r, "done")
    PROVE  Cardinality(Owing(s, p)') = IF s = pc[r] /\ p = Pair(r)
                                         THEN Cardinality(Owing(s, p)) - 1
                                         ELSE Cardinality(Owing(s, p))
<1>1. /\ pc' = [pc EXCEPT ![r] = "done"] /\ job' = [job EXCEPT ![r] = NoJob]
      /\ pc \in [Requests -> Steps] /\ job \in [Requests -> Jobs]
  BY DEF Finish, Await, Typed, TypeOK
<1>2. s # "done"
  BY DEF EmitSteps
<1>3. CASE s = pc[r] /\ p = Pair(r)
  <2>1. Owing(s, p)' = Owing(s, p) \ {r}
    BY <1>1, <1>2 DEF Owing, Pair
  <2>2. r \in Owing(s, p)
    BY <1>3 DEF Owing
  <2>3. IsFiniteSet(Owing(s, p)) /\ Cardinality(Owing(s, p)) \in Nat
    BY OwingFinite
  <2>4. Cardinality(Owing(s, p) \ {r}) = Cardinality(Owing(s, p)) - 1
    BY <2>2, <2>3, FS_RemoveElement
  <2>5. QED
    BY <1>3, <2>1, <2>4
<1>4. CASE ~ (s = pc[r] /\ p = Pair(r))
  <2>1. Owing(s, p)' = Owing(s, p)
    BY <1>1, <1>2, <1>4 DEF Owing, Pair
  <2>2. QED
    BY <1>4, <2>1
<1>5. QED
  BY <1>3, <1>4

LEMMA OwingSame ==
    ASSUME Typed, NEW r \in Requests, NEW s \in EmitSteps, NEW p, NEW step, NEW args,
           pc[r] \notin EmitSteps, step \notin EmitSteps, Await(r, step, args)
    PROVE  Owing(s, p)' = Owing(s, p)
<1>1. /\ pc' = [pc EXCEPT ![r] = step] /\ job' = [job EXCEPT ![r] = args]
      /\ pc \in [Requests -> Steps] /\ job \in [Requests -> Jobs]
  BY DEF Await, Typed, TypeOK
<1>2. QED
  BY <1>1 DEF Owing, Pair

LEMMA QuietBalance ==
    ASSUME EventsBalance, blind \subseteq blind', UNCHANGED published,
           \A p \in Pairs \ blind' : Row(p)' = Row(p),
           \A p \in Pairs, s \in EmitSteps : Owing(s, p)' = Owing(s, p)
    PROVE  EventsBalance'
BY DEF EventsBalance, EmitSteps

LEMMA EmitNames == EmitSteps = {"emitFollowed", "emitUnfollowed"}
BY DEF EmitSteps

LEMMA NextBalance == Typed /\ Held /\ EventsBalance /\ [Next]_vars => EventsBalance'
<1> SUFFICES ASSUME Typed, Held, EventsBalance, [Next]_vars PROVE EventsBalance'
  OBVIOUS
<1>1. ASSUME NEW r \in Requests, FollowCommit(r)
      PROVE  EventsBalance'
  <2>1. /\ pc[r] = "commitTx" /\ Await(r, "emitFollowed", EmitJob(r))
        /\ UNCHANGED <<published, blind>> /\ pc[r] \in PairSteps \ EmitSteps
    BY <1>1, StepNames DEF FollowCommit, history
  <2>2. Pair(r) \notin follows /\ follows' = follows \cup {Pair(r)}
    BY <1>1, CommitOwns DEF FollowCommit, RowHeld
  <2> SUFFICES ASSUME NEW p \in Pairs \ blind
               PROVE  published[p] + Cardinality(Owing("emitFollowed", p)') =
                        Row(p)' + Cardinality(Owing("emitUnfollowed", p)')
    BY <2>1 DEF EventsBalance
  <2>3. Cardinality(Owing("emitUnfollowed", p)') = Cardinality(Owing("emitUnfollowed", p))
    BY <2>1, OwingGrows, EmitNames
  <2>4. Cardinality(Owing("emitFollowed", p)') =
          IF p = Pair(r) THEN Cardinality(Owing("emitFollowed", p)) + 1
                         ELSE Cardinality(Owing("emitFollowed", p))
    BY <2>1, OwingGrows, EmitNames
  <2>5. Row(p)' = IF p = Pair(r) THEN Row(p) + 1 ELSE Row(p)
    BY <2>2 DEF Row
  <2>6. published[p] + Cardinality(Owing("emitFollowed", p)) =
          Row(p) + Cardinality(Owing("emitUnfollowed", p))
    BY DEF EventsBalance
  <2>7. published[p] \in Int /\ Row(p) \in Int
    BY DEF Typed, TypeOK, Row
  <2>8. QED
    BY <2>3, <2>4, <2>5, <2>6, <2>7, OwingFinite
<1>2. ASSUME NEW r \in Requests, UnfollowCommit(r)
      PROVE  EventsBalance'
  <2>1. /\ pc[r] = "commitTx" /\ Await(r, "emitUnfollowed", EmitJob(r))
        /\ UNCHANGED published /\ pc[r] \in PairSteps \ EmitSteps
    BY <1>2, StepNames DEF UnfollowCommit
  <2>2. \/ Pair(r) \in follows /\ follows' = follows \ {Pair(r)} /\ blind' = blind
        \/ follows' = follows /\ blind' = blind \cup {Pair(r)}
    BY <1>2, CommitOwns DEF UnfollowCommit, RowHeld
  <2> SUFFICES ASSUME NEW p \in Pairs \ blind'
               PROVE  published[p] + Cardinality(Owing("emitFollowed", p)') =
                        Row(p)' + Cardinality(Owing("emitUnfollowed", p)')
    BY <2>1 DEF EventsBalance
  <2>3. Cardinality(Owing("emitFollowed", p)') = Cardinality(Owing("emitFollowed", p))
    BY <2>1, OwingGrows, EmitNames
  <2>4. Cardinality(Owing("emitUnfollowed", p)') =
          IF p = Pair(r) THEN Cardinality(Owing("emitUnfollowed", p)) + 1
                         ELSE Cardinality(Owing("emitUnfollowed", p))
    BY <2>1, OwingGrows, EmitNames
  <2>5. Row(p)' = IF p = Pair(r) THEN Row(p) - 1 ELSE Row(p)
    BY <2>2 DEF Row
  <2>6. published[p] + Cardinality(Owing("emitFollowed", p)) =
          Row(p) + Cardinality(Owing("emitUnfollowed", p))
    BY <2>2 DEF EventsBalance
  <2>7. published[p] \in Int /\ Row(p) \in Int
    BY DEF Typed, TypeOK, Row
  <2>8. QED
    BY <2>3, <2>4, <2>5, <2>6, <2>7, OwingFinite
<1>3. ASSUME NEW r \in Requests, EmitFollowed(r)
      PROVE  EventsBalance'
  <2>1. /\ pc[r] = "emitFollowed" /\ Finish(r, "done") /\ UNCHANGED <<follows, blind>>
        /\ published' = [published EXCEPT ![Pair(r)] = @ + 1]
    BY <1>3 DEF EmitFollowed, Emit, db, history
  <2> SUFFICES ASSUME NEW p \in Pairs \ blind
               PROVE  published'[p] + Cardinality(Owing("emitFollowed", p)') =
                        Row(p) + Cardinality(Owing("emitUnfollowed", p)')
    BY <2>1 DEF EventsBalance, Row
  <2>2. Cardinality(Owing("emitUnfollowed", p)') = Cardinality(Owing("emitUnfollowed", p))
    BY <2>1, OwingShrinks, EmitNames
  <2>3. Cardinality(Owing("emitFollowed", p)') =
          IF p = Pair(r) THEN Cardinality(Owing("emitFollowed", p)) - 1
                         ELSE Cardinality(Owing("emitFollowed", p))
    BY <2>1, OwingShrinks, EmitNames
  <2>4. published'[p] = IF p = Pair(r) THEN published[p] + 1 ELSE published[p]
    BY <2>1 DEF Typed, TypeOK
  <2>5. published[p] \in Int /\ Row(p) \in Int
    BY DEF Typed, TypeOK, Row
  <2>6. QED
    BY <2>2, <2>3, <2>4, <2>5, OwingFinite DEF EventsBalance
<1>4. ASSUME NEW r \in Requests, EmitUnfollowed(r)
      PROVE  EventsBalance'
  <2>1. /\ pc[r] = "emitUnfollowed" /\ Finish(r, "done") /\ UNCHANGED <<follows, blind>>
        /\ published' = [published EXCEPT ![Pair(r)] = @ + (-1)]
    BY <1>4 DEF EmitUnfollowed, Emit, db, history
  <2> SUFFICES ASSUME NEW p \in Pairs \ blind
               PROVE  published'[p] + Cardinality(Owing("emitFollowed", p)') =
                        Row(p) + Cardinality(Owing("emitUnfollowed", p)')
    BY <2>1 DEF EventsBalance, Row
  <2>2. Cardinality(Owing("emitFollowed", p)') = Cardinality(Owing("emitFollowed", p))
    BY <2>1, OwingShrinks, EmitNames
  <2>3. Cardinality(Owing("emitUnfollowed", p)') =
          IF p = Pair(r) THEN Cardinality(Owing("emitUnfollowed", p)) - 1
                         ELSE Cardinality(Owing("emitUnfollowed", p))
    BY <2>1, OwingShrinks, EmitNames
  <2>4. published'[p] = IF p = Pair(r) THEN published[p] + (-1) ELSE published[p]
    BY <2>1 DEF Typed, TypeOK
  <2>5. published[p] \in Int /\ Row(p) \in Int
    BY DEF Typed, TypeOK, Row
  <2>6. QED
    BY <2>2, <2>3, <2>4, <2>5, OwingFinite DEF EventsBalance
<1>5. ASSUME NEW r \in Requests, NEW step, NEW args,
             pc[r] \notin EmitSteps, step \notin EmitSteps, Await(r, step, args),
             blind \subseteq blind', UNCHANGED published,
             \A p \in Pairs \ blind' : Row(p)' = Row(p)
      PROVE  EventsBalance'
  BY <1>5, OwingSame, QuietBalance
<1>6. ASSUME NEW r \in Requests, NEW step,
             pc[r] \notin EmitSteps, step \notin EmitSteps, Goto(r, step),
             UNCHANGED <<follows, blind, published>>
      PROVE  EventsBalance'
  <2>1. Await(r, step, job[r])
    BY <1>6 DEF Goto, Await, Typed, TypeOK
  <2>2. QED
    BY <1>5, <1>6, <2>1 DEF Row
<1>7. ASSUME NEW r \in Requests, Arrive(r)
      PROVE  EventsBalance'
  <2>1. ASSUME NEW ok, NEW step \in {"followTx", "unfollowTx", "deleteTx", "reload"}, NEW args,
               Begin(r, ok, step, args)
        PROVE  EventsBalance'
    BY <1>5, <2>1, EmitNames DEF Begin, Finish, db, history, Row
  <2>2. ASSUME NEW a \in Users, NEW t \in Users, Follow(r, a, t)
        PROVE  EventsBalance'
    BY <2>1, <2>2, Zenon DEF Follow
  <2>3. ASSUME NEW a \in Users, NEW t \in Users, Unfollow(r, a, t)
        PROVE  EventsBalance'
    BY <2>1, <2>3, Zenon DEF Unfollow
  <2>4. ASSUME NEW u \in Users, DeleteAccount(r, u)
        PROVE  EventsBalance'
    BY <2>1, <2>4, Zenon DEF DeleteAccount
  <2>5. ASSUME NEW u \in Users, SaveRead(r, u)
        PROVE  EventsBalance'
    BY <2>1, <2>5, Zenon DEF SaveRead
  <2>6. QED
    BY <1>7, <2>2, <2>3, <2>4, <2>5 DEF Arrive
<1>8. ASSUME NEW r \in Requests, DeleteCommit(r)
      PROVE  EventsBalance'
  <2>1. pc[r] \notin EmitSteps /\ Await(r, "done", NoJob) /\ UNCHANGED published
    BY <1>8, EmitNames DEF DeleteCommit, Finish
  <2>2. blind \subseteq blind' /\ \A p \in Pairs \ blind' : Row(p)' = Row(p)
    BY <1>8 DEF DeleteCommit, Row
  <2>3. QED
    BY <1>5, <2>1, <2>2, EmitNames
<1>9. ASSUME NEW r \in Requests,
             \/ FollowConflict(r) \/ TxAborted(r) \/ FollowInsert(r)
             \/ UnfollowDelete(r) \/ IncrementTarget(r) \/ IncrementActor(r)
      PROVE  EventsBalance'
  <2>1. pc[r] \in TxSteps /\ UNCHANGED <<follows, blind, published>>
    BY <1>9, StepNames DEF FollowConflict, TxAborted, FollowInsert, UnfollowDelete,
       IncrementTarget, IncrementActor, db, history
  <2>2. ASSUME NEW step \in HeldSteps \cup {"failed"}, NEW args, Await(r, step, args)
        PROVE  EventsBalance'
    BY <1>5, <2>1, <2>2, StepNames DEF Row
  <2>3. /\ "targetTx" \in HeldSteps \cup {"failed"} /\ "actorTx" \in HeldSteps \cup {"failed"}
        /\ "commitTx" \in HeldSteps \cup {"failed"} /\ "failed" \in HeldSteps \cup {"failed"}
    BY StepNames
  <2>4. CASE FollowInsert(r) \/ UnfollowDelete(r)
    BY <2>2, <2>3, <2>4 DEF FollowInsert, UnfollowDelete
  <2>5. CASE IncrementTarget(r) \/ IncrementActor(r)
    BY <2>2, <2>3, <2>5 DEF IncrementTarget, IncrementActor
  <2>6. CASE FollowConflict(r) \/ TxAborted(r)
    BY <2>2, <2>3, <2>6 DEF FollowConflict, TxAborted, Finish
  <2>7. QED
    BY <1>9, <2>4, <2>5, <2>6
<1>10. ASSUME NEW r \in Requests, SaveReload(r)
       PROVE  EventsBalance'
  <2>1. pc[r] \notin EmitSteps /\ UNCHANGED <<published, follows, blind>>
    BY <1>10, EmitNames DEF SaveReload, db, history
  <2>2. CASE Goto(r, "insert")
    BY <1>6, <2>1, <2>2, EmitNames
  <2>3. ASSUME NEW args, Await(r, "update", args)
        PROVE  EventsBalance'
    BY <1>5, <2>1, <2>3, EmitNames DEF Row
  <2>4. QED
    BY <1>10, <2>2, <2>3 DEF SaveReload
<1>11. ASSUME NEW r \in Requests, SaveUpdate(r) \/ SaveInsert(r)
       PROVE  EventsBalance'
  <2>1. pc[r] \notin EmitSteps /\ UNCHANGED <<published, follows, blind>>
    BY <1>11, EmitNames DEF SaveUpdate, SaveInsert, db, history
  <2>2. Await(r, "done", NoJob) \/ Await(r, "failed", NoJob)
    BY <1>11 DEF SaveUpdate, SaveInsert, Finish
  <2>3. QED
    BY <1>5, <2>1, <2>2, EmitNames DEF Row
<1>12. CASE UNCHANGED vars
  BY <1>12, QuietBalance DEF vars, db, history, Owing, Pair, Row
<1>13. QED
  BY <1>1, <1>2, <1>3, <1>4, <1>7, <1>8, <1>9, <1>10, <1>11, <1>12 DEF Next, Continue

(* The follow.followed and follow.unfollowed events of a pair say whether    *)
(* its row exists as soon as none of them is outstanding.                    *)
THEOREM EventsStayMatched == Spec => []EventsMatchGraph
<1>1. Init => EventsBalance
  <2> SUFFICES ASSUME Init, NEW p \in Pairs
               PROVE  published[p] + Cardinality(Owing("emitFollowed", p)) =
                        Row(p) + Cardinality(Owing("emitUnfollowed", p))
    BY DEF EventsBalance
  <2>1. Owing("emitFollowed", p) = {} /\ Owing("emitUnfollowed", p) = {}
    BY DEF Init, Owing
  <2>2. published[p] = Row(p) /\ Row(p) \in Int
    BY DEF Init, Row
  <2>3. QED
    BY <2>1, <2>2, FS_EmptySet
<1>2. Typed /\ EventsBalance => EventsMatchGraph
  <2> SUFFICES ASSUME Typed, EventsBalance, NEW p \in Pairs \ blind, ~ Announcing(p)
               PROVE  published[p] = Row(p)
    BY DEF EventsMatchGraph, Row
  <2>1. Owing("emitFollowed", p) = {} /\ Owing("emitUnfollowed", p) = {}
    BY EmitNames DEF Announcing, Owing
  <2>2. published[p] + 0 = Row(p) + 0
    BY <2>1, FS_EmptySet DEF EventsBalance
  <2>3. published[p] \in Int /\ Row(p) \in Int
    BY DEF Typed, TypeOK, Row
  <2>4. QED
    BY <2>2, <2>3
<1>3. Sound /\ EventsBalance /\ [Next]_vars => EventsBalance'
  BY NextBalance DEF Sound
<1>4. Sound => Typed
  BY DEF Sound
<1>5. QED
  BY <1>1, <1>2, <1>3, <1>4, InitSound, NextSound, PTL DEF Spec
=============================================================================
