---------------------------- MODULE SocialGraph ----------------------------
(***************************************************************************)
(* The follow graph and the counters denormalised into base_users.        *)
(*                                                                         *)
(* Every HTTP request is a process that awaits the database between the    *)
(* steps named by its pc, so the steps of different requests interleave.   *)
(* The transactions of follow and unfollow run one statement a step: what  *)
(* a statement writes stays in the job, unseen by others, until the        *)
(* commit; the rows are locked meanwhile, and a statement of another       *)
(* request that would write them waits.  TxAborted ends a transaction      *)
(* between any two statements: an error of one, a deadlock victim, a lost  *)
(* connection.  The deletion of an account commits in one step, which      *)
(* waits for the same locks.                                               *)
(*                                                                         *)
(* skewed and blind are history variables: they record which accounts and  *)
(* pairs met one of the three races the code leaves open, and no action    *)
(* reads them.                                                             *)
(***************************************************************************)
EXTENDS Integers, FiniteSets

CONSTANTS
    Users,      \* ids of base_users rows, past and present
    Requests,   \* HTTP requests, each served once
    NoUser,     \* "no argument", outside Users
    Completed   \* accounts that start with a user or brand profile

ASSUME UsersAssumption == IsFiniteSet(Users)
ASSUME RequestsAssumption == IsFiniteSet(Requests)
ASSUME NoUserAssumption == NoUser \notin Users
ASSUME CompletedAssumption == Completed \subseteq Users

VARIABLES
    accounts,         \* ids with a base_users row
    profiles,         \* accounts with a user or brand profile row
    follows,          \* the rows of follows, as <<followerId, followingId>>
    followersCount,   \* column of base_users
    followingCount,   \* column of base_users
    published,        \* follow.followed minus follow.unfollowed events, by pair
    pc,               \* where each request is
    job,              \* its arguments and the entity it holds in memory
    skewed,           \* history: accounts hit by a counter race
    blind             \* history: pairs whose row and events parted

db == <<accounts, profiles, follows, followersCount, followingCount>>
history == <<skewed, blind>>
vars == <<db, published, pc, job, history>>

-----------------------------------------------------------------------------
Pairs == Users \X Users

Columns == {"followersCount", "followingCount"}

(* A transaction past its first statement, which may hold locks              *)
HeldSteps == {"targetTx", "actorTx", "commitTx"}

TxSteps == {"followTx", "unfollowTx", "deleteTx"} \cup HeldSteps

SaveSteps == {"reload", "update", "insert"}

EmitSteps == {"emitFollowed", "emitUnfollowed"}

Outcomes == {"done", "rejected", "failed"}

Steps == {"idle"} \cup TxSteps \cup SaveSteps \cup EmitSteps \cup Outcomes

(* What a request holds: the copy of the counters a save will write, or      *)
(* those an open transaction has written; which of them, and the row of      *)
(* follows, it writes; and whether it adds the row (1) or removes it (-1).   *)
Jobs == [actor: Users \cup {NoUser}, target: Users \cup {NoUser},
         followersCount: Int, followingCount: Int,
         writes: SUBSET (Columns \cup {"row"}), n: {-1, 0, 1}]

JobFor(a, t, followers, following, writes) ==
    [actor |-> a, target |-> t, followersCount |-> followers,
     followingCount |-> following, writes |-> writes, n |-> 0]

NoJob == JobFor(NoUser, NoUser, 0, 0, {})

PairJob(a, t) == JobFor(a, t, 0, 0, {})

AccountJob(u) == JobFor(u, NoUser, 0, 0, {})

Pair(r) == <<job[r].actor, job[r].target>>

Followers(u) == {f \in Users : <<f, u>> \in follows}

Following(u) == {t \in Users : <<u, t>> \in follows}

Edges(u) == {e \in follows : u \in {e[1], e[2]}}

(* Any committed database in which the counters are right, and whose follows *)
(* were all announced, may be the start of the requests modelled here.       *)
Init ==
    /\ accounts = Users
    /\ profiles = Completed
    /\ follows \in SUBSET {p \in Pairs : p[1] # p[2]}
    /\ followersCount = [u \in Users |-> Cardinality(Followers(u))]
    /\ followingCount = [u \in Users |-> Cardinality(Following(u))]
    /\ published = [p \in Pairs |-> IF p \in follows THEN 1 ELSE 0]
    /\ pc = [r \in Requests |-> "idle"]
    /\ job = [r \in Requests |-> NoJob]
    /\ skewed = {}
    /\ blind = {}

-----------------------------------------------------------------------------
(* Control of one request.                                                   *)

Await(r, step, args) ==
    /\ pc' = [pc EXCEPT ![r] = step]
    /\ job' = [job EXCEPT ![r] = args]

Goto(r, step) ==
    /\ pc' = [pc EXCEPT ![r] = step]
    /\ UNCHANGED job

Finish(r, outcome) == Await(r, outcome, NoJob)

Begin(r, ok, step, args) ==
    /\ pc[r] = "idle"
    /\ IF ok THEN Await(r, step, args) ELSE Finish(r, "rejected")
    /\ UNCHANGED <<db, published, history>>

(* What an open transaction has written, and so locked                       *)

HoldsRow(q, p) ==
    pc[q] \in HeldSteps /\ "row" \in job[q].writes /\ Pair(q) = p

HoldsAccount(q, u) ==
    /\ pc[q] \in HeldSteps
    /\ \/ "followersCount" \in job[q].writes /\ job[q].target = u
       \/ "followingCount" \in job[q].writes /\ job[q].actor = u

RowTaken(r, p) == \E q \in Requests \ {r} : HoldsRow(q, p)

Locked(r, u) == \E q \in Requests \ {r} : HoldsAccount(q, u)

-----------------------------------------------------------------------------
(* FollowService.follow: the actor is whoever the access token names, which  *)
(* may be an account deleted since the token was signed.                     *)

(* Bug: the self-follow check is missing                                    *)
FollowSelf(r, a, t) ==
    Begin(r, t \in accounts, "followTx", PairJob(a, t))

Follow(r, a, t) ==
    Begin(r, a # t /\ t \in accounts, "followTx", PairJob(a, t))

(* The INSERT waits for a transaction that holds a row of the same key.      *)
FollowInsert(r) ==
    /\ pc[r] = "followTx"
    /\ ~ RowTaken(r, Pair(r))
    /\ {job[r].actor, job[r].target} \subseteq accounts
    /\ Pair(r) \notin follows
    /\ Await(r, "targetTx", [job[r] EXCEPT !.writes = {"row"}, !.n = 1])
    /\ UNCHANGED <<db, published, history>>

Refused(r) ==
    \/ Pair(r) \in follows
    \/ ~ ({job[r].actor, job[r].target} \subseteq accounts)

(* Bug: the catch block swallows the constraint violation and goes on        *)
ConflictSwallowed(r) ==
    /\ pc[r] = "followTx"
    /\ ~ RowTaken(r, Pair(r))
    /\ Refused(r)
    /\ Goto(r, "emitFollowed")
    /\ UNCHANGED <<db, published, history>>

(* Bug: the conflict is queued for a retry that no code performs             *)
ConflictRetried(r) ==
    /\ pc[r] = "followTx"
    /\ ~ RowTaken(r, Pair(r))
    /\ Refused(r)
    /\ Goto(r, "retry")
    /\ UNCHANGED <<db, published, history>>

(* The INSERT violates the unique constraint (409) or a foreign key (500).   *)
FollowConflict(r) ==
    /\ pc[r] = "followTx"
    /\ ~ RowTaken(r, Pair(r))
    /\ Refused(r)
    /\ Finish(r, "failed")
    /\ UNCHANGED <<db, published, history>>

-----------------------------------------------------------------------------
(* FollowService.unfollow: the row is looked up before the transaction, and  *)
(* the transaction decrements whether or not its DELETE found the row.       *)

Unfollow(r, a, t) ==
    Begin(r, <<a, t>> \in follows, "unfollowTx", PairJob(a, t))

UnfollowDelete(r) ==
    /\ pc[r] = "unfollowTx"
    /\ Pair(r) \in follows => ~ RowTaken(r, Pair(r))
    /\ Await(r, "targetTx",
             [job[r] EXCEPT !.writes = IF Pair(r) \in follows THEN {"row"} ELSE {},
                            !.n = -1])
    /\ UNCHANGED <<db, published, history>>

-----------------------------------------------------------------------------
(* manager.increment, of both transactions: Postgres adds to the committed   *)
(* value under the row's lock, and an UPDATE of a missing row touches        *)
(* nothing.                                                                  *)

(* Bug: the increment goes through the repository, outside the transaction   *)
IncrementOutside(r) ==
    /\ pc[r] = "targetTx"
    /\ ~ Locked(r, job[r].target)
    /\ followersCount' = [followersCount EXCEPT ![job[r].target] =
                            IF job[r].target \in accounts THEN @ + job[r].n ELSE @]
    /\ Goto(r, "actorTx")
    /\ UNCHANGED <<accounts, profiles, follows, followingCount, published, history>>

IncrementTarget(r) ==
    LET t == job[r].target
    IN  /\ pc[r] = "targetTx"
        /\ ~ Locked(r, t)
        /\ Await(r, "actorTx",
                 IF t \in accounts
                   THEN [job[r] EXCEPT !.followersCount = followersCount[t] + job[r].n,
                                       !.writes = @ \cup {"followersCount"}]
                   ELSE job[r])
        /\ UNCHANGED <<db, published, history>>

IncrementActor(r) ==
    LET a == job[r].actor
    IN  /\ pc[r] = "actorTx"
        /\ ~ Locked(r, a)
        /\ Await(r, "commitTx",
                 IF a \in accounts
                   THEN [job[r] EXCEPT !.followingCount = followingCount[a] + job[r].n,
                                       !.writes = @ \cup {"followingCount"}]
                   ELSE job[r])
        /\ UNCHANGED <<db, published, history>>

(* The commit shows the other requests the counters the transaction wrote.   *)
ShowCounters(r) ==
    /\ followersCount' = IF "followersCount" \in job[r].writes
         THEN [followersCount EXCEPT ![job[r].target] = job[r].followersCount]
         ELSE followersCount
    /\ followingCount' = IF "followingCount" \in job[r].writes
         THEN [followingCount EXCEPT ![job[r].actor] = job[r].followingCount]
         ELSE followingCount

EmitJob(r) == PairJob(job[r].actor, job[r].target)

FollowCommit(r) ==
    /\ pc[r] = "commitTx"
    /\ job[r].n = 1
    /\ follows' = follows \cup {Pair(r)}
    /\ ShowCounters(r)
    /\ Await(r, "emitFollowed", EmitJob(r))
    /\ UNCHANGED <<accounts, profiles, published, history>>

UnfollowCommit(r) ==
    LET found == "row" \in job[r].writes
    IN  /\ pc[r] = "commitTx"
        /\ job[r].n = -1
        /\ follows' = IF found THEN follows \ {Pair(r)} ELSE follows
        /\ ShowCounters(r)
        /\ skewed' = IF found THEN skewed ELSE skewed \cup {job[r].actor, job[r].target}
        /\ blind' = IF found THEN blind ELSE blind \cup {Pair(r)}
        /\ Await(r, "emitUnfollowed", EmitJob(r))
        /\ UNCHANGED <<accounts, profiles, published>>

(* eventEmitter.emit, which runs only after the commit was awaited           *)
Emit(r, step, n) ==
    /\ pc[r] = step
    /\ published' = [published EXCEPT ![Pair(r)] = @ + n]
    /\ Finish(r, "done")
    /\ UNCHANGED <<db, history>>

EmitFollowed(r) == Emit(r, "emitFollowed", 1)
EmitUnfollowed(r) == Emit(r, "emitUnfollowed", -1)

-----------------------------------------------------------------------------
(* UserService.deleteAccount and BrandService.deleteProfile: the foreign     *)
(* keys of follows cascade, and nobody adjusts the other ends' counters.     *)
(* The DELETE waits for a transaction that wrote the row of base_users, or   *)
(* a row of follows that points at it.                                       *)

InUse(r, u) ==
    Locked(r, u) \/ \E p \in Pairs : u \in {p[1], p[2]} /\ RowTaken(r, p)

DeleteAccount(r, u) ==
    Begin(r, u \in profiles, "deleteTx", AccountJob(u))

DeleteCommit(r) ==
    LET u == job[r].actor
    IN  /\ pc[r] = "deleteTx"
        /\ ~ InUse(r, u)
        /\ accounts' = accounts \ {u}
        /\ profiles' = profiles \ {u}
        /\ follows' = follows \ Edges(u)
        /\ followersCount' = [followersCount EXCEPT ![u] = 0]
        /\ followingCount' = [followingCount EXCEPT ![u] = 0]
        /\ skewed' = skewed \cup Followers(u) \cup Following(u)
        /\ blind' = blind \cup Edges(u)
        /\ Finish(r, "done")
        /\ UNCHANGED published

(* The transaction is rolled back, and what its statements wrote with it.    *)
TxAborted(r) ==
    /\ pc[r] \in TxSteps
    /\ Finish(r, "failed")
    /\ UNCHANGED <<db, published, history>>

-----------------------------------------------------------------------------
(* BaseUsersRepository.update, behind verifyEmail, resetPassword and both    *)
(* completeProfile handlers: findById, assign, then TypeORM's save of the    *)
(* whole entity, which reloads the row, UPDATEs the columns that differ from *)
(* the copy in memory and INSERTs the copy when the row is gone.             *)

SaveRead(r, u) ==
    Begin(r, u \in accounts, "reload",
          JobFor(u, NoUser, followersCount[u], followingCount[u], {}))

SaveReload(r) ==
    LET u == job[r].actor
        differ == {c \in Columns :
                     \/ c = "followersCount" /\ followersCount[u] # job[r].followersCount
                     \/ c = "followingCount" /\ followingCount[u] # job[r].followingCount}
    IN  /\ pc[r] = "reload"
        /\ IF u \in accounts
             THEN Await(r, "update", JobFor(u, NoUser, job[r].followersCount,
                                            job[r].followingCount, differ))
             ELSE Goto(r, "insert")
        /\ UNCHANGED <<db, published, history>>

(* Overwrites: the columns UPDATE sets to the stale copy                     *)
SaveUpdate(r) ==
    LET u == job[r].actor
        writes(c) == u \in accounts /\ c \in job[r].writes
    IN  /\ pc[r] = "update"
        /\ u \in accounts => ~ Locked(r, u)
        /\ followersCount' = [followersCount EXCEPT
             ![u] = IF writes("followersCount") THEN job[r].followersCount ELSE @]
        /\ followingCount' = [followingCount EXCEPT
             ![u] = IF writes("followingCount") THEN job[r].followingCount ELSE @]
        /\ skewed' = IF u \in accounts /\ job[r].writes # {} THEN skewed \cup {u} ELSE skewed
        /\ Finish(r, "done")
        /\ UNCHANGED <<accounts, profiles, follows, published, blind>>

SaveInsert(r) ==
    LET u == job[r].actor
    IN  /\ pc[r] = "insert"
        /\ IF u \in accounts
             THEN /\ Finish(r, "failed")
                  /\ UNCHANGED <<db, history>>
             ELSE /\ accounts' = accounts \cup {u}
                  /\ followersCount' = [followersCount EXCEPT ![u] = job[r].followersCount]
                  /\ followingCount' = [followingCount EXCEPT ![u] = job[r].followingCount]
                  /\ skewed' = skewed \cup {u}
                  /\ Finish(r, "done")
                  /\ UNCHANGED <<profiles, follows, blind>>
        /\ UNCHANGED published

-----------------------------------------------------------------------------
Arrive(r) ==
    \/ \E a, t \in Users : Follow(r, a, t)
    \/ \E a, t \in Users : Unfollow(r, a, t)
    \/ \E u \in Users : DeleteAccount(r, u)
    \/ \E u \in Users : SaveRead(r, u)

Continue(r) ==
    \/ FollowInsert(r)
    \/ FollowConflict(r)
    \/ UnfollowDelete(r)
    \/ IncrementTarget(r)
    \/ IncrementActor(r)
    \/ FollowCommit(r)
    \/ UnfollowCommit(r)
    \/ EmitFollowed(r)
    \/ EmitUnfollowed(r)
    \/ DeleteCommit(r)
    \/ TxAborted(r)
    \/ SaveReload(r)
    \/ SaveUpdate(r)
    \/ SaveInsert(r)

Next == \E r \in Requests : Arrive(r) \/ Continue(r)

Spec == Init /\ [][Next]_vars

-----------------------------------------------------------------------------
(* Correctness                                                               *)

TypeOK ==
    /\ accounts \in SUBSET Users
    /\ profiles \in SUBSET Users
    /\ follows \in SUBSET Pairs
    /\ followersCount \in [Users -> Int]
    /\ followingCount \in [Users -> Int]
    /\ published \in [Pairs -> Int]
    /\ pc \in [Requests -> Steps]
    /\ job \in [Requests -> Jobs]
    /\ skewed \in SUBSET Users
    /\ blind \in SUBSET Pairs

(* An edge of the graph joins two different accounts that exist, whatever    *)
(* deletions and stale saves ran between a request's check and its commit.   *)
GraphWellFormed ==
    \A e \in follows : e[1] # e[2] /\ {e[1], e[2]} \subseteq accounts

(* followersCount and followingCount equal the rows they count, for every    *)
(* account that met none of: an unfollow whose row was already gone, the     *)
(* deletion of an account it had an edge with, a save of a stale entity.     *)
(* A transaction that dies between its statements is no excuse: its row and  *)
(* both increments are undone together.                                      *)
CountersExact ==
    \A u \in accounts \ skewed :
        /\ followersCount[u] = Cardinality(Followers(u))
        /\ followingCount[u] = Cardinality(Following(u))

Announcing(p) == \E r \in Requests : pc[r] \in EmitSteps /\ Pair(r) = p

(* The feed and the broker learn of the graph from follow.followed and       *)
(* follow.unfollowed alone: once no announcement of a pair is outstanding,   *)
(* the events say whether the row is there, unless the row went by a cascade *)
(* or an unfollow announced a row that another had removed.                  *)
EventsMatchGraph ==
    \A p \in Pairs \ blind :
        ~ Announcing(p) => published[p] = IF p \in follows THEN 1 ELSE 0

(* What the unfollow test asserts, asked of concurrent requests too: undoing *)
(* a follow brings a counter back to 0, never below.                         *)
CountersNeverNegative ==
    \A u \in accounts : followersCount[u] >= 0 /\ followingCount[u] >= 0
=============================================================================
