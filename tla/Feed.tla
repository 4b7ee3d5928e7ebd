-------------------------------- MODULE Feed --------------------------------
(***************************************************************************)
(* The feed projection: feed_items rows kept up to date by asynchronous    *)
(* handlers of post and follow events.                                     *)
(*                                                                         *)
(* A slot of `tasks` is one chain of awaits in the Node process: a request *)
(* after its first read, or the @OnEvent handler its event starts.  The    *)
(* slot of a request is handed to the handler, because emit calls the      *)
(* handler before the request returns; the handler's own queries then      *)
(* interleave with everything else.  The number of slots bounds only how   *)
(* many chains are in flight at once, not how many run.                    *)
(*                                                                         *)
(* A feed slot is an <<owner, post>> pair.  lost, removed and late are     *)
(* history variables over feed slots that no action reads.                 *)
(***************************************************************************)
EXTENDS Integers, FiniteSets, FiniteSetsExt

CONSTANTS
    Users,
    Posts,
    Author,          \* the author of each post
    Slots,           \* chains of awaits in flight at the same time
    BackfillLimit,   \* BACKFILL_LIMIT, 20 in the code
    ChunkSize,       \* CHUNK_SIZE, 500 in the code
    Audiences,       \* visibilities in use: "PUBLIC", "RESTRICTED" (the other two)
    Outages,         \* TRUE: a handler's query may fail, or the process stop
    None             \* an absent argument

ASSUME PostsAssumption == IsFiniteSet(Posts)
ASSUME AuthorAssumption == Author \in [Posts -> Users]
ASSUME LimitsAssumption == BackfillLimit \in Nat \ {0} /\ ChunkSize \in Nat \ {0}
ASSUME AudiencesAssumption == "PUBLIC" \in Audiences /\ Audiences \subseteq {"PUBLIC", "RESTRICTED"}
ASSUME NoneAssumption == None \notin Users \cup Posts

VARIABLES
    accounts,     \* ids with a base_users row
    follows,      \* rows of follows, <<followerId, followingId>>
    state,        \* of each post: "none", "stamped", "live", "deleted", "gone"
    visibility,   \* of each post
    createdAt,    \* of each post, 0 while it has none
    items,        \* rows of feed_items, <<ownerId, postId>>
    cutoff,       \* createdAt up to which the nightly job has deleted items
    tasks,        \* the chains in flight
    lost,         \* history: feed slots whose handler died
    removed,      \* history: feed slots whose removal was ever ordered
    late          \* history: items inserted when they were not due

database == <<accounts, follows, state, visibility, createdAt, items, cutoff>>
history == <<lost, removed, late>>
vars == <<database, tasks, history>>

-----------------------------------------------------------------------------
FeedSlots == Users \X Posts

PostsOf(a) == {p \in Posts : Author[p] = a}

SlotsOf(o, a) == {o} \X PostsOf(a)

Clock == Cardinality({p \in Posts : createdAt[p] # 0})

RequestSteps == {"creating", "updating", "deleting", "unfollowing"}

HandlerSteps == {"fanOutRead", "fanOutInsert", "backfillRead", "backfillInsert",
                 "unfollowCleanup", "postCleanup"}

Task(step, owner, author, post, vis, batch) ==
    [step |-> step, owner |-> owner, author |-> author, post |-> post,
     vis |-> vis, batch |-> batch]

Idle == Task("idle", None, None, None, None, {})

OfPost(step, p) == Task(step, None, Author[p], p, None, {})
OfPair(step, o, a) == Task(step, o, a, None, None, {})

Init ==
    /\ accounts = Users
    /\ follows = {}
    /\ state = [p \in Posts |-> "none"]
    /\ visibility = [p \in Posts |-> "PUBLIC"]
    /\ createdAt = [p \in Posts |-> 0]
    /\ items = {}
    /\ cutoff = 0
    /\ tasks = [s \in Slots |-> Idle]
    /\ lost = {}
    /\ removed = {}
    /\ late = {}

Free(s) == tasks[s] = Idle

At(s, step) == tasks[s].step = step

Become(s, task) == tasks' = [tasks EXCEPT ![s] = task]

(* DELETE of some rows of feed_items                                         *)
DeleteItems(gone) ==
    /\ items' = items \ gone
    /\ late' = late \ gone

-----------------------------------------------------------------------------
(* PostsService.createPost: createdAt is the start of the INSERT's           *)
(* transaction, so posts may commit in another order than they are dated.    *)

BeginCreate(s, p, vis) ==
    /\ Free(s)
    /\ state[p] = "none"
    /\ state' = [state EXCEPT ![p] = "stamped"]
    /\ visibility' = [visibility EXCEPT ![p] = vis]
    /\ createdAt' = [createdAt EXCEPT ![p] = Clock + 1]
    /\ Become(s, OfPost("creating", p))
    /\ UNCHANGED <<accounts, follows, items, cutoff, history>>

CommitCreate(s) ==
    LET p == tasks[s].post
    IN  /\ At(s, "creating")
        /\ IF Author[p] \in accounts
             THEN /\ state' = [state EXCEPT ![p] = "live"]
                  /\ Become(s, OfPost("fanOutRead", p))
             ELSE /\ state' = [state EXCEPT ![p] = "gone"]
                  /\ Become(s, Idle)
        /\ UNCHANGED <<accounts, follows, visibility, createdAt, items, cutoff, history>>

(* PostsService.updatePost: the entity read is saved whole, so vis is what   *)
(* the request says, or what was read when it says nothing.                  *)
UpdateRead(s, p, vis) ==
    /\ Free(s)
    /\ state[p] = "live"
    /\ Become(s, Task("updating", None, Author[p], p, vis, {}))
    /\ UNCHANGED <<database, history>>

(* Bug: a post that is restricted is saved, but post.updated is not announced *)
UpdateSaveSilent(s) ==
    LET p == tasks[s].post
    IN  /\ At(s, "updating")
        /\ visibility' = [visibility EXCEPT ![p] = IF state[p] = "gone" THEN @ ELSE tasks[s].vis]
        /\ Become(s, Idle)
        /\ UNCHANGED <<accounts, follows, state, createdAt, items, cutoff, history>>

UpdateSave(s) ==
    LET p == tasks[s].post
        vis == tasks[s].vis
    IN  /\ At(s, "updating")
        /\ IF state[p] = "gone"
             THEN /\ Become(s, Idle)
                  /\ UNCHANGED <<visibility, removed>>
             ELSE /\ visibility' = [visibility EXCEPT ![p] = vis]
                  /\ IF vis = "RESTRICTED"
                       THEN /\ Become(s, OfPost("postCleanup", p))
                            /\ removed' = removed \cup (Users \X {p})
                       ELSE /\ Become(s, Idle)
                            /\ UNCHANGED removed
        /\ UNCHANGED <<accounts, follows, state, createdAt, items, cutoff, lost, late>>

(* PostsService.deletePost                                                   *)
DeleteRead(s, p) ==
    /\ Free(s)
    /\ state[p] = "live"
    /\ Become(s, OfPost("deleting", p))
    /\ UNCHANGED <<database, history>>

SoftDelete(s) ==
    LET p == tasks[s].post
    IN  /\ At(s, "deleting")
        /\ state' = [state EXCEPT ![p] = IF @ = "gone" THEN "gone" ELSE "deleted"]
        /\ removed' = removed \cup (Users \X {p})
        /\ Become(s, OfPost("postCleanup", p))
        /\ UNCHANGED <<accounts, follows, visibility, createdAt, items, cutoff, lost, late>>

-----------------------------------------------------------------------------
(* FollowService, as far as the feed sees it.  Follows of accounts that      *)
(* write no post move no item and are left out.                              *)

Follow(s, o, a) ==
    /\ Free(s)
    /\ o # a
    /\ {o, a} \subseteq accounts
    /\ <<o, a>> \notin follows
    /\ follows' = follows \cup {<<o, a>>}
    /\ Become(s, OfPair("backfillRead", o, a))
    /\ UNCHANGED <<accounts, state, visibility, createdAt, items, cutoff, history>>

UnfollowRead(s, o, a) ==
    /\ Free(s)
    /\ <<o, a>> \in follows
    /\ Become(s, OfPair("unfollowing", o, a))
    /\ UNCHANGED <<database, history>>

(* Bug: follow.unfollowed is not announced                                   *)
UnfollowSilent(s) ==
    /\ At(s, "unfollowing")
    /\ follows' = follows \ {<<tasks[s].owner, tasks[s].author>>}
    /\ Become(s, Idle)
    /\ UNCHANGED <<accounts, state, visibility, createdAt, items, cutoff, history>>

UnfollowCommit(s) ==
    LET o == tasks[s].owner
        a == tasks[s].author
    IN  /\ At(s, "unfollowing")
        /\ follows' = follows \ {<<o, a>>}
        /\ removed' = removed \cup SlotsOf(o, a)
        /\ Become(s, OfPair("unfollowCleanup", o, a))
        /\ UNCHANGED <<accounts, state, visibility, createdAt, items, cutoff, lost, late>>

(* Deleting an account cascades to its follows, its posts and their items    *)
DeleteAccount(u) ==
    /\ u \in accounts
    /\ accounts' = accounts \ {u}
    /\ follows' = {e \in follows : u \notin {e[1], e[2]}}
    /\ state' = [p \in Posts |-> IF Author[p] = u /\ state[p] \in {"live", "deleted"}
                                   THEN "gone" ELSE state[p]]
    /\ DeleteItems({i \in items : i[1] = u \/ Author[i[2]] = u})
    /\ UNCHANGED <<visibility, createdAt, cutoff, tasks, lost, removed>>

-----------------------------------------------------------------------------
(* FeedEventListener and FeedService                                         *)

FollowersOf(a) == {o \in Users : <<o, a>> \in follows}

FanOutRead(s) ==
    LET p == tasks[s].post
        owners == {Author[p]} \cup FollowersOf(Author[p])
    IN  /\ At(s, "fanOutRead")
        /\ Become(s, [tasks[s] EXCEPT !.step = "fanOutInsert", !.batch = owners \X {p}])
        /\ UNCHANGED <<database, history>>

(* Bug: ORDER BY createdAt ASC                                               *)
Oldest(a, n) ==
    LET shown == {p \in PostsOf(a) : state[p] = "live"}
    IN  {p \in shown : Cardinality({q \in shown : createdAt[q] < createdAt[p]}) < n}

(* ORDER BY createdAt DESC LIMIT n over the posts of a not soft-deleted      *)
Recent(a, n) ==
    LET shown == {p \in PostsOf(a) : state[p] = "live"}
    IN  {p \in shown : Cardinality({q \in shown : createdAt[q] > createdAt[p]}) < n}

BackfillRead(s) ==
    LET o == tasks[s].owner
        batch == {o} \X Recent(tasks[s].author, BackfillLimit)
    IN  /\ At(s, "backfillRead")
        /\ IF batch = {}
             THEN Become(s, Idle)
             ELSE Become(s, [tasks[s] EXCEPT !.step = "backfillInsert", !.batch = batch])
        /\ UNCHANGED <<database, history>>

(* An item is due to its owner while the listener would leave it there: the  *)
(* cleanups take out deleted posts, those of authors no longer followed, and *)
(* restricted posts.  A fan-out and a backfill do not read the visibility.   *)
Due(o, p) ==
    /\ state[p] = "live" /\ visibility[p] = "PUBLIC"
    /\ o = Author[p] \/ <<o, Author[p]>> \in follows

(* One INSERT ... ON CONFLICT DO NOTHING of FeedRepository.bulkInsert.  The  *)
(* author heads the list of owners, so it is in the first chunk.  A missing  *)
(* owner or post fails the statement and the rest of the batch with it.      *)
Chunks(s) ==
    LET batch == tasks[s].batch
        own == {i \in batch : i[1] = Author[i[2]]}
        size == IF Cardinality(batch) < ChunkSize THEN Cardinality(batch) ELSE ChunkSize
    IN  {chunk \in kSubset(size, batch) : own \subseteq chunk}

Referenced(i) == i[1] \in accounts /\ state[i[2]] \in {"live", "deleted"}

(* Bug: the loop over the chunks ends after the first                        *)
InsertFirstChunk(s) ==
    /\ tasks[s].step \in {"fanOutInsert", "backfillInsert"}
    /\ \E chunk \in Chunks(s) :
         IF \A i \in chunk : Referenced(i)
           THEN /\ items' = items \cup chunk
                /\ late' = late \cup {i \in chunk \ items : ~ Due(i[1], i[2])}
                /\ UNCHANGED lost
           ELSE /\ lost' = lost \cup tasks[s].batch
                /\ UNCHANGED <<items, late>>
    /\ Become(s, Idle)
    /\ UNCHANGED <<accounts, follows, state, visibility, createdAt, cutoff, removed>>

InsertChunk(s) ==
    /\ tasks[s].step \in {"fanOutInsert", "backfillInsert"}
    /\ \E chunk \in Chunks(s) :
         IF \A i \in chunk : Referenced(i)
           THEN /\ items' = items \cup chunk
                /\ late' = late \cup {i \in chunk \ items : ~ Due(i[1], i[2])}
                /\ IF chunk = tasks[s].batch
                     THEN Become(s, Idle)
                     ELSE Become(s, [tasks[s] EXCEPT !.batch = @ \ chunk])
                /\ UNCHANGED lost
           ELSE /\ lost' = lost \cup tasks[s].batch
                /\ Become(s, Idle)
                /\ UNCHANGED <<items, late>>
    /\ UNCHANGED <<accounts, follows, state, visibility, createdAt, cutoff, removed>>

UnfollowCleanup(s) ==
    /\ At(s, "unfollowCleanup")
    /\ DeleteItems(SlotsOf(tasks[s].owner, tasks[s].author))
    /\ Become(s, Idle)
    /\ UNCHANGED <<accounts, follows, state, visibility, createdAt, cutoff, lost, removed>>

PostCleanup(s) ==
    /\ At(s, "postCleanup")
    /\ DeleteItems(Users \X {tasks[s].post})
    /\ Become(s, Idle)
    /\ UNCHANGED <<accounts, follows, state, visibility, createdAt, cutoff, lost, removed>>

(* The feed slots a handler still has to serve                               *)
Serves(s) ==
    CASE At(s, "fanOutRead") \/ At(s, "postCleanup") -> Users \X {tasks[s].post}
      [] At(s, "fanOutInsert") \/ At(s, "backfillInsert") -> tasks[s].batch
      [] At(s, "backfillRead") \/ At(s, "unfollowCleanup") ->
           SlotsOf(tasks[s].owner, tasks[s].author)
      [] OTHER -> {}

(* Bug: a failed handler is put back for a retry that no code performs       *)
HandlerRetried(s) ==
    /\ Outages
    /\ tasks[s].step \in HandlerSteps
    /\ Become(s, [tasks[s] EXCEPT !.step = "retry"])
    /\ UNCHANGED <<database, history>>

(* A query of a handler throws, which is logged and forgotten, or the        *)
(* process stops: the events live in memory only.                            *)
HandlerDies(s) ==
    /\ Outages
    /\ tasks[s].step \in HandlerSteps
    /\ lost' = lost \cup Serves(s)
    /\ Become(s, Idle)
    /\ UNCHANGED <<database, removed, late>>

(* FeedCleanupJob: at 03:00, the items of posts older than RETENTION_DAYS    *)
Expire ==
    /\ cutoff < Clock
    /\ cutoff' = cutoff + 1
    /\ DeleteItems({i \in items : createdAt[i[2]] <= cutoff'})
    /\ UNCHANGED <<accounts, follows, state, visibility, createdAt, tasks, lost, removed>>

-----------------------------------------------------------------------------
Arrive(s) ==
    \/ \E p \in Posts, vis \in Audiences : BeginCreate(s, p, vis) \/ UpdateRead(s, p, vis)
    \/ \E p \in Posts : DeleteRead(s, p)
    \/ \E o \in Users, p \in Posts : Follow(s, o, Author[p]) \/ UnfollowRead(s, o, Author[p])

Continue(s) ==
    \/ CommitCreate(s)
    \/ UpdateSave(s)
    \/ SoftDelete(s)
    \/ UnfollowCommit(s)
    \/ FanOutRead(s)
    \/ BackfillRead(s)
    \/ InsertChunk(s)
    \/ UnfollowCleanup(s)
    \/ PostCleanup(s)

Next ==
    \/ \E s \in Slots : Arrive(s) \/ Continue(s) \/ HandlerDies(s)
    \/ \E u \in Users : DeleteAccount(u)
    \/ Expire

Spec == Init /\ [][Next]_vars

(* A chain of awaits goes on: the database answers each query, or the query  *)
(* fails.                                                                    *)
FairSpec == Spec /\ \A s \in Slots : WF_vars(Continue(s))

-----------------------------------------------------------------------------
(* Correctness                                                               *)

TypeOK ==
    /\ accounts \in SUBSET Users
    /\ follows \in SUBSET (Users \X Users)
    /\ state \in [Posts -> {"none", "stamped", "live", "deleted", "gone"}]
    /\ visibility \in [Posts -> Audiences]
    /\ createdAt \in [Posts -> Nat]
    /\ items \in SUBSET FeedSlots
    /\ cutoff \in Nat
    /\ tasks \in [Slots -> [step: {"idle"} \cup RequestSteps \cup HandlerSteps,
                            owner: Users \cup {None}, author: Users \cup {None},
                            post: Posts \cup {None},
                            vis: Audiences \cup {None},
                            batch: SUBSET FeedSlots]]
    /\ lost \in SUBSET FeedSlots
    /\ removed \in SUBSET FeedSlots
    /\ late \in SUBSET items

Adds(s) == tasks[s].step \in {"fanOutRead", "fanOutInsert", "backfillRead", "backfillInsert"}

Cleans(s) == tasks[s].step \in {"unfollowCleanup", "postCleanup"}

Newest(p) ==
    Cardinality({q \in PostsOf(Author[p]) : createdAt[q] > createdAt[p]}) < BackfillLimit

(* The newest posts of an author, as many as a backfill reads, are in the    *)
(* feed of everyone who follows that author and never unfollowed, as soon as *)
(* no fan-out or backfill for that slot is in flight: whichever of fan-out   *)
(* and backfill reads first, one of them sees both the post and the follow.  *)
(* Nothing is asked of a post that is restricted now or was when updated.    *)
FeedComplete ==
    \A o \in accounts, p \in Posts :
        /\ Due(o, p)
        /\ o = Author[p] \/ Newest(p)
        /\ createdAt[p] > cutoff
        /\ <<o, p>> \notin lost \cup removed
        /\ \A s \in Slots : Adds(s) => <<o, p>> \notin Serves(s)
        => <<o, p>> \in items

(* An item whose owner does not follow the author, or whose post is deleted  *)
(* or restricted, is there only because its cleanup is still in flight or    *)
(* has died, or because a fan-out or backfill inserted it when it was not    *)
(* due: too late, or a restricted post's, whose visibility neither reads.    *)
FeedSound ==
    \A i \in items \ (late \cup lost) :
        \/ Due(i[1], i[2])
        \/ \E s \in Slots : Cleans(s) /\ i \in Serves(s)

(* A public post reaches every follower who keeps following and who sees it  *)
(* among the author's newest, or its handler dies.                           *)
Reachable(o, p) ==
    /\ Due(o, p)
    /\ o = Author[p] \/ Newest(p)
    /\ createdAt[p] > cutoff
    /\ o \in accounts
    /\ <<o, p>> \notin lost \cup removed

PostsReachFollowers ==
    \A o \in Users, p \in Posts : Reachable(o, p) ~> (<<o, p>> \in items \/ ~ Reachable(o, p))
=============================================================================
