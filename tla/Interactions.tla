---------------------------- MODULE Interactions ----------------------------
(***************************************************************************)
(* The likes and comments of one post, and the two counters of its row.    *)
(*                                                                         *)
(* No operation of InteractionsService touches two posts, so one post      *)
(* stands for all.  Every request is a process that awaits the database    *)
(* between its steps; a transaction commits in one step, as in SocialGraph. *)
(* A like is named by its user, which the unique constraint justifies.     *)
(*                                                                         *)
(* skewed is a history variable: the counters hit by one of the races the  *)
(* code leaves open.  No action reads it.                                  *)
(***************************************************************************)
EXTENDS Integers, FiniteSets

CONSTANTS
    Users,
    Comments,     \* ids of comments rows, past and future
    Writer,       \* the author of each comment
    PostAuthor,   \* the author of the post
    Requests,     \* HTTP requests, each served once
    None          \* an absent argument

ASSUME UsersAssumption == IsFiniteSet(Users) /\ PostAuthor \in Users
ASSUME CommentsAssumption ==
    IsFiniteSet(Comments) /\ Writer \in [Comments -> Users] /\ Comments \cap Users = {}
ASSUME RequestsAssumption == IsFiniteSet(Requests)
ASSUME NoneAssumption == None \notin Users \cup Comments

VARIABLES
    accounts,         \* ids with a base_users row
    post,             \* "live", "deleted" (soft), "gone" (no row)
    likes,            \* users with a likes row
    comments,         \* of each comment: "none", "live", "deleted", "gone"
    reactionsCount,   \* column of the post
    commentsCount,    \* column of the post
    announced,        \* of each like and comment: creation minus removal events
    pc,
    job,              \* arguments, and the entity a request holds in memory
    skewed

rows == <<accounts, post, likes, comments>>
db == <<rows, reactionsCount, commentsCount>>
vars == <<db, announced, pc, job, skewed>>

-----------------------------------------------------------------------------
Columns == {"reactionsCount", "commentsCount"}

TxSteps == {"reactTx", "unreactTx", "commentTx", "uncommentTx"}

OtherSteps == {"reactLookup", "unreactLookup", "commentOwner", "commentReload",
               "commentSave", "postReload", "postSave", "postDelete",
               "emitCreated", "emitRemoved"}

Outcomes == {"done", "rejected", "failed"}

JobFor(subject, actor, reactions, written, dirty) ==
    [subject |-> subject, actor |-> actor, reactionsCount |-> reactions,
     commentsCount |-> written, dirty |-> dirty]

NoJob == JobFor(None, None, 0, 0, {})

LiveComments == {c \in Comments : comments[c] = "live"}

(* The post has just been created by its author                              *)
Init ==
    /\ accounts = Users
    /\ post = "live"
    /\ likes = {}
    /\ comments = [c \in Comments |-> "none"]
    /\ reactionsCount = 0
    /\ commentsCount = 0
    /\ announced = [x \in Users \cup Comments |-> 0]
    /\ pc = [r \in Requests |-> "idle"]
    /\ job = [r \in Requests |-> NoJob]
    /\ skewed = {}

Await(r, step, args) ==
    /\ pc' = [pc EXCEPT ![r] = step]
    /\ job' = [job EXCEPT ![r] = args]

Goto(r, step) ==
    /\ pc' = [pc EXCEPT ![r] = step]
    /\ UNCHANGED job

Finish(r, outcome) == Await(r, outcome, NoJob)

Begin(r, ok, step, args) ==
    /\ pc[r] = "idle"
    /\ IF ok THEN Await(r, step, args) ELSE Finish(r, "rejected")
    /\ UNCHANGED <<db, announced, skewed>>

(* A step that reads a row and either goes on or answers with an error       *)
Check(r, at, ok, step) ==
    /\ pc[r] = at
    /\ IF ok THEN Goto(r, step) ELSE Finish(r, "rejected")
    /\ UNCHANGED <<db, announced, skewed>>

(* increment and decrement: an UPDATE of a missing row touches nothing       *)
Added(count, n) == IF post = "gone" THEN count ELSE count + n

-----------------------------------------------------------------------------
(* react and unreact: the post, then the like, are read before the           *)
(* transaction, which decrements whether or not its DELETE found a row.      *)

React(r, u) == Begin(r, post = "live", "reactLookup", JobFor(u, u, 0, 0, {}))

ReactLookup(r) == Check(r, "reactLookup", job[r].subject \notin likes, "reactTx")

ReactCommit(r) ==
    LET u == job[r].subject
    IN  /\ pc[r] = "reactTx"
        /\ u \in accounts \ likes
        /\ post # "gone"
        /\ likes' = likes \cup {u}
        /\ reactionsCount' = Added(reactionsCount, 1)
        /\ Goto(r, "emitCreated")
        /\ UNCHANGED <<accounts, post, comments, commentsCount, announced, skewed>>

(* Bug: a like that exists already is taken for the one just made            *)
ReactTwice(r) ==
    /\ pc[r] = "reactTx"
    /\ job[r].subject \in likes \/ job[r].subject \notin accounts \/ post = "gone"
    /\ Goto(r, "emitCreated")
    /\ UNCHANGED <<db, announced, skewed>>

(* The INSERT violates the unique constraint or a foreign key                *)
ReactConflict(r) ==
    /\ pc[r] = "reactTx"
    /\ job[r].subject \in likes \/ job[r].subject \notin accounts \/ post = "gone"
    /\ Finish(r, "failed")
    /\ UNCHANGED <<db, announced, skewed>>

Unreact(r, u) == Begin(r, post = "live", "unreactLookup", JobFor(u, u, 0, 0, {}))

UnreactLookup(r) == Check(r, "unreactLookup", job[r].subject \in likes, "unreactTx")

UnreactCommit(r) ==
    LET u == job[r].subject
    IN  /\ pc[r] = "unreactTx"
        /\ likes' = likes \ {u}
        /\ reactionsCount' = Added(reactionsCount, -1)
        /\ skewed' = IF u \in likes THEN skewed ELSE skewed \cup {"reactionsCount", u}
        /\ Goto(r, "emitRemoved")
        /\ UNCHANGED <<accounts, post, comments, commentsCount, announced>>

-----------------------------------------------------------------------------
(* addComment, updateComment and deleteComment                               *)

AddComment(r, c) ==
    /\ comments[c] = "none"
    /\ \A q \in Requests : job[q].subject # c
    /\ Begin(r, post = "live", "commentTx", JobFor(c, Writer[c], 0, 0, {}))

CommentCommit(r) ==
    LET c == job[r].subject
    IN  /\ pc[r] = "commentTx"
        /\ Writer[c] \in accounts
        /\ post # "gone"
        /\ comments' = [comments EXCEPT ![c] = "live"]
        /\ commentsCount' = Added(commentsCount, 1)
        /\ Goto(r, "emitCreated")
        /\ UNCHANGED <<accounts, post, likes, reactionsCount, announced, skewed>>

CommentConflict(r) ==
    /\ pc[r] = "commentTx"
    /\ Writer[job[r].subject] \notin accounts \/ post = "gone"
    /\ Finish(r, "failed")
    /\ UNCHANGED <<db, announced, skewed>>

UpdateComment(r, a, c) ==
    Begin(r, comments[c] = "live" /\ a = Writer[c], "commentReload", JobFor(c, a, 0, 0, {}))

(* Bug: a missing row is left to a retry that no code performs               *)
CommentRetried(r) ==
    /\ pc[r] = "commentReload"
    /\ Goto(r, IF comments[job[r].subject] = "gone" THEN "commentRetry" ELSE "commentSave")
    /\ UNCHANGED <<db, announced, skewed>>

(* save reloads the row, soft-deleted or not, and compares every column: the *)
(* deletedAt of the copy in memory is null.  Without a row the INSERT fails  *)
(* on the foreign key whose cascade took the row away.                       *)
CommentReload(r) ==
    LET c == job[r].subject
        dirty == IF comments[c] = "deleted" THEN {"deletedAt"} ELSE {}
    IN  /\ pc[r] = "commentReload"
        /\ IF comments[c] = "gone"
             THEN Finish(r, "failed")
             ELSE Await(r, "commentSave", JobFor(c, job[r].actor, 0, 0, dirty))
        /\ UNCHANGED <<db, announced, skewed>>

CommentSave(r) ==
    LET c == job[r].subject
        revived == comments[c] = "deleted" /\ "deletedAt" \in job[r].dirty
    IN  /\ pc[r] = "commentSave"
        /\ comments' = IF revived THEN [comments EXCEPT ![c] = "live"] ELSE comments
        /\ skewed' = IF revived THEN skewed \cup {"commentsCount", c} ELSE skewed
        /\ Finish(r, "done")
        /\ UNCHANGED <<accounts, post, likes, reactionsCount, commentsCount, announced>>

DeleteComment(r, a, c) ==
    Begin(r, comments[c] = "live", "commentOwner", JobFor(c, a, 0, 0, {}))

CommentOwner(r) ==
    Check(r, "commentOwner",
          post = "live" /\ job[r].actor \in {Writer[job[r].subject], PostAuthor},
          "uncommentTx")

(* Bug: the decrement is missing from the transaction                        *)
UncommentCounted(r) ==
    LET c == job[r].subject
    IN  /\ pc[r] = "uncommentTx"
        /\ comments' = [comments EXCEPT ![c] = IF @ = "gone" THEN "gone" ELSE "deleted"]
        /\ skewed' = IF comments[c] = "live" THEN skewed ELSE skewed \cup {"commentsCount", c}
        /\ Goto(r, "emitRemoved")
        /\ UNCHANGED <<accounts, post, likes, reactionsCount, commentsCount, announced>>

UncommentCommit(r) ==
    LET c == job[r].subject
    IN  /\ pc[r] = "uncommentTx"
        /\ comments' = [comments EXCEPT ![c] = IF @ = "gone" THEN "gone" ELSE "deleted"]
        /\ commentsCount' = Added(commentsCount, -1)
        /\ skewed' = IF comments[c] = "live" THEN skewed ELSE skewed \cup {"commentsCount", c}
        /\ Goto(r, "emitRemoved")
        /\ UNCHANGED <<accounts, post, likes, reactionsCount, announced>>

Emit(r, step, n) ==
    /\ pc[r] = step
    /\ announced' = [announced EXCEPT ![job[r].subject] = @ + n]
    /\ Finish(r, "done")
    /\ UNCHANGED <<db, skewed>>

EmitCreated(r) == Emit(r, "emitCreated", 1)
EmitRemoved(r) == Emit(r, "emitRemoved", -1)

TxAborted(r) ==
    /\ pc[r] \in TxSteps
    /\ Finish(r, "failed")
    /\ UNCHANGED <<db, announced, skewed>>

-----------------------------------------------------------------------------
(* PostsService.updatePost saves the whole entity it has read, counters      *)
(* included; deletePost sets deletedAt.                                      *)

UpdatePost(r, a) ==
    Begin(r, post = "live" /\ a = PostAuthor, "postReload",
          JobFor(None, a, reactionsCount, commentsCount, {}))

PostReload(r) ==
    LET held == job[r]
        dirty == {col \in Columns :
                    \/ col = "reactionsCount" /\ held.reactionsCount # reactionsCount
                    \/ col = "commentsCount" /\ held.commentsCount # commentsCount}
    IN  /\ pc[r] = "postReload"
        /\ IF post = "gone"
             THEN Finish(r, "failed")
             ELSE Await(r, "postSave", JobFor(None, held.actor, held.reactionsCount,
                                              held.commentsCount, dirty))
        /\ UNCHANGED <<db, announced, skewed>>

PostSave(r) ==
    LET dirty == IF post = "gone" THEN {} ELSE job[r].dirty
    IN  /\ pc[r] = "postSave"
        /\ reactionsCount' =
             IF "reactionsCount" \in dirty THEN job[r].reactionsCount ELSE reactionsCount
        /\ commentsCount' =
             IF "commentsCount" \in dirty THEN job[r].commentsCount ELSE commentsCount
        /\ skewed' = skewed \cup dirty
        /\ Finish(r, "done")
        /\ UNCHANGED <<rows, announced>>

DeletePost(r, a) ==
    Begin(r, post = "live" /\ a = PostAuthor, "postDelete", JobFor(None, a, 0, 0, {}))

PostDelete(r) ==
    /\ pc[r] = "postDelete"
    /\ post' = IF post = "gone" THEN "gone" ELSE "deleted"
    /\ Finish(r, "done")
    /\ UNCHANGED <<accounts, likes, comments, reactionsCount, commentsCount, announced, skewed>>

(* Deleting an account cascades to its likes and comments, and to the post   *)
(* with all of its own, and adjusts no counter of what stays.                *)
DeleteAccount(u) ==
    LET whole == u = PostAuthor
        lost == {c \in Comments : (whole \/ Writer[c] = u) /\ comments[c] \in {"live", "deleted"}}
        unliked == IF whole THEN likes ELSE likes \cap {u}
    IN  /\ u \in accounts
        /\ accounts' = accounts \ {u}
        /\ post' = IF whole THEN "gone" ELSE post
        /\ likes' = likes \ unliked
        /\ comments' = [c \in Comments |-> IF c \in lost THEN "gone" ELSE comments[c]]
        /\ reactionsCount' = IF whole THEN 0 ELSE reactionsCount
        /\ commentsCount' = IF whole THEN 0 ELSE commentsCount
        /\ skewed' = skewed \cup unliked \cup lost
                       \cup (IF unliked = {} THEN {} ELSE {"reactionsCount"})
                       \cup (IF lost \cap LiveComments = {} THEN {} ELSE {"commentsCount"})
        /\ UNCHANGED <<announced, pc, job>>

-----------------------------------------------------------------------------
Arrive(r) ==
    \/ \E u \in Users : React(r, u) \/ Unreact(r, u) \/ UpdatePost(r, u) \/ DeletePost(r, u)
    \/ \E c \in Comments : AddComment(r, c)
    \/ \E u \in Users, c \in Comments : UpdateComment(r, u, c) \/ DeleteComment(r, u, c)

Continue(r) ==
    \/ ReactLookup(r) \/ ReactCommit(r) \/ ReactConflict(r)
    \/ UnreactLookup(r) \/ UnreactCommit(r)
    \/ CommentCommit(r) \/ CommentConflict(r)
    \/ CommentReload(r) \/ CommentSave(r)
    \/ CommentOwner(r) \/ UncommentCommit(r)
    \/ EmitCreated(r) \/ EmitRemoved(r) \/ TxAborted(r)
    \/ PostReload(r) \/ PostSave(r) \/ PostDelete(r)

Next ==
    \/ \E r \in Requests : Arrive(r) \/ Continue(r)
    \/ \E u \in Users : DeleteAccount(u)

Spec == Init /\ [][Next]_vars

-----------------------------------------------------------------------------
(* Correctness                                                               *)

TypeOK ==
    /\ accounts \in SUBSET Users
    /\ post \in {"live", "deleted", "gone"}
    /\ likes \in SUBSET Users
    /\ comments \in [Comments -> {"none", "live", "deleted", "gone"}]
    /\ reactionsCount \in Int
    /\ commentsCount \in Int
    /\ announced \in [Users \cup Comments -> Int]
    /\ pc \in [Requests -> {"idle"} \cup TxSteps \cup OtherSteps \cup Outcomes]
    /\ job \in [Requests -> [subject: Users \cup Comments \cup {None},
                             actor: Users \cup {None},
                             reactionsCount: Int, commentsCount: Int,
                             dirty: SUBSET (Columns \cup {"deletedAt"})]]
    /\ skewed \in SUBSET (Columns \cup Users \cup Comments)

(* reactionsCount and commentsCount equal the likes and the comments that    *)
(* are shown, soft-deleted or not the post itself, unless one of these came  *)
(* between: an unreact or deletion whose row was already gone, a cascade, a  *)
(* save of a stale post, a save that revived a comment.                      *)
CountersExact ==
    post # "gone" =>
        /\ "reactionsCount" \notin skewed => reactionsCount = Cardinality(likes)
        /\ "commentsCount" \notin skewed => commentsCount = Cardinality(LiveComments)

Announcing(x) ==
    \E r \in Requests : pc[r] \in {"emitCreated", "emitRemoved"} /\ job[r].subject = x

(* Notifications and the broker are told of exactly the likes and comments   *)
(* that exist, once no announcement of one is outstanding.                   *)
EventsMatchRows ==
    \A x \in (Users \cup Comments) \ skewed :
        ~ Announcing(x) => announced[x] = IF x \in likes \cup LiveComments THEN 1 ELSE 0
=============================================================================
