------------------------------ MODULE Accounts ------------------------------
(***************************************************************************)
(* An account over its life: its base_users row, its profile row, its      *)
(* posts and their count, and what the process announces about it.         *)
(*                                                                         *)
(* A request is one HTTP call with an await between its steps; a listener  *)
(* runs as the last step of the request whose event it handles.  Only      *)
(* deleteAccount opens a transaction.  A whole-entity save is three        *)
(* steps: the entity is read, save reads the row again and keeps the       *)
(* columns that differ, and these are written.                             *)
(*                                                                         *)
(* u stands for the account's id; whoever registers the address again      *)
(* after a deletion is another account, and left out.  Passwords and       *)
(* tokens are in Sessions, follow counters in SocialGraph.                 *)
(*                                                                         *)
(* mishaps is a history variable that no action reads.                     *)
(***************************************************************************)
EXTENDS Integers, FiniteSets

CONSTANTS
    Users,
    Usernames,
    Posts,       \* posts that may be created
    Requests,    \* calls, each made once
    Failures,    \* TRUE: a query may fail
    None

ASSUME NoneAssumption == None \notin Users \cup Usernames \cup Posts
ASSUME FailuresAssumption == Failures \in BOOLEAN
ASSUME FinitenessAssumption == IsFiniteSet(Posts) /\ IsFiniteSet(Requests)

VARIABLES
    role,        \* of each account, chosen when it registers
    base,        \* its row of base_users, or NoRow
    profile,     \* its row of user_profiles or brand_profiles, or NoRow
    author,      \* of each post ever stored, else None
    live,        \* posts neither deleted nor gone with their author
    invited,     \* accounts announced by auth.user.registered
    entered,     \* accounts that hold an access token
    announced,   \* the profile last announced under the account's id
    pc,
    job,
    mishaps      \* history: what befell an account, see Mishaps

postRows == <<author, live>>
access == <<invited, entered>>
vars == <<role, base, profile, postRows, access, announced, pc, job, mishaps>>

-----------------------------------------------------------------------------
NoRow == [row |-> FALSE]

BaseRow(verified, complete, posts) ==
    [row |-> TRUE, verified |-> verified, complete |-> complete, posts |-> posts]

(* image stands for every column of a profile but the username               *)
ProfileRow(username, image) == [row |-> TRUE, username |-> username, image |-> image]

SaveSteps == {"baseReload", "baseWrite"}
ProfileSteps == {"profileWrite", "completeFind", "updated", "deleted"}
CompleteSteps == {"completeInsert", "completeFind"}
PostSteps == {"countUp", "countDown"}
Steps == SaveSteps \cup ProfileSteps \cup CompleteSteps \cup PostSteps \cup
    {"registerInsert", "baseFind", "updateFind", "updateCheck", "imageFind",
     "profileReload", "deleteFind", "deleteTx", "postInsert", "postRemove"}
Outcomes == {"done", "rejected", "failed"}

(* "unmarked": completeProfile was cut before it marked the account;         *)
(* "stale": the base row changed while a save held a copy of it;             *)
(* "crossed": the profile changed while another request was between its      *)
(* write and its event; "unannounced": an error kept an event back;          *)
(* "miscounted": a count was lost, or a post deleted twice                   *)
Mishaps == {"unmarked", "stale", "crossed", "unannounced", "miscounted"}

(* arg: a username, a post or the base column a save is about;               *)
(* columns: those a save is going to write, {"*"} for an INSERT              *)
Job(user, arg, copy, columns) ==
    [user |-> user, arg |-> arg, copy |-> copy, columns |-> columns]

NoJob == Job(None, None, NoRow, {})

Taken(table, n, u, profiles) ==
    \E v \in Users \ {u} : role[v] = table /\ profiles[v].row /\ profiles[v].username = n

Init ==
    /\ role \in [Users -> {"USER", "BRAND"}]
    /\ base \in [Users -> {NoRow, BaseRow(FALSE, FALSE, 0), BaseRow(TRUE, FALSE, 0),
                           BaseRow(TRUE, TRUE, 0)}]
    /\ profile \in [Users -> {NoRow} \cup {ProfileRow(n, FALSE) : n \in Usernames}]
    /\ \A u \in Users :
         /\ profile[u].row <=> base[u].row /\ base[u].complete
         /\ profile[u].row => ~ Taken(role[u], profile[u].username, u, profile)
    /\ author = [p \in Posts |-> None]
    /\ live = {}
    /\ invited = {u \in Users : base[u].row}
    /\ entered = {u \in Users : base[u].row /\ base[u].verified}
    /\ announced = profile
    /\ pc = [r \in Requests |-> "idle"]
    /\ job = [r \in Requests |-> NoJob]
    /\ mishaps = [u \in Users |-> {}]

-----------------------------------------------------------------------------
Await(r, step, args) ==
    /\ pc' = [pc EXCEPT ![r] = step]
    /\ job' = [job EXCEPT ![r] = args]

Goto(r, step) == Await(r, step, job[r])

Finish(r, outcome) == Await(r, outcome, NoJob)

Begin(r, step, u, arg) ==
    /\ pc[r] = "idle"
    /\ Await(r, step, Job(u, arg, NoRow, {}))
    /\ UNCHANGED <<role, base, profile, postRows, access, announced, mishaps>>

Others(r, steps) == {job[q].user : q \in {x \in Requests \ {r} : pc[x] \in steps}}

(* The history of the accounts us, changed by request r                      *)
Note(us, what) ==
    mishaps' = [u \in Users |-> IF u \in us THEN mishaps[u] \cup what ELSE mishaps[u]]

SetBase(r, new) ==
    /\ base' = [base EXCEPT ![job[r].user] = new]
    /\ Note({job[r].user} \cap Others(r, SaveSteps), {"stale"})

SetProfile(r, new) ==
    /\ profile' = [profile EXCEPT ![job[r].user] = new]
    /\ Note({job[r].user} \cap Others(r, ProfileSteps), {"crossed"})

Differing(copy, row) ==
    IF row.row THEN {c \in DOMAIN copy : copy[c] # row[c]} ELSE {"*"}

Overlay(copy, columns, row) == [c \in DOMAIN row |-> IF c \in columns THEN copy[c] ELSE row[c]]

-----------------------------------------------------------------------------
(* AuthService.register, verifyEmail and login; resetPassword's save         *)

Register(r, u) ==
    /\ base[u].row \/ u \notin invited
    /\ IF base[u].row THEN Begin(r, "rejected", None, None)
       ELSE Begin(r, "registerInsert", u, None)

RegisterInsert(r) ==
    LET u == job[r].user
    IN  /\ pc[r] = "registerInsert"
        /\ IF base[u].row \/ u \in invited
             THEN Finish(r, "rejected") /\ UNCHANGED <<base, invited, mishaps>>
             ELSE /\ SetBase(r, BaseRow(FALSE, FALSE, 0))
                  /\ invited' = invited \cup {u}
                  /\ Finish(r, "done")
        /\ UNCHANGED <<role, profile, postRows, entered, announced>>

VerifyEmail(r, u) ==
    /\ u \in invited
    /\ IF base[u].row /\ ~ base[u].verified THEN Begin(r, "baseFind", u, "verified")
       ELSE Begin(r, "rejected", None, None)

Login(u) ==
    /\ base[u].row /\ base[u].verified
    /\ entered' = entered \cup {u}
    /\ UNCHANGED <<role, base, profile, postRows, invited, announced, pc, job, mishaps>>

ResetPassword(r, u) == base[u].row /\ Begin(r, "baseFind", u, "password")

-----------------------------------------------------------------------------
(* BaseUsersRepository.update                                                *)

(* Bug: a row that is not found is taken for a new one                       *)
BaseUpsert(r) ==
    LET u == job[r].user
        found == IF base[u].row THEN base[u] ELSE BaseRow(FALSE, FALSE, 0)
    IN  /\ pc[r] = "baseFind"
        /\ Await(r, "baseReload",
                 Job(u, job[r].arg, Overlay([verified |-> TRUE, complete |-> TRUE],
                                            {job[r].arg}, found), {}))
        /\ UNCHANGED <<role, base, profile, postRows, access, announced, mishaps>>

BaseFind(r) ==
    LET u == job[r].user
    IN  /\ pc[r] = "baseFind"
        /\ IF base[u].row
             THEN Await(r, "baseReload",
                        Job(u, job[r].arg, Overlay([verified |-> TRUE, complete |-> TRUE],
                                                   {job[r].arg}, base[u]), {}))
             ELSE Finish(r, "rejected")
        /\ UNCHANGED <<role, base, profile, postRows, access, announced, mishaps>>

BaseReload(r) ==
    LET u == job[r].user
    IN  /\ pc[r] = "baseReload"
        /\ Await(r, "baseWrite",
                 Job(u, job[r].arg, job[r].copy, Differing(job[r].copy, base[u])))
        /\ UNCHANGED <<role, base, profile, postRows, access, announced, mishaps>>

(* An UPDATE of no row is no error, an INSERT of an existing id is           *)
BaseWrite(r) ==
    LET u == job[r].user
    IN  /\ pc[r] = "baseWrite"
        /\ \/ /\ job[r].columns = {"*"} /\ ~ base[u].row
              /\ SetBase(r, job[r].copy)
              /\ Finish(r, "done")
           \/ /\ job[r].columns # {"*"} /\ base[u].row
              /\ SetBase(r, Overlay(job[r].copy, job[r].columns, base[u]))
              /\ Finish(r, "done")
           \/ /\ (job[r].columns = {"*"}) = base[u].row
              /\ Finish(r, IF base[u].row THEN "failed" ELSE "done")
              /\ UNCHANGED <<base, mishaps>>
        /\ UNCHANGED <<role, profile, postRows, access, announced>>

-----------------------------------------------------------------------------
(* UserService and BrandService, completeProfile                             *)

CompleteProfile(r, u, n) == u \in entered /\ Begin(r, "completeInsert", u, n)

(* Both unique constraints answer "Username already exists"; a missing       *)
(* account fails the foreign key                                             *)
CompleteInsert(r) ==
    LET u == job[r].user
        n == job[r].arg
    IN  /\ pc[r] = "completeInsert"
        /\ IF base[u].row /\ ~ profile[u].row /\ ~ Taken(role[u], n, u, profile)
             THEN /\ SetProfile(r, ProfileRow(n, FALSE))
                  /\ Await(r, "completeFind", Job(u, n, ProfileRow(n, FALSE), {}))
             ELSE /\ Finish(r, IF base[u].row THEN "rejected" ELSE "failed")
                  /\ UNCHANGED <<profile, mishaps>>
        /\ UNCHANGED <<role, base, postRows, access, announced>>

(* Bug: the account is taken for marked once its profile is announced        *)
CompleteUnmarked(r) ==
    LET u == job[r].user
    IN  /\ pc[r] = "completeFind"
        /\ announced' = [announced EXCEPT ![u] = IF base[u].row THEN job[r].copy ELSE @]
        /\ Finish(r, IF base[u].row THEN "done" ELSE "rejected")
        /\ UNCHANGED <<role, base, profile, postRows, access, mishaps>>

CompleteFind(r) ==
    LET u == job[r].user
    IN  /\ pc[r] = "completeFind"
        /\ IF base[u].row
             THEN /\ announced' = [announced EXCEPT ![u] = job[r].copy]
                  /\ Await(r, "baseFind", Job(u, "complete", NoRow, {}))
             ELSE /\ Finish(r, "rejected")
                  /\ UNCHANGED announced
        /\ UNCHANGED <<role, base, profile, postRows, access, mishaps>>

-----------------------------------------------------------------------------
(* updateProfile and updateProfileImage                                      *)

UpdateProfile(r, u, n) == u \in entered /\ Begin(r, "updateFind", u, n)

Holding(r, copy) ==
    Await(r, "profileReload", Job(job[r].user, job[r].arg, copy, {}))

UpdateFind(r) ==
    LET u == job[r].user
        new == ProfileRow(job[r].arg, profile[u].image)
    IN  /\ pc[r] = "updateFind"
        /\ \/ ~ profile[u].row /\ Finish(r, "rejected")
           \/ profile[u].row /\ profile[u] = new /\ Holding(r, new)
           \/ /\ profile[u].row /\ profile[u] # new
              /\ Await(r, "updateCheck", Job(u, job[r].arg, new, {}))
        /\ UNCHANGED <<role, base, profile, postRows, access, announced, mishaps>>

UpdateCheck(r) ==
    LET u == job[r].user
        found == \E v \in Users : role[v] = role[u] /\ profile[v].row
                                    /\ profile[v].username = job[r].arg
    IN  /\ pc[r] = "updateCheck"
        /\ IF found THEN Finish(r, "rejected") ELSE Holding(r, job[r].copy)
        /\ UNCHANGED <<role, base, profile, postRows, access, announced, mishaps>>

UpdateProfileImage(r, u) == u \in entered /\ Begin(r, "imageFind", u, None)

(* Bug: the entity that is saved is made of the image alone                  *)
ImageAlone(r) ==
    LET u == job[r].user
    IN  /\ pc[r] = "imageFind"
        /\ IF profile[u].row THEN Holding(r, ProfileRow(None, TRUE))
           ELSE Finish(r, "rejected")
        /\ UNCHANGED <<role, base, profile, postRows, access, announced, mishaps>>

ImageFind(r) ==
    LET u == job[r].user
    IN  /\ pc[r] = "imageFind"
        /\ IF profile[u].row THEN Holding(r, ProfileRow(profile[u].username, TRUE))
           ELSE Finish(r, "rejected")
        /\ UNCHANGED <<role, base, profile, postRows, access, announced, mishaps>>

ProfileReload(r) ==
    LET u == job[r].user
    IN  /\ pc[r] = "profileReload"
        /\ Await(r, "profileWrite",
                 Job(u, job[r].arg, job[r].copy, Differing(job[r].copy, profile[u])))
        /\ UNCHANGED <<role, base, profile, postRows, access, announced, mishaps>>

(* A name taken since the check fails the unique constraint: a 500           *)
ProfileWrite(r) ==
    LET u == job[r].user
        insert == job[r].columns = {"*"}
        new == IF insert THEN job[r].copy
               ELSE Overlay(job[r].copy, job[r].columns, profile[u])
        refused == IF insert THEN profile[u].row \/ ~ base[u].row
                                    \/ Taken(role[u], new.username, u, profile)
                   ELSE profile[u].row /\ Taken(role[u], new.username, u, profile)
    IN  /\ pc[r] = "profileWrite"
        /\ \/ refused /\ Finish(r, "failed") /\ UNCHANGED <<profile, mishaps>>
           \/ ~ refused /\ SetProfile(r, new) /\ Goto(r, "updated")
        /\ UNCHANGED <<role, base, postRows, access, announced>>

(* The event carries the entity that was saved.  Except for the image of a   *)
(* brand, its account is read at the same time as it is saved, and so may    *)
(* be gone by now.                                                           *)
EmitUpdated(r) ==
    LET u == job[r].user
    IN  /\ pc[r] = "updated"
        /\ \/ /\ base[u].row \/ role[u] = "USER" \/ job[r].arg # None
              /\ announced' = [announced EXCEPT ![u] = job[r].copy]
              /\ Finish(r, "done")
           \/ /\ ~ base[u].row
              /\ Finish(r, "rejected")
              /\ UNCHANGED announced
        /\ UNCHANGED <<role, base, profile, postRows, access, mishaps>>

-----------------------------------------------------------------------------
(* deleteAccount of a user, deleteProfile of a brand                         *)

DeleteAccount(r, u) == u \in entered /\ Begin(r, "deleteFind", u, None)

DeleteFind(r) ==
    /\ pc[r] = "deleteFind"
    /\ IF profile[job[r].user].row THEN Goto(r, "deleteTx") ELSE Finish(r, "rejected")
    /\ UNCHANGED <<role, base, profile, postRows, access, announced, mishaps>>

(* The posts go by cascade                                                   *)
DeleteCommit(r) ==
    LET u == job[r].user
    IN  /\ pc[r] = "deleteTx"
        /\ profile' = [profile EXCEPT ![u] = NoRow]
        /\ base' = [base EXCEPT ![u] = NoRow]
        /\ live' = {p \in live : author[p] # u}
        /\ mishaps' = [mishaps EXCEPT ![u] = @
             \cup (IF u \in Others(r, SaveSteps) THEN {"stale"} ELSE {})
             \cup (IF u \in Others(r, ProfileSteps) THEN {"crossed"} ELSE {})]
        /\ Goto(r, "deleted")
        /\ UNCHANGED <<role, author, access, announced>>

(* Bug: a user's event carries the id of the profile, as a brand's does      *)
EmitProfileId(r) ==
    /\ pc[r] = "deleted"
    /\ Finish(r, "done")
    /\ UNCHANGED <<role, base, profile, postRows, access, announced, mishaps>>

(* A user's event carries the account's id, a brand's the id of its profile  *)
EmitDeleted(r) ==
    LET u == job[r].user
    IN  /\ pc[r] = "deleted"
        /\ announced' = [announced EXCEPT ![u] = IF role[u] = "USER" THEN NoRow ELSE @]
        /\ Finish(r, "done")
        /\ UNCHANGED <<role, base, profile, postRows, access, mishaps>>

-----------------------------------------------------------------------------
(* createPost and deletePost, with the listener that counts                  *)

CreatePost(r, u, p) ==
    /\ u \in entered /\ author[p] = None
    /\ \A q \in Requests : job[q].arg # p
    /\ Begin(r, "postInsert", u, p)

PostInsert(r) ==
    LET u == job[r].user
        p == job[r].arg
    IN  /\ pc[r] = "postInsert"
        /\ IF base[u].row
             THEN /\ author' = [author EXCEPT ![p] = u]
                  /\ live' = live \cup {p}
                  /\ Goto(r, "countUp")
             ELSE Finish(r, "failed") /\ UNCHANGED postRows
        /\ UNCHANGED <<role, base, profile, access, announced, mishaps>>

DeletePost(r, p) == p \in live /\ author[p] \in entered /\ Begin(r, "postRemove", author[p], p)

(* softDelete finds no row wrong                                             *)
PostRemove(r) ==
    LET p == job[r].arg
    IN  /\ pc[r] = "postRemove"
        /\ live' = live \ {p}
        /\ Note({u \in Users : u = job[r].user /\ p \notin live}, {"miscounted"})
        /\ Goto(r, "countDown")
        /\ UNCHANGED <<role, base, profile, author, access, announced>>

(* Bug: the count is kept from falling below zero                            *)
CountFloor(r) ==
    LET u == job[r].user
        one == IF pc[r] = "countUp" THEN 1 ELSE -1
    IN  /\ pc[r] \in PostSteps
        /\ IF base[u].row /\ base[u].posts + one >= 0
             THEN SetBase(r, [base[u] EXCEPT !.posts = @ + one])
             ELSE UNCHANGED <<base, mishaps>>
        /\ Finish(r, "done")
        /\ UNCHANGED <<role, profile, postRows, access, announced>>

CountPost(r) ==
    LET u == job[r].user
        one == IF pc[r] = "countUp" THEN 1 ELSE -1
    IN  /\ pc[r] \in PostSteps
        /\ IF base[u].row
             THEN SetBase(r, [base[u] EXCEPT !.posts = @ + one])
             ELSE UNCHANGED <<base, mishaps>>
        /\ Finish(r, "done")
        /\ UNCHANGED <<role, profile, postRows, access, announced>>

-----------------------------------------------------------------------------
(* A query throws: what was written stays, what is left is not done          *)
RequestFails(r) ==
    LET u == job[r].user
    IN  /\ Failures
        /\ pc[r] \in Steps \ {"deleted"}
        /\ Note({u}, (IF job[r].arg = "complete" \/ pc[r] = "completeFind"
                        THEN {"unmarked"} ELSE {})
                     \cup (IF pc[r] \in {"completeFind", "updated"} THEN {"unannounced"} ELSE {})
                     \cup (IF pc[r] \in PostSteps THEN {"miscounted"} ELSE {}))
        /\ Finish(r, "failed")
        /\ UNCHANGED <<role, base, profile, postRows, access, announced>>

Arrive(r) ==
    \/ \E u \in Users :
         \/ Register(r, u) \/ VerifyEmail(r, u) \/ ResetPassword(r, u)
         \/ \E n \in Usernames : CompleteProfile(r, u, n) \/ UpdateProfile(r, u, n)
         \/ UpdateProfileImage(r, u) \/ DeleteAccount(r, u)
         \/ \E p \in Posts : CreatePost(r, u, p)
    \/ \E p \in Posts : DeletePost(r, p)

Continue(r) ==
    \/ RegisterInsert(r) \/ BaseFind(r) \/ BaseReload(r) \/ BaseWrite(r)
    \/ CompleteInsert(r) \/ CompleteFind(r)
    \/ UpdateFind(r) \/ UpdateCheck(r) \/ ImageFind(r)
    \/ ProfileReload(r) \/ ProfileWrite(r) \/ EmitUpdated(r)
    \/ DeleteFind(r) \/ DeleteCommit(r) \/ EmitDeleted(r)
    \/ PostInsert(r) \/ PostRemove(r) \/ CountPost(r)
    \/ RequestFails(r)

Next ==
    \/ \E r \in Requests : Arrive(r) \/ Continue(r)
    \/ \E u \in Users : Login(u)

Spec == Init /\ [][Next]_vars

-----------------------------------------------------------------------------
(* Correctness                                                               *)

Rows == {NoRow} \cup {ProfileRow(n, i) : n \in Usernames, i \in BOOLEAN}

TypeOK ==
    /\ role \in [Users -> {"USER", "BRAND"}]
    /\ \A u \in Users : base[u] = NoRow \/
         base[u] \in [row: {TRUE}, verified: BOOLEAN, complete: BOOLEAN, posts: Int]
    /\ profile \in [Users -> Rows]
    /\ author \in [Posts -> Users \cup {None}]
    /\ live \in SUBSET Posts
    /\ invited \in SUBSET Users /\ entered \in SUBSET invited
    /\ announced \in [Users -> Rows]
    /\ pc \in [Requests -> {"idle"} \cup Steps \cup Outcomes]
    /\ \A r \in Requests : job[r].user \in Users \cup {None}
    /\ mishaps \in [Users -> SUBSET Mishaps]

InFlight(u, steps) == \E r \in Requests : job[r].user = u /\ pc[r] \in steps

Completing(u) ==
    InFlight(u, CompleteSteps) \/ \E r \in Requests : job[r].user = u /\ job[r].arg = "complete"

(* An account is marked complete exactly when it has a profile: the two      *)
(* tables are written by separate statements of completeProfile, and by one  *)
(* transaction of deleteAccount.  Except while a profile is being completed, *)
(* if that was cut short, and if a save wrote an old copy back.              *)
CompleteMatchesProfile ==
    \A u \in Users :
        ~ Completing(u) /\ mishaps[u] \cap {"unmarked", "stale"} = {}
        => ((base[u].row /\ base[u].complete) <=> profile[u].row)

(* What other services were last told of an account is its profile as it is  *)
(* stored, or that it is gone, unless an event failed or two requests of     *)
(* the account crossed.  A brand's deletion is announced under another id,   *)
(* and so keeps its last profile.                                            *)
AnnouncedMatchesProfile ==
    \A u \in Users :
        /\ ~ InFlight(u, ProfileSteps)
        /\ mishaps[u] \cap {"crossed", "unannounced"} = {}
        /\ profile[u].row \/ role[u] = "USER"
        => announced[u] = profile[u]

(* postsCount is the number of the author's posts once every listener has    *)
(* run, whatever order they ran in, unless a count failed, a post was        *)
(* deleted twice, or a save wrote an old count back.                         *)
PostsCountExact ==
    \A u \in Users :
        /\ base[u].row /\ ~ InFlight(u, PostSteps)
        /\ mishaps[u] \cap {"miscounted", "stale"} = {}
        => base[u].posts = Cardinality({p \in live : author[p] = u})

(* An account that was deleted does not come back, unless its deletion came  *)
(* between the read and the write of a save.                                 *)
DeletedStaysDeleted ==
    [][\A u \in Users :
         u \in invited /\ ~ base[u].row /\ "stale" \notin mishaps[u] => ~ base'[u].row]_base
=============================================================================
