------------------------------ MODULE Sessions ------------------------------
(***************************************************************************)
(* Refresh tokens and password-reset codes of one account.                 *)
(*                                                                         *)
(* Every request awaits the database between its steps, and none of these  *)
(* handlers opens a transaction.  A request inserts at most one row, so    *)
(* the request names the row.  A refresh token is a JWT without an id: its *)
(* text, and so its hash, is a function of the handler that signs it and   *)
(* of the second of its iat claim.  Runs are shorter than any lifetime, so *)
(* nothing expires.                                                        *)
(*                                                                         *)
(* raced and ended are history variables that no action reads.             *)
(***************************************************************************)
EXTENDS Integers, FiniteSets

CONSTANTS
    Requests,     \* HTTP requests, each served once
    Passwords,
    LastSecond,   \* bound on the clock
    Failures,     \* TRUE: a query may fail
    None

ASSUME PasswordsAssumption == Passwords # {} /\ None \notin Passwords \cup Requests
ASSUME LastSecondAssumption == LastSecond \in Nat

VARIABLES
    exists,     \* TRUE while the account has its base_users row
    password,   \* whose hash the row holds
    now,        \* in seconds
    rows,       \* of each refresh_tokens row: "none", "valid", "revoked"
    hash,       \* its tokenHash
    codes,      \* rows of reset_tokens
    emailed,    \* codes sent to the user
    pc,
    job,
    raced,      \* history: a token was stored across another's revocation
    ended       \* history: logged out, nobody storing a token, no login since

tokens == <<rows, hash>>
history == <<raced, ended>>
vars == <<exists, password, now, tokens, codes, emailed, pc, job, history>>

-----------------------------------------------------------------------------
Hashes == {"login", "refresh"} \X (0 .. LastSecond)

LoginSteps == {"loginRevoke", "loginCreate"}
RefreshSteps == {"refreshRevoke", "refreshCreate", "refreshUser"}
CodeSteps == {"codeDelete", "codeInsert"}
ResetSteps == {"findUser", "saveReload", "saveUpdate", "saveInsert", "codeClean"}
Steps == LoginSteps \cup RefreshSteps \cup CodeSteps \cup ResetSteps \cup {"logout"}
Outcomes == {"done", "denied", "rejected", "failed"}

NoHash == <<"none", 0>>

(* What a request holds: a token's hash, a code, a new password              *)
Job(token, code, new) == [token |-> token, code |-> code, new |-> new]

NoJob == Job(NoHash, None, None)

Init ==
    /\ exists = TRUE
    /\ password \in Passwords
    /\ now = 0
    /\ rows = [r \in Requests |-> "none"]
    /\ hash = [r \in Requests |-> NoHash]
    /\ codes = {}
    /\ emailed = {}
    /\ pc = [r \in Requests |-> "idle"]
    /\ job = [r \in Requests |-> NoJob]
    /\ raced = FALSE
    /\ ended = FALSE

Await(r, step, args) ==
    /\ pc' = [pc EXCEPT ![r] = step]
    /\ job' = [job EXCEPT ![r] = args]

Goto(r, step) == Await(r, step, job[r])

(* The code a reset used stays in its job, for CodeConsumed                  *)
Finish(r, outcome) == Await(r, outcome, Job(NoHash, job[r].code, None))

Begin(r, ok, step, args) ==
    /\ pc[r] = "idle"
    /\ IF ok THEN Await(r, step, args) ELSE Await(r, "rejected", NoJob)
    /\ UNCHANGED <<exists, password, now, tokens, codes, emailed, history>>

RowsWith(h) == {q \in Requests : rows[q] # "none" /\ hash[q] = h}

Revoke(which) == rows' = [q \in Requests |-> IF q \in which /\ rows[q] # "none"
                                               THEN "revoked" ELSE rows[q]]

(* A handler past its check that has still to store a token, or to revoke    *)
(* the one it was given                                                      *)
Storing(q) == pc[q] \in {"loginCreate", "refreshRevoke", "refreshCreate"}

-----------------------------------------------------------------------------
(* login, and buildAuthResponse: the failure of the revocation is swallowed  *)

Login(r, p) ==
    /\ pc[r] = "idle"
    /\ IF exists /\ p = password
         THEN Await(r, "loginRevoke", NoJob) /\ ended' = FALSE
         ELSE Await(r, "rejected", NoJob) /\ UNCHANGED ended
    /\ UNCHANGED <<exists, password, now, tokens, codes, emailed, raced>>

(* Bug: buildAuthResponse keeps the other sessions                           *)
LoginKeeps(r) ==
    /\ pc[r] = "loginRevoke"
    /\ Await(r, "loginCreate", Job(<<"login", now>>, None, None))
    /\ UNCHANGED <<exists, password, now, tokens, codes, emailed, history>>

LoginRevoke(r) ==
    /\ pc[r] = "loginRevoke"
    /\ \/ Revoke(Requests) /\ UNCHANGED raced
       \/ Failures /\ raced' = TRUE /\ UNCHANGED rows
    /\ Await(r, "loginCreate", Job(<<"login", now>>, None, None))
    /\ UNCHANGED <<exists, password, now, hash, codes, emailed, ended>>

(* The INSERT of a token fails on the foreign key when the account is gone   *)
Create(r, at, next) ==
    /\ pc[r] = at
    /\ IF exists
         THEN /\ rows' = [rows EXCEPT ![r] = "valid"]
              /\ hash' = [hash EXCEPT ![r] = job[r].token]
              /\ raced' = (raced \/ \E q \in Requests \ {r} : Storing(q))
              /\ IF next = "done" THEN Finish(r, next) ELSE Goto(r, next)
         ELSE /\ Finish(r, "failed")
              /\ UNCHANGED <<tokens, raced>>
    /\ UNCHANGED <<exists, password, now, codes, emailed, ended>>

LoginCreate(r) == Create(r, "loginCreate", "done")

-----------------------------------------------------------------------------
(* RTGuard looks the hash up, and takes whichever row Postgres returns first *)
(* when several have it; then AuthService.refreshToken.                      *)

(* Bug: the guard admits a revoked token                                     *)
RefreshRevoked(r, h) ==
    /\ \E q \in Requests : hash[q] = h /\ pc[q] = "done"
    /\ pc[r] = "idle"
    /\ IF RowsWith(h) # {}
         THEN Await(r, "refreshRevoke", Job(h, None, None))
         ELSE Await(r, "denied", NoJob)
    /\ UNCHANGED <<exists, password, now, tokens, codes, emailed, history>>

Refresh(r, h) ==
    /\ \E q \in Requests : hash[q] = h /\ pc[q] = "done"
    /\ pc[r] = "idle"
    /\ \/ /\ \E q \in RowsWith(h) : rows[q] = "valid"
          /\ Await(r, "refreshRevoke", Job(h, None, None))
       \/ /\ RowsWith(h) = {} \/ \E q \in RowsWith(h) : rows[q] = "revoked"
          /\ Await(r, "denied", NoJob)
    /\ UNCHANGED <<exists, password, now, tokens, codes, emailed, history>>

(* Bug: the new token is not signed                                          *)
RefreshUnsigned(r) ==
    /\ pc[r] = "refreshRevoke"
    /\ Revoke(RowsWith(job[r].token))
    /\ Await(r, "refreshCreate", Job(None, None, None))
    /\ UNCHANGED <<exists, password, now, hash, codes, emailed, history>>

RefreshRevoke(r) ==
    /\ pc[r] = "refreshRevoke"
    /\ Revoke(RowsWith(job[r].token))
    /\ Await(r, "refreshCreate", Job(<<"refresh", now>>, None, None))
    /\ UNCHANGED <<exists, password, now, hash, codes, emailed, history>>

RefreshCreate(r) == Create(r, "refreshCreate", "refreshUser")

RefreshUser(r) ==
    /\ pc[r] = "refreshUser"
    /\ Finish(r, IF exists THEN "done" ELSE "failed")
    /\ UNCHANGED <<exists, password, now, tokens, codes, emailed, history>>

Logout(r) == Begin(r, TRUE, "logout", NoJob)

LogoutRevoke(r) ==
    /\ pc[r] = "logout"
    /\ Revoke(Requests)
    /\ ended' = (\A q \in Requests : pc[q] # "loginRevoke" /\ ~ Storing(q))
    /\ Finish(r, "done")
    /\ UNCHANGED <<exists, password, now, hash, codes, emailed, raced>>

-----------------------------------------------------------------------------
(* forgotPassword: ResetTokenRepository.create deletes, then inserts         *)

ForgotPassword(r) == Begin(r, exists, "codeDelete", NoJob)

CodeDelete(r) ==
    /\ pc[r] = "codeDelete"
    /\ codes' = {}
    /\ Goto(r, "codeInsert")
    /\ UNCHANGED <<exists, password, now, tokens, emailed, history>>

CodeInsert(r) ==
    /\ pc[r] = "codeInsert"
    /\ IF exists
         THEN /\ codes' = codes \cup {r}
              /\ emailed' = emailed \cup {r}
              /\ Finish(r, "done")
         ELSE /\ Finish(r, "failed")
              /\ UNCHANGED <<codes, emailed>>
    /\ UNCHANGED <<exists, password, now, tokens, history>>

(* resetPassword: updatePassword reads the row and saves it back, which reads*)
(* it again, updates it if it is there and inserts it if it is not.  With no *)
(* row to read nothing is saved, and the handler goes on.                    *)

ResetPassword(r, c, p) ==
    /\ c \in emailed
    /\ Begin(r, exists /\ c \in codes, "findUser", Job(NoHash, c, p))

FindUser(r) ==
    /\ pc[r] = "findUser"
    /\ Goto(r, IF exists THEN "saveReload" ELSE "codeClean")
    /\ UNCHANGED <<exists, password, now, tokens, codes, emailed, history>>

SaveReload(r) ==
    /\ pc[r] = "saveReload"
    /\ Goto(r, IF exists THEN "saveUpdate" ELSE "saveInsert")
    /\ UNCHANGED <<exists, password, now, tokens, codes, emailed, history>>

(* Bug: the code is cleaned up in the background, after the answer           *)
UpdateAndAnswer(r) ==
    /\ pc[r] = "saveUpdate"
    /\ password' = IF exists THEN job[r].new ELSE password
    /\ Finish(r, "done")
    /\ UNCHANGED <<exists, now, tokens, codes, emailed, history>>

SaveUpdate(r) ==
    /\ pc[r] = "saveUpdate"
    /\ password' = IF exists THEN job[r].new ELSE password
    /\ Goto(r, "codeClean")
    /\ UNCHANGED <<exists, now, tokens, codes, emailed, history>>

SaveInsert(r) ==
    /\ pc[r] = "saveInsert"
    /\ IF exists
         THEN Finish(r, "failed") /\ UNCHANGED <<exists, password>>
         ELSE Goto(r, "codeClean") /\ exists' = TRUE /\ password' = job[r].new
    /\ UNCHANGED <<now, tokens, codes, emailed, history>>

CodeClean(r) ==
    /\ pc[r] = "codeClean"
    /\ codes' = {}
    /\ Finish(r, "done")
    /\ UNCHANGED <<exists, password, now, tokens, emailed, history>>

(* A query throws; what the handler has written so far stays                 *)
RequestFails(r) ==
    /\ Failures
    /\ pc[r] \in Steps
    /\ Finish(r, "failed")
    /\ UNCHANGED <<exists, password, now, tokens, codes, emailed, history>>

(* The rows of the account go by cascade                                     *)
DeleteAccount ==
    /\ exists
    /\ exists' = FALSE
    /\ rows' = [r \in Requests |-> "none"]
    /\ codes' = {}
    /\ UNCHANGED <<password, now, hash, emailed, pc, job, history>>

Tick ==
    /\ now < LastSecond
    /\ now' = now + 1
    /\ UNCHANGED <<exists, password, tokens, codes, emailed, pc, job, history>>

Arrive(r) ==
    \/ \E p \in Passwords : Login(r, p)
    \/ \E h \in Hashes : Refresh(r, h)
    \/ Logout(r)
    \/ ForgotPassword(r)
    \/ \E c \in Requests, p \in Passwords : ResetPassword(r, c, p)

Continue(r) ==
    \/ LoginRevoke(r) \/ LoginCreate(r)
    \/ RefreshRevoke(r) \/ RefreshCreate(r) \/ RefreshUser(r)
    \/ LogoutRevoke(r)
    \/ CodeDelete(r) \/ CodeInsert(r)
    \/ FindUser(r) \/ SaveReload(r) \/ SaveUpdate(r) \/ SaveInsert(r) \/ CodeClean(r)
    \/ RequestFails(r)

Next ==
    \/ \E r \in Requests : Arrive(r) \/ Continue(r)
    \/ DeleteAccount
    \/ Tick

Spec == Init /\ [][Next]_vars

-----------------------------------------------------------------------------
(* Correctness                                                               *)

TypeOK ==
    /\ exists \in BOOLEAN
    /\ password \in Passwords
    /\ now \in 0 .. LastSecond
    /\ rows \in [Requests -> {"none", "valid", "revoked"}]
    /\ hash \in [Requests -> Hashes \cup {NoHash}]
    /\ codes \in SUBSET Requests
    /\ emailed \in SUBSET Requests
    /\ pc \in [Requests -> {"idle"} \cup Steps \cup Outcomes]
    /\ job \in [Requests -> [token: Hashes \cup {NoHash}, code: Requests \cup {None},
                             new: Passwords \cup {None}]]
    /\ raced \in BOOLEAN
    /\ ended \in BOOLEAN

Valid == {r \in Requests : rows[r] = "valid"}

(* A login ends the account's other sessions and a refresh replaces its own: *)
(* one token is valid at a time, unless a token was stored while another     *)
(* handler was between its check and its own store, or a revocation failed.  *)
SingleSession == raced \/ Cardinality(Valid) <= 1

(* Refresh tokens are revoked by a logout and stay so while nobody logs in,  *)
(* whichever old ones are presented, unless a login or refresh was past its  *)
(* check when the logout revoked.                                            *)
LogoutEndsSessions == ended => Valid = {}

(* A code that has set a password is gone when the reset is answered, and no *)
(* interleaved request for another code brings it back.                      *)
CodeConsumed ==
    \A r \in Requests : pc[r] = "done" /\ job[r].code # None => job[r].code \notin codes

(* What the comment in RTGuard says: it checks that the token exists and is  *)
(* valid, so one that does is let in.                                        *)
GuardAdmitsValid ==
    [][\A r \in Requests, h \in Hashes :
         Refresh(r, h) /\ (\E q \in RowsWith(h) : rows[q] = "valid") => pc'[r] # "denied"]_pc
=============================================================================
