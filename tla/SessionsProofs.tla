---------------------------- MODULE SessionsProofs ----------------------------
(***************************************************************************)
(* TLAPS proofs about Sessions, for any number of requests and of seconds. *)
(* The inductive invariant says of each handler what its last step has     *)
(* made true and no other can undo without leaving a trace in the history: *)
(* one that is about to store a token has left no valid one, one about to  *)
(* revoke holds the hash of the only valid one, and a code belongs to a    *)
(* request that has ended, which will not insert it again.                 *)
(***************************************************************************)
EXTENDS Sessions, FiniteSetTheorems, TLAPS

Control == {"idle"} \cup Steps \cup Outcomes

Jobs == [token: Hashes \cup {NoHash}, code: Requests \cup {None}, new: Passwords \cup {None}]

StoreSteps == {"loginCreate", "refreshRevoke", "refreshCreate"}

Typed == TypeOK /\ \A r \in Requests : pc[r] \in ResetSteps => job[r].new \in Passwords

(* One valid token at most, and none once a handler has revoked the others   *)
Sole ==
    raced \/
        /\ \A a, b \in Valid : a = b
        /\ \A r \in Requests :
              /\ pc[r] \in {"loginCreate", "refreshCreate"} => Valid = {}
              /\ pc[r] = "refreshRevoke" => Valid \subseteq RowsWith(job[r].token)

(* After a logout no handler is on its way to store a token                  *)
LoggedOut ==
    ended =>
        /\ Valid = {}
        /\ \A r \in Requests : pc[r] \notin {"loginRevoke"} \cup StoreSteps

(* A code in a job was sent by a request that has ended                      *)
Coded ==
    /\ \A r \in Requests : job[r].code # None =>
          job[r].code \in emailed /\ pc[r] \in ResetSteps \cup Outcomes
    /\ \A r \in emailed : pc[r] = "done"

IInv == Typed /\ Sole /\ LoggedOut /\ Coded /\ CodeConsumed

-----------------------------------------------------------------------------
(* Control of one request.                                                   *)

LEMMA Names ==
    /\ "idle" \notin ResetSteps \cup Outcomes \cup StoreSteps \cup {"loginRevoke"}
    /\ Outcomes \cap (Steps \cup ResetSteps \cup StoreSteps \cup {"loginRevoke"}) = {}
    /\ ResetSteps \cap (StoreSteps \cup {"loginRevoke"}) = {}
    /\ StoreSteps \cup ResetSteps \cup {"loginRevoke"} \subseteq Steps
    /\ Steps \cup Outcomes \cup {"idle"} = Control
BY DEF Outcomes, Steps, ResetSteps, StoreSteps, LoginSteps, RefreshSteps, CodeSteps, Control

LEMMA JobFields ==
    ASSUME NEW t \in Hashes \cup {NoHash}, NEW c \in Requests \cup {None},
           NEW p \in Passwords \cup {None}
    PROVE  /\ Job(t, c, p) \in Jobs
           /\ Job(t, c, p).token = t /\ Job(t, c, p).code = c /\ Job(t, c, p).new = p
BY DEF Job, Jobs

LEMMA NoJobFields == NoJob \in Jobs /\ NoJob.code = None
BY JobFields DEF NoJob

LEMMA JobOf ==
    ASSUME Typed, NEW r \in Requests
    PROVE  /\ job[r] \in Jobs /\ pc[r] \in Control
           /\ job[r].token \in Hashes \cup {NoHash}
           /\ job[r].code \in Requests \cup {None}
           /\ job[r].new \in Passwords \cup {None}
           /\ pc[r] \in ResetSteps => job[r].new \in Passwords
<1>1. job[r] \in Jobs /\ pc[r] \in Control
  BY DEF Typed, TypeOK, Jobs, Control
<1>2. QED
  BY <1>1 DEF Typed, Jobs

LEMMA Moved ==
    ASSUME Typed, NEW r \in Requests, NEW step, NEW args, Await(r, step, args)
    PROVE  /\ pc'[r] = step /\ job'[r] = args
           /\ \A q \in Requests \ {r} : pc'[q] = pc[q] /\ job'[q] = job[q]
BY DEF Await, Typed, TypeOK

LEMMA AwaitTyped ==
    ASSUME Typed, NEW r \in Requests, NEW step \in Control, NEW args \in Jobs,
           Await(r, step, args), step \in ResetSteps => args.new \in Passwords
    PROVE  /\ pc' \in [Requests -> Control]
           /\ job' \in [Requests -> Jobs]
           /\ \A q \in Requests : pc'[q] \in ResetSteps => job'[q].new \in Passwords
<1>1. pc \in [Requests -> Control] /\ job \in [Requests -> Jobs]
  BY DEF Typed, TypeOK, Control, Jobs
<1>2. pc' \in [Requests -> Control] /\ job' \in [Requests -> Jobs]
  BY <1>1 DEF Await
<1>3. ASSUME NEW q \in Requests, pc'[q] \in ResetSteps PROVE job'[q].new \in Passwords
  <2>1. CASE q = r
    BY <1>3, <2>1, Moved
  <2>2. CASE q # r
    BY <1>3, <2>2, Moved, JobOf
  <2>3. QED
    BY <2>1, <2>2
<1>4. QED
  BY <1>2, <1>3

(* What remains to show of the types of a step that moves one request        *)
LEMMA StepTyped ==
    ASSUME Typed, NEW r \in Requests, NEW step \in Control, NEW args \in Jobs,
           Await(r, step, args), step \in ResetSteps => args.new \in Passwords,
           now' = now, exists' \in BOOLEAN, password' \in Passwords,
           rows' \in [Requests -> {"none", "valid", "revoked"}],
           hash' \in [Requests -> Hashes \cup {NoHash}],
           codes' \in SUBSET Requests, emailed' \in SUBSET Requests,
           raced' \in BOOLEAN, ended' \in BOOLEAN
    PROVE  Typed'
<1>1. /\ pc' \in [Requests -> Control]
      /\ job' \in [Requests -> Jobs]
      /\ \A q \in Requests : pc'[q] \in ResetSteps => job'[q].new \in Passwords
  BY AwaitTyped
<1>2. QED
  BY <1>1 DEF Typed, TypeOK, Control, Jobs

LEMMA Types ==
    ASSUME Typed
    PROVE  /\ exists \in BOOLEAN /\ password \in Passwords /\ now \in 0 .. LastSecond
           /\ rows \in [Requests -> {"none", "valid", "revoked"}]
           /\ hash \in [Requests -> Hashes \cup {NoHash}]
           /\ codes \in SUBSET Requests /\ emailed \in SUBSET Requests
           /\ raced \in BOOLEAN /\ ended \in BOOLEAN
BY DEF Typed, TypeOK

(* A step after which no more tokens are valid than before, and which does   *)
(* not put its request on the way to one, leaves the sessions as they were.  *)
LEMMA QuietSessions ==
    ASSUME Typed, Sole, LoggedOut, NEW r \in Requests, NEW step, NEW args,
           Await(r, step, args), step \notin {"loginRevoke"} \cup StoreSteps,
           UNCHANGED <<rows, hash, raced, ended>>
    PROVE  Sole' /\ LoggedOut'
<1>1. Valid' = Valid /\ \A h : RowsWith(h)' = RowsWith(h)
  BY DEF Valid, RowsWith
<1>2. ASSUME NEW q \in Requests, pc'[q] \in {"loginRevoke"} \cup StoreSteps
      PROVE  q # r /\ pc'[q] = pc[q] /\ job'[q] = job[q]
  BY <1>2, Moved
<1>3. Sole'
  <2>1. CASE raced
    BY <2>1 DEF Sole
  <2>2. CASE ~ raced
    <3>1. \A a, b \in Valid' : a = b
      BY <1>1, <2>2 DEF Sole
    <3>2. ASSUME NEW q \in Requests
          PROVE  /\ pc'[q] \in {"loginCreate", "refreshCreate"} => Valid' = {}
                 /\ pc'[q] = "refreshRevoke" => Valid' \subseteq RowsWith(job[q].token)'
      <4>1. pc'[q] \in {"loginCreate", "refreshCreate"} => Valid' = {}
        BY <1>1, <1>2, <2>2 DEF Sole, StoreSteps
      <4>2. ASSUME pc'[q] = "refreshRevoke"
            PROVE  Valid' \subseteq RowsWith(job[q].token)'
        <5>1. pc[q] = "refreshRevoke" /\ job'[q] = job[q]
          BY <1>2, <4>2 DEF StoreSteps
        <5>2. Valid \subseteq RowsWith(job[q].token)
          BY <2>2, <5>1 DEF Sole
        <5>3. QED
          BY <5>1, <5>2 DEF Valid, RowsWith
      <4>3. QED
        BY <4>1, <4>2
    <3>3. QED
      BY <3>1, <3>2 DEF Sole
  <2>3. QED
    BY <2>1, <2>2
<1>4. LoggedOut'
  BY <1>1, <1>2 DEF LoggedOut
<1>5. QED
  BY <1>3, <1>4

(* A step that sends no code, and ends with one in its job only when it has  *)
(* cleaned up, leaves no used code usable.                                   *)
LEMMA QuietCodes ==
    ASSUME Typed, Coded, CodeConsumed, NEW r \in Requests, NEW step, NEW args,
           Await(r, step, args), pc[r] # "done", UNCHANGED emailed, codes' \subseteq codes,
           args.code # None =>
               /\ args.code \in emailed /\ step \in ResetSteps \cup Outcomes
               /\ step = "done" => codes' = {}
    PROVE  Coded' /\ CodeConsumed'
<1>1. ASSUME NEW q \in Requests
      PROVE  \/ q = r /\ pc'[q] = step /\ job'[q] = args
             \/ q # r /\ pc'[q] = pc[q] /\ job'[q] = job[q]
  BY Moved
<1>2. \A q \in Requests : job'[q].code # None =>
        job'[q].code \in emailed /\ pc'[q] \in ResetSteps \cup Outcomes
  BY <1>1 DEF Coded
<1>3. \A q \in emailed : pc'[q] = "done"
  BY <1>1 DEF Coded, Typed, TypeOK
<1>4. \A q \in Requests :
        pc'[q] = "done" /\ job'[q].code # None => job'[q].code \notin codes'
  BY <1>1 DEF CodeConsumed
<1>5. QED
  BY <1>2, <1>3, <1>4 DEF Coded, CodeConsumed

(* A step that only reads and moves its request                              *)
LEMMA QuietKeeps ==
    ASSUME IInv, NEW r \in Requests, NEW step \in Control, NEW args \in Jobs,
           Await(r, step, args), step \in ResetSteps => args.new \in Passwords,
           UNCHANGED <<exists, password, now, tokens, codes, emailed, history>>,
           step \notin {"loginRevoke"} \cup StoreSteps, pc[r] # "done",
           args.code # None =>
               args.code \in emailed /\ step \in (ResetSteps \cup Outcomes) \ {"done"}
    PROVE  IInv'
<1>1. UNCHANGED <<rows, hash, raced, ended, codes, emailed>>
  BY DEF tokens, history
<1>2. Typed'
  BY <1>1, StepTyped, Types DEF IInv
<1>3. Sole' /\ LoggedOut'
  BY <1>1, QuietSessions DEF IInv
<1>4. Coded' /\ CodeConsumed'
  BY <1>1, QuietCodes DEF IInv
<1>5. QED
  BY <1>2, <1>3, <1>4 DEF IInv

LEMMA GotoArgs ==
    ASSUME IInv, NEW r \in Requests
    PROVE  /\ job[r] \in Jobs
           /\ Job(NoHash, job[r].code, None) \in Jobs
           /\ Job(NoHash, job[r].code, None).code = job[r].code
           /\ job[r].code # None =>
                job[r].code \in emailed /\ pc[r] \in ResetSteps \cup Outcomes
BY JobOf, JobFields DEF IInv, Coded

(* A request that ends without having written anything                       *)
LEMMA QuietEnd ==
    ASSUME IInv, NEW r \in Requests, NEW outcome \in Outcomes, Finish(r, outcome),
           UNCHANGED <<exists, password, now, tokens, codes, emailed, history>>,
           pc[r] # "done",
           outcome = "done" => pc[r] \notin ResetSteps \cup Outcomes
    PROVE  IInv'
<1>1. Await(r, outcome, Job(NoHash, job[r].code, None))
  BY DEF Finish
<1>2. outcome \in Control /\ outcome \notin {"loginRevoke"} \cup StoreSteps \cup ResetSteps
  BY Names
<1>3. QED
  BY <1>1, <1>2, GotoArgs, QuietKeeps

LEMMA BeginKeeps ==
    ASSUME IInv, NEW r \in Requests, NEW ok, NEW step \in Control, NEW args \in Jobs,
           Begin(r, ok, step, args), step \in ResetSteps => args.new \in Passwords,
           step \notin {"loginRevoke"} \cup StoreSteps \cup Outcomes,
           args.code # None => args.code \in emailed /\ step \in ResetSteps
    PROVE  IInv'
<1>1. /\ pc[r] = "idle" /\ pc[r] # "done"
      /\ UNCHANGED <<exists, password, now, tokens, codes, emailed, history>>
  BY DEF Begin
<1>2. CASE Await(r, step, args)
  <2>1. step # "done"
    BY DEF Outcomes
  <2>2. QED
    BY <1>1, <1>2, <2>1, QuietKeeps
<1>3. CASE Await(r, "rejected", NoJob)
  <2>1. "rejected" \in Control /\ "rejected" \notin {"loginRevoke"} \cup StoreSteps \cup ResetSteps
    BY Names DEF Outcomes
  <2>2. QED
    BY <1>1, <1>3, <2>1, NoJobFields, QuietKeeps
<1>4. QED
  BY <1>2, <1>3, Zenon DEF Begin

-----------------------------------------------------------------------------
(* Arrivals.                                                                 *)

LEMMA LoginArrives ==
    ASSUME IInv, NEW r \in Requests, NEW p \in Passwords, Login(r, p)
    PROVE  IInv'
<1>1. /\ pc[r] = "idle"
      /\ UNCHANGED <<exists, password, now, tokens, codes, emailed, raced>>
  BY DEF Login
<1>2. UNCHANGED <<rows, hash>>
  BY <1>1 DEF tokens
<1>3. CASE Await(r, "loginRevoke", NoJob) /\ ended' = FALSE
  <2>1. "loginRevoke" \in Control /\ "loginRevoke" \notin ResetSteps \cup StoreSteps
    BY Names DEF StoreSteps
  <2>2. Typed'
    BY <1>1, <1>2, <1>3, <2>1, NoJobFields, StepTyped, Types DEF IInv
  <2>3. Coded' /\ CodeConsumed'
    BY <1>1, <1>3, NoJobFields, QuietCodes DEF IInv
  <2>4. LoggedOut'
    BY <1>3 DEF LoggedOut
  <2>5. Sole'
    <3>1. CASE raced
      BY <1>1, <3>1 DEF Sole
    <3>2. CASE ~ raced
      <4>1. ASSUME NEW q \in Requests, pc'[q] \in StoreSteps
            PROVE  pc'[q] = pc[q] /\ job'[q] = job[q]
        BY <1>3, <2>1, <4>1, Moved DEF IInv
      <4>2. Valid' = Valid /\ \A a, b \in Valid : a = b
        BY <1>2, <3>2 DEF IInv, Sole, Valid
      <4>3. ASSUME NEW q \in Requests, pc'[q] \in {"loginCreate", "refreshCreate"}
            PROVE  Valid' = {}
        BY <3>2, <4>1, <4>2, <4>3 DEF IInv, Sole, StoreSteps
      <4>4. ASSUME NEW q \in Requests, pc'[q] = "refreshRevoke"
            PROVE  Valid' \subseteq RowsWith(job[q].token)'
        <5>1. pc[q] = "refreshRevoke" /\ job'[q] = job[q]
          BY <4>1, <4>4 DEF StoreSteps
        <5>2. Valid \subseteq RowsWith(job[q].token)
          BY <3>2, <5>1 DEF IInv, Sole
        <5>3. QED
          BY <1>2, <5>1, <5>2 DEF Valid, RowsWith
      <4>5. QED
        BY <4>2, <4>3, <4>4 DEF Sole
    <3>3. QED
      BY <3>1, <3>2
  <2>6. QED
    BY <2>2, <2>3, <2>4, <2>5 DEF IInv
<1>4. CASE Await(r, "rejected", NoJob) /\ UNCHANGED ended
  <2>1. "rejected" \in Control /\ "rejected" \notin {"loginRevoke"} \cup StoreSteps \cup ResetSteps
    BY Names DEF Outcomes
  <2>2. QED
    BY <1>1, <1>4, <2>1, NoJobFields, QuietKeeps DEF history
<1>5. QED
  BY <1>3, <1>4 DEF Login

(* RTGuard admits a valid token, so there is one: nobody has logged out, and *)
(* with no race there is no other.                                           *)
LEMMA RefreshKeeps ==
    ASSUME IInv, NEW r \in Requests, NEW h \in Hashes, Refresh(r, h)
    PROVE  IInv'
<1> DEFINE args == Job(h, None, None)
<1>1. /\ pc[r] = "idle"
      /\ UNCHANGED <<exists, password, now, tokens, codes, emailed, history>>
  BY DEF Refresh
<1>2. UNCHANGED <<rows, hash, raced, ended>>
  BY <1>1 DEF tokens, history
<1>3. args \in Jobs /\ args.code = None /\ args.token = h
  BY JobFields
<1> HIDE DEF args
<1>4. ASSUME NEW a \in RowsWith(h), rows[a] = "valid", Await(r, "refreshRevoke", args)
      PROVE  IInv'
  <2>1. "refreshRevoke" \in Control \cap StoreSteps /\ "refreshRevoke" \notin ResetSteps
    BY Names DEF StoreSteps
  <2>2. Typed'
    BY <1>1, <1>2, <1>3, <1>4, <2>1, StepTyped, Types DEF IInv
  <2>3. Coded' /\ CodeConsumed'
    BY <1>1, <1>3, <1>4, QuietCodes DEF IInv
  <2>4. a \in Valid
    BY <1>4 DEF Valid, RowsWith
  <2>5. LoggedOut'
    BY <1>2, <2>4 DEF IInv, LoggedOut
  <2>6. Sole'
    <3>1. CASE raced
      BY <1>2, <3>1 DEF Sole
    <3>2. CASE ~ raced
      <4>1. ASSUME NEW q \in Requests
            PROVE  \/ q = r /\ pc'[q] = "refreshRevoke" /\ job'[q] = args
                   \/ q # r /\ pc'[q] = pc[q] /\ job'[q] = job[q]
        BY <1>4, Moved DEF IInv
      <4>2. Valid' = Valid /\ \A b \in Valid : b = a
        BY <1>2, <2>4, <3>2 DEF IInv, Sole, Valid
      <4>3. ASSUME NEW q \in Requests, pc'[q] \in {"loginCreate", "refreshCreate"}
            PROVE  Valid' = {}
        BY <3>2, <4>1, <4>2, <4>3 DEF IInv, Sole
      <4>4. ASSUME NEW q \in Requests, pc'[q] = "refreshRevoke"
            PROVE  Valid' \subseteq RowsWith(job[q].token)'
        <5>1. CASE q = r
          <6>1. RowsWith(job[q].token)' = RowsWith(h)
            BY <1>2, <1>3, <4>1, <5>1 DEF RowsWith
          <6>2. QED
            BY <1>4, <4>2, <6>1
        <5>2. CASE q # r
          <6>1. Valid \subseteq RowsWith(job[q].token)
            BY <3>2, <4>1, <4>4, <5>2 DEF IInv, Sole
          <6>2. RowsWith(job[q].token)' = RowsWith(job[q].token)
            BY <1>2, <4>1, <5>2 DEF RowsWith
          <6>3. QED
            BY <4>2, <6>1, <6>2
        <5>3. QED
          BY <5>1, <5>2
      <4>5. QED
        BY <4>2, <4>3, <4>4 DEF Sole
    <3>3. QED
      BY <3>1, <3>2
  <2>7. QED
    BY <2>2, <2>3, <2>5, <2>6 DEF IInv
<1>5. CASE Await(r, "denied", NoJob)
  <2>1. "denied" \in Control /\ "denied" \notin {"loginRevoke"} \cup StoreSteps \cup ResetSteps
    BY Names DEF Outcomes
  <2>2. QED
    BY <1>1, <1>5, <2>1, NoJobFields, QuietKeeps
<1>6. QED
  BY <1>4, <1>5 DEF Refresh, args

LEMMA OtherArrivalsKeep ==
    ASSUME IInv, NEW r \in Requests, Logout(r) \/ ForgotPassword(r)
    PROVE  IInv'
<1>1. /\ "logout" \in Control
      /\ "logout" \notin {"loginRevoke"} \cup StoreSteps \cup Outcomes \cup ResetSteps
  BY DEF Control, Steps, StoreSteps, Outcomes, ResetSteps
<1>2. /\ "codeDelete" \in Control
      /\ "codeDelete" \notin {"loginRevoke"} \cup StoreSteps \cup Outcomes \cup ResetSteps
  BY DEF Control, Steps, CodeSteps, StoreSteps, Outcomes, ResetSteps
<1>3. CASE Begin(r, TRUE, "logout", NoJob)
  BY <1>1, <1>3, NoJobFields, BeginKeeps
<1>4. CASE Begin(r, exists, "codeDelete", NoJob)
  BY <1>2, <1>4, NoJobFields, BeginKeeps
<1>5. QED
  BY <1>3, <1>4, Zenon DEF Logout, ForgotPassword

LEMMA ResetPasswordKeeps ==
    ASSUME IInv, NEW r \in Requests, NEW c \in Requests, NEW p \in Passwords,
           ResetPassword(r, c, p)
    PROVE  IInv'
<1> DEFINE args == Job(NoHash, c, p)
<1>1. args \in Jobs /\ args.code = c /\ args.new = p
  BY JobFields
<1> HIDE DEF args
<1>2. c \in emailed /\ Begin(r, exists /\ c \in codes, "findUser", args)
  BY DEF ResetPassword, args
<1>3. /\ "findUser" \in Control \cap ResetSteps
      /\ "findUser" \notin {"loginRevoke"} \cup StoreSteps \cup Outcomes
  BY DEF Control, Steps, StoreSteps, Outcomes, ResetSteps
<1>4. QED
  BY <1>1, <1>2, <1>3, BeginKeeps

LEMMA ArriveKeeps ==
    ASSUME IInv, NEW r \in Requests, Arrive(r)
    PROVE  IInv'
BY LoginArrives, RefreshKeeps, OtherArrivalsKeep, ResetPasswordKeeps DEF Arrive

-----------------------------------------------------------------------------
(* The steps that revoke and store tokens.                                   *)

(* What a revocation makes of the rows it names                              *)
LEMMA Revoked ==
    ASSUME Typed, NEW which \in SUBSET Requests, Revoke(which)
    PROVE  /\ rows' \in [Requests -> {"none", "valid", "revoked"}]
           /\ Valid' = Valid \ which
           /\ \A q \in Requests : rows'[q] = "none" <=> rows[q] = "none"
<1>1. rows \in [Requests -> {"none", "valid", "revoked"}]
  BY Types
<1>2. \A q \in Requests :
        rows'[q] = IF q \in which /\ rows[q] # "none" THEN "revoked" ELSE rows[q]
  BY DEF Revoke
<1>3. rows' \in [Requests -> {"none", "valid", "revoked"}]
  BY <1>1 DEF Revoke
<1>4. Valid' = Valid \ which
  BY <1>1, <1>2 DEF Valid
<1>5. QED
  BY <1>1, <1>2, <1>3, <1>4

(* A request that has revoked every valid token may be about to store one    *)
LEMMA RevokeKeepsSole ==
    ASSUME Typed, Sole, NEW r \in Requests, NEW step, NEW args, Await(r, step, args),
           step # "refreshRevoke", Valid' = {}
    PROVE  Sole'
BY DEF Sole

LEMMA LoginRevokeKeeps ==
    ASSUME IInv, NEW r \in Requests, LoginRevoke(r)
    PROVE  IInv'
<1> DEFINE args == Job(<<"login", now>>, None, None)
<1>1. /\ pc[r] = "loginRevoke" /\ Await(r, "loginCreate", args)
      /\ UNCHANGED <<exists, password, now, hash, codes, emailed, ended>>
  BY DEF LoginRevoke
<1>2. args \in Jobs /\ args.code = None
  <2>1. <<"login", now>> \in Hashes
    BY Types DEF IInv, Hashes
  <2>2. QED
    BY <2>1, JobFields
<1> HIDE DEF args
<1>3. "loginCreate" \in Control /\ "loginCreate" \notin ResetSteps /\ "loginCreate" # "refreshRevoke"
  BY Names DEF StoreSteps
<1>4. ~ ended /\ ~ ended'
  BY <1>1, Types DEF IInv, LoggedOut
<1>5. Coded' /\ CodeConsumed'
  BY <1>1, <1>2, QuietCodes DEF IInv
<1>6. CASE Revoke(Requests) /\ UNCHANGED raced
  <2>1. Valid' = {} /\ rows' \in [Requests -> {"none", "valid", "revoked"}]
    BY <1>6, Revoked DEF IInv, Valid
  <2>2. Sole'
    BY <1>1, <1>3, <2>1, RevokeKeepsSole DEF IInv
  <2>3. Typed'
    BY <1>1, <1>2, <1>3, <1>6, <2>1, StepTyped, Types DEF IInv
  <2>4. QED
    BY <1>4, <1>5, <2>2, <2>3 DEF IInv, LoggedOut
<1>7. CASE raced' = TRUE /\ UNCHANGED rows
  <2>1. Typed'
    BY <1>1, <1>2, <1>3, <1>7, StepTyped, Types DEF IInv
  <2>2. QED
    BY <1>4, <1>5, <1>7, <2>1 DEF IInv, LoggedOut, Sole
<1>8. QED
  BY <1>6, <1>7 DEF LoginRevoke

LEMMA RefreshRevokeKeeps ==
    ASSUME IInv, NEW r \in Requests, RefreshRevoke(r)
    PROVE  IInv'
<1> DEFINE args == Job(<<"refresh", now>>, None, None)
<1>0. PICK h : h = job[r].token
  OBVIOUS
<1>1. /\ pc[r] = "refreshRevoke" /\ Await(r, "refreshCreate", args) /\ Revoke(RowsWith(h))
      /\ UNCHANGED <<exists, password, now, hash, codes, emailed, raced, ended>>
  BY <1>0 DEF RefreshRevoke, history
<1>2. args \in Jobs /\ args.code = None
  <2>1. <<"refresh", now>> \in Hashes
    BY Types DEF IInv, Hashes
  <2>2. QED
    BY <2>1, JobFields
<1> HIDE DEF args
<1>3. /\ "refreshCreate" \in Control
      /\ "refreshCreate" \notin ResetSteps /\ "refreshCreate" # "refreshRevoke"
  BY Names DEF StoreSteps
<1>4. ~ ended /\ ~ ended'
  BY <1>1, Types DEF IInv, LoggedOut, StoreSteps
<1>5. Coded' /\ CodeConsumed'
  BY <1>1, <1>2, QuietCodes DEF IInv
<1>6. /\ Valid' = Valid \ RowsWith(h)
      /\ rows' \in [Requests -> {"none", "valid", "revoked"}]
  BY <1>1, Revoked DEF IInv, RowsWith
<1>7. Typed'
  BY <1>1, <1>2, <1>3, <1>6, StepTyped, Types DEF IInv
<1>8. Sole'
  <2>1. CASE raced
    BY <1>1, <2>1 DEF Sole
  <2>2. CASE ~ raced
    <3>1. Valid' = {}
      BY <1>0, <1>1, <1>6, <2>2 DEF IInv, Sole
    <3>2. QED
      BY <1>1, <1>3, <3>1, RevokeKeepsSole DEF IInv
  <2>3. QED
    BY <2>1, <2>2
<1>9. QED
  BY <1>4, <1>5, <1>7, <1>8 DEF IInv, LoggedOut

LEMMA LogoutRevokeKeeps ==
    ASSUME IInv, NEW r \in Requests, LogoutRevoke(r)
    PROVE  IInv'
<1>1. /\ pc[r] = "logout" /\ Finish(r, "done") /\ Revoke(Requests)
      /\ ended' = (\A q \in Requests : pc[q] # "loginRevoke" /\ ~ Storing(q))
      /\ UNCHANGED <<exists, password, now, hash, codes, emailed, raced>>
  BY DEF LogoutRevoke
<1> DEFINE args == Job(NoHash, job[r].code, None)
<1>2. Await(r, "done", args)
  BY <1>1 DEF Finish
<1>3. args \in Jobs /\ args.code = None
  <2>1. "logout" \notin ResetSteps \cup Outcomes
    BY DEF ResetSteps, Outcomes
  <2>2. QED
    BY <1>1, <2>1, GotoArgs
<1> HIDE DEF args
<1>4. "done" \in Control /\ "done" \notin ResetSteps \cup {"loginRevoke"} \cup StoreSteps
  BY Names DEF Outcomes
<1>5. Valid' = {} /\ rows' \in [Requests -> {"none", "valid", "revoked"}]
  BY <1>1, Revoked DEF IInv, Valid
<1>6. Typed'
  BY <1>1, <1>2, <1>3, <1>4, <1>5, StepTyped, Types DEF IInv
<1>7. Sole'
  BY <1>2, <1>4, <1>5, RevokeKeepsSole DEF IInv, StoreSteps
<1>8. LoggedOut'
  <2>1. \A q \in Requests : pc[q] \in StoreSteps <=> Storing(q)
    BY DEF StoreSteps, Storing
  <2>2. ASSUME ended', NEW q \in Requests PROVE pc'[q] \notin {"loginRevoke"} \cup StoreSteps
    <3>1. pc[q] \notin {"loginRevoke"} \cup StoreSteps
      BY <1>1, <2>1, <2>2
    <3>2. QED
      BY <1>2, <1>4, <3>1, Moved DEF IInv
  <2>3. QED
    BY <1>5, <2>2 DEF LoggedOut
<1>9. Coded' /\ CodeConsumed'
  BY <1>1, <1>2, <1>3, QuietCodes DEF IInv
<1>10. QED
  BY <1>6, <1>7, <1>8, <1>9 DEF IInv

(* A token is stored by a handler that left none valid; if another handler   *)
(* is about to store one too, raced remembers it.                            *)
LEMMA CreateKeeps ==
    ASSUME IInv, NEW r \in Requests, NEW at \in {"loginCreate", "refreshCreate"},
           NEW next \in {"done", "refreshUser"}, Create(r, at, next)
    PROVE  IInv'
<1>1. pc[r] = at /\ UNCHANGED <<exists, password, now, codes, emailed, ended>>
  BY DEF Create
<1>2. at \in StoreSteps /\ at \notin ResetSteps \cup Outcomes /\ at # "done"
  BY DEF StoreSteps, ResetSteps, Outcomes
<1>3. ~ ended /\ ~ ended'
  BY <1>1, <1>2, Types DEF IInv, LoggedOut
<1>4. job[r].code = None
  BY <1>1, <1>2, GotoArgs
<1>5. CASE exists
  <2>1. /\ rows' = [rows EXCEPT ![r] = "valid"]
        /\ hash' = [hash EXCEPT ![r] = job[r].token]
        /\ raced' = (raced \/ \E q \in Requests \ {r} : Storing(q))
    BY <1>5 DEF Create
  <2>2. PICK args \in Jobs : Await(r, next, args) /\ args.code = None
    BY <1>4, <1>5, GotoArgs DEF Create, Finish, Goto
  <2>3. next \in Control /\ next \notin ResetSteps \cup {"loginRevoke"} \cup StoreSteps
    BY DEF Control, Steps, RefreshSteps, Outcomes, ResetSteps, StoreSteps
  <2>4. Typed'
    <3>1. /\ rows' \in [Requests -> {"none", "valid", "revoked"}]
          /\ hash' \in [Requests -> Hashes \cup {NoHash}]
      BY <2>1, Types, JobOf DEF IInv
    <3>2. raced' \in BOOLEAN
      BY <2>1, Types, Zenon DEF IInv
    <3>3. QED
      BY <1>1, <2>2, <2>3, <3>1, <3>2, StepTyped, Types DEF IInv
  <2>5. Sole'
    <3>1. CASE raced'
      BY <3>1 DEF Sole
    <3>2. CASE ~ raced'
      <4>1. ~ raced /\ \A q \in Requests \ {r} : ~ Storing(q)
        BY <2>1, <3>2
      <4>2. Valid = {}
        BY <1>1, <4>1 DEF IInv, Sole
      <4>3. Valid' = {r}
        BY <2>1, <4>2, Types DEF IInv, Valid
      <4>4. ASSUME NEW q \in Requests PROVE pc'[q] \notin StoreSteps
        BY <2>2, <2>3, <4>1, Moved DEF IInv, Storing, StoreSteps
      <4>5. QED
        BY <4>3, <4>4 DEF Sole, StoreSteps
    <3>3. QED
      BY <3>1, <3>2
  <2>6. Coded' /\ CodeConsumed'
    BY <1>1, <1>2, <2>2, QuietCodes DEF IInv
  <2>7. QED
    BY <1>3, <2>4, <2>5, <2>6 DEF IInv, LoggedOut
<1>6. CASE ~ exists
  <2>1. Finish(r, "failed") /\ UNCHANGED <<tokens, raced>>
    BY <1>6 DEF Create
  <2>2. "failed" \in Outcomes /\ "failed" # "done"
    BY DEF Outcomes
  <2>3. QED
    BY <1>1, <1>2, <2>1, <2>2, QuietEnd DEF history
<1>7. QED
  BY <1>5, <1>6

LEMMA CreatesKeep ==
    ASSUME IInv, NEW r \in Requests, LoginCreate(r) \/ RefreshCreate(r)
    PROVE  IInv'
BY CreateKeeps DEF LoginCreate, RefreshCreate

-----------------------------------------------------------------------------
(* The steps that store no token.                                            *)

LEMMA RefreshUserKeeps ==
    ASSUME IInv, NEW r \in Requests, RefreshUser(r)
    PROVE  IInv'
<1>1. /\ pc[r] = "refreshUser"
      /\ UNCHANGED <<exists, password, now, tokens, codes, emailed, history>>
  BY DEF RefreshUser
<1>2. pc[r] \notin ResetSteps \cup Outcomes /\ pc[r] # "done"
  BY <1>1 DEF ResetSteps, Outcomes
<1>3. "done" \in Outcomes /\ "failed" \in Outcomes
  BY DEF Outcomes
<1>4. CASE Finish(r, "done")
  BY <1>1, <1>2, <1>3, <1>4, QuietEnd
<1>5. CASE Finish(r, "failed")
  BY <1>1, <1>2, <1>3, <1>5, QuietEnd
<1>6. QED
  BY <1>4, <1>5, Zenon DEF RefreshUser

LEMMA RequestFailsKeeps ==
    ASSUME IInv, NEW r \in Requests, RequestFails(r)
    PROVE  IInv'
<1>1. /\ pc[r] \in Steps /\ Finish(r, "failed")
      /\ UNCHANGED <<exists, password, now, tokens, codes, emailed, history>>
  BY DEF RequestFails
<1>2. "failed" \in Outcomes /\ "failed" # "done" /\ pc[r] # "done"
  BY <1>1, Names DEF Outcomes
<1>3. QED
  BY <1>1, <1>2, QuietEnd

(* The steps of updatePassword leave the tokens and the codes alone          *)
LEMMA ResetStepKeeps ==
    ASSUME IInv, NEW r \in Requests, NEW step \in ResetSteps,
           pc[r] \in ResetSteps, Goto(r, step),
           exists' \in BOOLEAN, password' \in Passwords,
           UNCHANGED <<now, tokens, codes, emailed, history>>
    PROVE  IInv'
<1>1. UNCHANGED <<rows, hash, raced, ended>>
  BY DEF tokens, history
<1>2. Await(r, step, job[r])
  BY DEF Goto
<1>3. job[r].new \in Passwords /\ job[r] \in Jobs
  BY JobOf DEF IInv
<1>4. step \in Control /\ step \notin {"loginRevoke"} \cup StoreSteps \cup Outcomes
  BY Names
<1>5. step # "done" /\ pc[r] # "done"
  BY Names DEF Outcomes
<1>6. Typed'
  BY <1>1, <1>2, <1>3, <1>4, StepTyped, Types DEF IInv
<1>7. Sole' /\ LoggedOut'
  BY <1>1, <1>2, <1>4, QuietSessions DEF IInv
<1>8. Coded' /\ CodeConsumed'
  BY <1>2, <1>5, GotoArgs, QuietCodes DEF IInv
<1>9. QED
  BY <1>6, <1>7, <1>8 DEF IInv

LEMMA UpdatePasswordKeeps ==
    ASSUME IInv, NEW r \in Requests,
           FindUser(r) \/ SaveReload(r) \/ SaveUpdate(r) \/ SaveInsert(r)
    PROVE  IInv'
<1>1. /\ exists \in BOOLEAN /\ password \in Passwords
      /\ pc[r] \in ResetSteps => job[r].new \in Passwords
  BY Types, JobOf DEF IInv
<1>2. ResetSteps = {"findUser", "saveReload", "saveUpdate", "saveInsert", "codeClean"}
  BY DEF ResetSteps
<1>3. CASE FindUser(r)
  BY <1>1, <1>2, <1>3, ResetStepKeeps DEF FindUser
<1>4. CASE SaveReload(r)
  BY <1>1, <1>2, <1>4, ResetStepKeeps DEF SaveReload
<1>5. CASE SaveUpdate(r)
  BY <1>1, <1>2, <1>5, ResetStepKeeps DEF SaveUpdate
<1>6. CASE SaveInsert(r)
  <2>1. CASE exists
    <3>1. /\ pc[r] = "saveInsert" /\ Finish(r, "failed")
          /\ UNCHANGED <<exists, password, now, tokens, codes, emailed, history>>
      BY <1>6, <2>1 DEF SaveInsert
    <3>2. QED
      BY <3>1, QuietEnd DEF Outcomes
  <2>2. CASE ~ exists
    BY <1>1, <1>2, <1>6, <2>2, ResetStepKeeps DEF SaveInsert
  <2>3. QED
    BY <2>1, <2>2
<1>7. QED
  BY <1>3, <1>4, <1>5, <1>6

(* Deleting codes harms none of the sessions, and makes no code usable       *)
LEMMA ClearKeeps ==
    ASSUME IInv, NEW r \in Requests, CodeDelete(r) \/ CodeClean(r)
    PROVE  IInv'
<1>1. /\ codes' = {} /\ pc[r] \in {"codeDelete", "codeClean"}
      /\ UNCHANGED <<exists, password, now, tokens, emailed, history>>
  BY DEF CodeDelete, CodeClean
<1>2. UNCHANGED <<rows, hash, raced, ended>>
  BY <1>1 DEF tokens, history
<1>3. /\ {"codeInsert", "done"} \subseteq Control
      /\ \A step \in {"codeInsert", "done"} :
            step \notin {"loginRevoke"} \cup StoreSteps \cup ResetSteps
      /\ "codeDelete" \notin ResetSteps \cup Outcomes /\ "done" \in Outcomes
  BY DEF Control, Steps, CodeSteps, Outcomes, StoreSteps, ResetSteps
<1>4. PICK step \in {"codeInsert", "done"} :
        \E args \in Jobs : /\ Await(r, step, args)
                           /\ args.code # None => args.code \in emailed /\ step \in Outcomes
  <2>1. CASE CodeDelete(r)
    <3>1. Await(r, "codeInsert", job[r]) /\ job[r].code = None
      BY <1>3, <2>1, GotoArgs DEF CodeDelete, Goto
    <3>2. QED
      BY <3>1, GotoArgs
  <2>2. CASE CodeClean(r)
    <3>1. Await(r, "done", Job(NoHash, job[r].code, None))
      BY <2>2 DEF CodeClean, Finish
    <3>2. QED
      BY <1>3, <3>1, GotoArgs
  <2>3. QED
    BY <2>1, <2>2
<1>5. PICK args \in Jobs : /\ Await(r, step, args)
                           /\ args.code # None => args.code \in emailed /\ step \in Outcomes
  BY <1>4
<1>6. Typed'
  BY <1>1, <1>2, <1>3, <1>5, StepTyped, Types DEF IInv
<1>7. Sole' /\ LoggedOut'
  BY <1>2, <1>3, <1>5, QuietSessions DEF IInv
<1>8. Coded' /\ CodeConsumed'
  BY <1>1, <1>5, QuietCodes DEF IInv
<1>9. QED
  BY <1>6, <1>7, <1>8 DEF IInv

(* The code inserted is a new one: no job holds it                           *)
LEMMA CodeInsertKeeps ==
    ASSUME IInv, NEW r \in Requests, CodeInsert(r)
    PROVE  IInv'
<1> DEFINE args == Job(NoHash, job[r].code, None)
<1>1. pc[r] = "codeInsert" /\ UNCHANGED <<exists, password, now, tokens, history>>
  BY DEF CodeInsert
<1>2. pc[r] \notin ResetSteps \cup Outcomes /\ pc[r] # "done"
  BY <1>1 DEF ResetSteps, Outcomes
<1>3. UNCHANGED <<rows, hash, raced, ended>>
  BY <1>1 DEF tokens, history
<1>4. CASE ~ exists
  <2>1. Finish(r, "failed") /\ UNCHANGED <<codes, emailed>>
    BY <1>4 DEF CodeInsert
  <2>2. "failed" \in Outcomes /\ "failed" # "done"
    BY DEF Outcomes
  <2>3. QED
    BY <1>1, <1>2, <2>1, <2>2, QuietEnd
<1>5. CASE exists
  <2>1. /\ codes' = codes \cup {r} /\ emailed' = emailed \cup {r}
        /\ Await(r, "done", args)
    BY <1>5 DEF CodeInsert, Finish
  <2>2. args \in Jobs /\ args.code = None
    BY <1>2, GotoArgs
  <2> HIDE DEF args
  <2>3. "done" \in Control /\ "done" \notin {"loginRevoke"} \cup StoreSteps \cup ResetSteps
    BY Names DEF Outcomes
  <2>4. Typed'
    BY <1>1, <1>3, <2>1, <2>2, <2>3, StepTyped, Types DEF IInv
  <2>5. Sole' /\ LoggedOut'
    BY <1>3, <2>1, <2>3, QuietSessions DEF IInv
  <2>6. ASSUME NEW q \in Requests, job'[q].code # None
        PROVE  /\ q # r /\ pc'[q] = pc[q] /\ job'[q] = job[q]
               /\ job[q].code \in emailed /\ job[q].code # r
               /\ pc[q] \in ResetSteps \cup Outcomes
    <3>1. q # r /\ pc'[q] = pc[q] /\ job'[q] = job[q]
      BY <2>1, <2>2, <2>6, Moved DEF IInv
    <3>2. job[q].code \in emailed /\ pc[q] \in ResetSteps \cup Outcomes
      BY <2>6, <3>1 DEF IInv, Coded
    <3>3. r \notin emailed
      BY <1>2 DEF IInv, Coded
    <3>4. QED
      BY <3>1, <3>2, <3>3
  <2>7. Coded'
    <3>1. ASSUME NEW q \in emailed' PROVE pc'[q] = "done"
      BY <2>1, Moved, Types DEF IInv, Coded
    <3>2. QED
      BY <2>1, <2>6, <3>1 DEF Coded
  <2>8. CodeConsumed'
    BY <2>1, <2>6 DEF IInv, CodeConsumed
  <2>9. QED
    BY <2>4, <2>5, <2>7, <2>8 DEF IInv
<1>6. QED
  BY <1>4, <1>5

LEMMA DeleteAccountKeeps ==
    ASSUME IInv, DeleteAccount
    PROVE  IInv'
<1>1. /\ exists' = FALSE /\ rows' = [r \in Requests |-> "none"] /\ codes' = {}
      /\ UNCHANGED <<password, now, hash, emailed, pc, job, raced, ended>>
  BY DEF DeleteAccount, history
<1>2. Valid' = {}
  BY <1>1 DEF Valid
<1>3. Typed'
  BY <1>1 DEF IInv, Typed, TypeOK
<1>4. QED
  BY <1>1, <1>2, <1>3 DEF IInv, Sole, LoggedOut, Coded, CodeConsumed

LEMMA IdleKeeps ==
    ASSUME IInv, now' \in 0 .. LastSecond,
           UNCHANGED <<exists, password, tokens, codes, emailed, pc, job, history>>
    PROVE  IInv'
<1>1. UNCHANGED <<exists, password, rows, hash, codes, emailed, pc, job, raced, ended>>
  BY DEF tokens, history
<1>2. Typed'
  BY <1>1 DEF IInv, Typed, TypeOK
<1>3. Sole' /\ LoggedOut'
  BY <1>1 DEF IInv, Sole, LoggedOut, Valid, RowsWith
<1>4. QED
  BY <1>1, <1>2, <1>3 DEF IInv, Coded, CodeConsumed

-----------------------------------------------------------------------------
(* The invariant holds.                                                      *)

LEMMA NextKeeps == IInv /\ [Next]_vars => IInv'
<1> SUFFICES ASSUME IInv, [Next]_vars PROVE IInv'
  OBVIOUS
<1>1. now \in 0 .. LastSecond
  BY Types DEF IInv
<1>2. ASSUME NEW r \in Requests, Continue(r)
      PROVE  IInv'
  BY <1>2, LoginRevokeKeeps, CreatesKeep, RefreshRevokeKeeps, RefreshUserKeeps,
     LogoutRevokeKeeps, ClearKeeps, CodeInsertKeeps, UpdatePasswordKeeps, RequestFailsKeeps
  DEF Continue
<1>3. CASE Tick
  <2>1. now' \in 0 .. LastSecond
    BY <1>1, <1>3, LastSecondAssumption DEF Tick
  <2>2. QED
    BY <1>3, <2>1, IdleKeeps DEF Tick
<1>4. CASE UNCHANGED vars
  BY <1>1, <1>4, IdleKeeps DEF vars
<1>5. QED
  BY <1>2, <1>3, <1>4, ArriveKeeps, DeleteAccountKeeps DEF Next

LEMMA InitHolds == Init => IInv
<1> SUFFICES ASSUME Init PROVE IInv
  OBVIOUS
<1>1. \A r \in Requests : pc[r] = "idle" /\ job[r] = NoJob
  BY DEF Init
<1>2. TypeOK
  <2>1. now \in 0 .. LastSecond /\ password \in Passwords
    BY LastSecondAssumption DEF Init
  <2>2. job \in [Requests -> Jobs] /\ pc \in [Requests -> Control]
    BY NoJobFields DEF Init, Control
  <2>3. raced \in BOOLEAN /\ ended \in BOOLEAN /\ exists \in BOOLEAN
    BY DEF Init
  <2>4. /\ rows \in [Requests -> {"none", "valid", "revoked"}]
        /\ hash \in [Requests -> Hashes \cup {NoHash}]
        /\ codes \in SUBSET Requests /\ emailed \in SUBSET Requests
    BY DEF Init
  <2>5. QED
    BY <2>1, <2>2, <2>3, <2>4 DEF TypeOK, Jobs, Control
<1>3. Typed
  BY <1>1, <1>2, Names DEF Typed
<1>4. Valid = {}
  BY DEF Init, Valid
<1>5. Sole /\ LoggedOut
  BY <1>1, <1>4, Names DEF Sole, LoggedOut, StoreSteps
<1>6. Coded /\ CodeConsumed
  BY <1>1, NoJobFields DEF Init, Coded, CodeConsumed
<1>7. QED
  BY <1>3, <1>5, <1>6 DEF IInv

LEMMA InvariantHolds == Spec => []IInv
BY InitHolds, NextKeeps, PTL DEF Spec

(* Every variable keeps its type, and a handler that resets a password holds *)
(* the new one until it has saved it.                                        *)
THEOREM TypesCorrect == Spec => []TypeOK
<1>1. IInv => TypeOK
  BY DEF IInv, Typed
<1>2. QED
  BY <1>1, InvariantHolds, PTL

(* AuthService keeps one refresh token valid at a time, for any number of    *)
(* logins, refreshes, logouts and resets in flight, unless two handlers were *)
(* storing tokens at once or a revocation failed.                            *)
THEOREM OneSession == Spec => []SingleSession
<1>1. IInv => SingleSession
  <2> SUFFICES ASSUME IInv, ~ raced PROVE Cardinality(Valid) <= 1
    BY DEF SingleSession
  <2>1. \A a, b \in Valid : a = b
    BY DEF IInv, Sole
  <2>2. CASE Valid = {}
    BY <2>2, FS_EmptySet
  <2>3. ASSUME NEW a \in Valid
        PROVE  Cardinality(Valid) = 1
    <3>1. Valid = {a}
      BY <2>1
    <3>2. QED
      BY <3>1, FS_Singleton
  <2>4. QED
    BY <2>2, <2>3
<1>2. QED
  BY <1>1, InvariantHolds, PTL

(* After a logout that met no login or refresh in flight, every refresh      *)
(* token is revoked, and a revoked one presented to RTGuard gets no other.   *)
THEOREM LogoutIsFinal == Spec => []LogoutEndsSessions
<1>1. IInv => LogoutEndsSessions
  BY DEF IInv, LoggedOut, LogoutEndsSessions
<1>2. QED
  BY <1>1, InvariantHolds, PTL

(* A reset code that has set a password is not in reset_tokens once the      *)
(* reset is answered, whatever codes are requested meanwhile and after.      *)
THEOREM CodesAreConsumed == Spec => []CodeConsumed
<1>1. IInv => CodeConsumed
  BY DEF IInv
<1>2. QED
  BY <1>1, InvariantHolds, PTL

=============================================================================
