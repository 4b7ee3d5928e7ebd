------------------------------ MODULE FeedProofs ------------------------------
(***************************************************************************)
(* TLAPS proofs about Feed, for any accounts, any finite set of posts, any *)
(* number of chains in flight and any limits.  Both invariants of the      *)
(* projection are inductive once it is known what a chain in flight holds: *)
(* a post being created is stamped and created once, a follower that is    *)
(* backfilled is not the author, and what a cleanup is to delete has been  *)
(* noted as removed.  Completeness is proved of every visibility, because  *)
(* neither a fan-out nor a backfill reads it.                              *)
(***************************************************************************)
EXTENDS Feed, FiniteSetTheorems, TLAPS

Steps == {"idle"} \cup RequestSteps \cup HandlerSteps

Tasks == [step: Steps, owner: Users \cup {None}, author: Users \cup {None},
          post: Posts \cup {None}, vis: Audiences \cup {None}, batch: SUBSET FeedSlots]

PostSteps == {"creating", "updating", "deleting", "fanOutRead", "postCleanup"}
PairSteps == {"unfollowing", "backfillRead", "unfollowCleanup"}
InsertSteps == {"fanOutInsert", "backfillInsert"}

(* What a chain at its step holds                                            *)
Fits(task) ==
    /\ task \in Tasks
    /\ task.step \in PostSteps => task.post \in Posts
    /\ task.step = "updating" => task.vis \in Audiences
    /\ task.step \in PairSteps => task.owner \in Users /\ task.author \in Users
    /\ task.step = "backfillRead" => task.owner # task.author

Typed == TypeOK /\ \A s \in Slots : Fits(tasks[s])

(* A post is created once, and dated when it is                              *)
Stamped ==
    /\ \A s \in Slots : At(s, "creating") =>
          /\ state[tasks[s].post] = "stamped"
          /\ \A t \in Slots \ {s} : At(t, "creating") => tasks[t].post # tasks[s].post
    /\ \A s \in Slots : At(s, "deleting") => state[tasks[s].post] \notin {"none", "stamped"}
    /\ \A p \in Posts : state[p] = "none" => createdAt[p] = 0

(* The feed slots a chain is to add items for, and those it is to clean     *)
Adding(task, o, p) ==
    \/ task.step = "fanOutRead" /\ p = task.post
    \/ task.step \in InsertSteps /\ <<o, p>> \in task.batch
    \/ task.step = "backfillRead" /\ o = task.owner /\ Author[p] = task.author

Cleaning(task, o, p) ==
    \/ task.step = "postCleanup" /\ p = task.post
    \/ task.step = "unfollowCleanup" /\ o = task.owner /\ Author[p] = task.author

(* What a cleanup is to delete has been ordered removed                      *)
Ordered ==
    \A s \in Slots, o \in Users, p \in Posts : Cleaning(tasks[s], o, p) => <<o, p>> \in removed

(* What fan-outs and backfills add, whatever the visibility                  *)
Belongs(o, p) ==
    /\ state[p] = "live"
    /\ o = Author[p] \/ <<o, Author[p]>> \in follows

Owed(o, p) ==
    /\ Belongs(o, p)
    /\ o = Author[p] \/ Newest(p)
    /\ createdAt[p] > cutoff
    /\ o \in accounts
    /\ <<o, p>> \notin lost \cup removed

(* FeedComplete and FeedSound, over what each chain adds and cleans          *)
Complete ==
    \A o \in Users, p \in Posts :
        Owed(o, p) => <<o, p>> \in items \/ \E s \in Slots : Adding(tasks[s], o, p)

Sound ==
    \A o \in Users, p \in Posts :
        <<o, p>> \in items \ (late \cup lost) =>
            Due(o, p) \/ \E s \in Slots : Cleaning(tasks[s], o, p)

IInv == Typed /\ Stamped /\ Ordered /\ Complete /\ Sound

-----------------------------------------------------------------------------
(* Chains and their slots.                                                   *)

LEMMA StepSets ==
    /\ PostSteps \subseteq Steps /\ PairSteps \subseteq Steps /\ InsertSteps \subseteq Steps
    /\ PostSteps \cap PairSteps = {} /\ PostSteps \cap InsertSteps = {}
    /\ PairSteps \cap InsertSteps = {}
    /\ "idle" \in Steps /\ "idle" \notin PostSteps \cup PairSteps \cup InsertSteps
BY DEF Steps, RequestSteps, HandlerSteps, PostSteps, PairSteps, InsertSteps

(* The rows a chain is made of                                               *)
LEMMA IdleRow ==
    Fits(Idle) /\ Idle.step = "idle" /\ \A o, p : ~ Adding(Idle, o, p) /\ ~ Cleaning(Idle, o, p)
<1>1. Idle = [step |-> "idle", owner |-> None, author |-> None, post |-> None, vis |-> None, batch |-> {}]
  BY DEF Idle, Task
<1>2. Idle \in Tasks
  BY <1>1 DEF Tasks, Steps
<1>3. QED
  BY <1>1, <1>2 DEF Fits, Adding, Cleaning, PostSteps, PairSteps, InsertSteps

LEMMA PostRow ==
    ASSUME NEW step \in PostSteps \ {"updating"}, NEW p \in Posts
    PROVE  LET row == OfPost(step, p)
           IN  /\ Fits(row) /\ row.step = step /\ row.post = p
               /\ \A o, q : Adding(row, o, q) <=> step = "fanOutRead" /\ q = p
               /\ \A o, q : Cleaning(row, o, q) <=> step = "postCleanup" /\ q = p
<1> DEFINE row == OfPost(step, p)
<1>1. row = [step |-> step, owner |-> None, author |-> Author[p], post |-> p, vis |-> None, batch |-> {}]
  BY DEF OfPost, Task
<1>2. step \in Steps /\ step \notin PairSteps /\ step \notin InsertSteps
  BY DEF Steps, RequestSteps, HandlerSteps, PostSteps, PairSteps, InsertSteps
<1>3. row \in Tasks
  BY <1>1, <1>2, AuthorAssumption DEF Tasks
<1>4. step # "backfillRead" /\ step # "unfollowCleanup"
  BY DEF PostSteps
<1> HIDE DEF row
<1>5. Fits(row)
  BY <1>1, <1>2, <1>3, <1>4 DEF Fits
<1>6. /\ row.step = step /\ row.post = p
      /\ \A o, q : Adding(row, o, q) <=> step = "fanOutRead" /\ q = p
      /\ \A o, q : Cleaning(row, o, q) <=> step = "postCleanup" /\ q = p
  BY <1>1, <1>2, <1>4 DEF Adding, Cleaning
<1>7. QED
  BY <1>5, <1>6 DEF row

LEMMA UpdatingRow ==
    ASSUME NEW p \in Posts, NEW vis \in Audiences
    PROVE  LET row == Task("updating", None, Author[p], p, vis, {})
           IN  /\ Fits(row) /\ row.step = "updating"
               /\ \A o, q : ~ Adding(row, o, q) /\ ~ Cleaning(row, o, q)
<1> DEFINE row == Task("updating", None, Author[p], p, vis, {})
<1>1. row = [step |-> "updating", owner |-> None, author |-> Author[p], post |-> p, vis |-> vis, batch |-> {}]
  BY DEF OfPost, Task
<1>2. "updating" \in Steps /\ "updating" \notin PairSteps /\ "updating" \notin InsertSteps
  BY DEF Steps, RequestSteps, HandlerSteps, PostSteps, PairSteps, InsertSteps
<1>3. row \in Tasks
  BY <1>1, <1>2, AuthorAssumption DEF Tasks
<1>4. "updating" # "backfillRead" /\ "updating" # "unfollowCleanup"
  BY DEF PostSteps
<1> HIDE DEF row
<1>5. Fits(row)
  BY <1>1, <1>2, <1>3, <1>4 DEF Fits
<1>6. /\ row.step = "updating"
      /\ \A o, q : ~ Adding(row, o, q) /\ ~ Cleaning(row, o, q)
  BY <1>1, <1>2 DEF Adding, Cleaning
<1>7. QED
  BY <1>5, <1>6 DEF row

LEMMA PairRow ==
    ASSUME NEW step \in PairSteps, NEW o \in Users, NEW a \in Users,
           step = "backfillRead" => o # a
    PROVE  LET row == OfPair(step, o, a)
           IN  /\ Fits(row) /\ row.step = step /\ row.owner = o /\ row.author = a
               /\ \A v, q : Adding(row, v, q) <=> step = "backfillRead" /\ v = o /\ Author[q] = a
               /\ \A v, q : Cleaning(row, v, q) <=> step = "unfollowCleanup" /\ v = o /\ Author[q] = a
<1> DEFINE row == OfPair(step, o, a)
<1>1. row = [step |-> step, owner |-> o, author |-> a, post |-> None, vis |-> None, batch |-> {}]
  BY DEF OfPair, Task
<1>2. step \in Steps /\ step \notin PostSteps /\ step \notin InsertSteps
  BY DEF Steps, RequestSteps, HandlerSteps, PostSteps, PairSteps, InsertSteps
<1>3. row \in Tasks
  BY <1>1, <1>2 DEF Tasks
<1>4. step # "fanOutRead" /\ step # "postCleanup" /\ step # "updating"
  BY DEF PairSteps
<1> HIDE DEF row
<1>5. Fits(row)
  BY <1>1, <1>2, <1>3, <1>4 DEF Fits
<1>6. /\ row.step = step /\ row.owner = o /\ row.author = a
      /\ \A v, q : Adding(row, v, q) <=> step = "backfillRead" /\ v = o /\ Author[q] = a
      /\ \A v, q : Cleaning(row, v, q) <=> step = "unfollowCleanup" /\ v = o /\ Author[q] = a
  BY <1>1, <1>2, <1>4 DEF Adding, Cleaning
<1>7. QED
  BY <1>5, <1>6 DEF row

(* A chain on its way to insert a batch                                      *)
LEMMA InsertRow ==
    ASSUME NEW row \in Tasks, row.step \in InsertSteps
    PROVE  /\ Fits(row)
           /\ \A o, p : Adding(row, o, p) <=> <<o, p>> \in row.batch
           /\ \A o, p : ~ Cleaning(row, o, p)
<1>1. row.step \notin PostSteps /\ row.step \notin PairSteps
  BY StepSets
<1>2. /\ row.step # "updating" /\ row.step # "backfillRead" /\ row.step # "fanOutRead"
      /\ row.step # "postCleanup" /\ row.step # "unfollowCleanup"
  BY DEF InsertSteps
<1>3. Fits(row)
  BY <1>1, <1>2 DEF Fits
<1>4. QED
  BY <1>2, <1>3 DEF Adding, Cleaning

(* What a chain serves is what it adds and what it cleans                    *)
LEMMA ServesForm ==
    ASSUME NEW s \in Slots, NEW o \in Users, NEW p \in Posts
    PROVE  /\ <<o, p>> \in Serves(s) <=> Adding(tasks[s], o, p) \/ Cleaning(tasks[s], o, p)
           /\ Adds(s) => (<<o, p>> \in Serves(s) <=> Adding(tasks[s], o, p))
           /\ Cleans(s) => (<<o, p>> \in Serves(s) <=> Cleaning(tasks[s], o, p))
           /\ Adding(tasks[s], o, p) => Adds(s)
           /\ Cleaning(tasks[s], o, p) => Cleans(s)
<1>1. CASE At(s, "fanOutRead")
  BY <1>1 DEF At, Serves, Adding, Cleaning, Adds, Cleans, InsertSteps
<1>2. CASE At(s, "postCleanup")
  BY <1>2 DEF At, Serves, Adding, Cleaning, Adds, Cleans, InsertSteps
<1>3. CASE At(s, "fanOutInsert") \/ At(s, "backfillInsert")
  BY <1>3 DEF At, Serves, Adding, Cleaning, Adds, Cleans, InsertSteps
<1>4. CASE At(s, "backfillRead") \/ At(s, "unfollowCleanup")
  BY <1>4 DEF At, Serves, Adding, Cleaning, Adds, Cleans, InsertSteps, SlotsOf, PostsOf
<1>5. CASE ~ At(s, "fanOutRead") /\ ~ At(s, "postCleanup") /\ ~ At(s, "fanOutInsert")
           /\ ~ At(s, "backfillInsert") /\ ~ At(s, "backfillRead") /\ ~ At(s, "unfollowCleanup")
  BY <1>5 DEF At, Serves, Adding, Cleaning, Adds, Cleans, InsertSteps
<1>6. QED
  BY <1>1, <1>2, <1>3, <1>4, <1>5

-----------------------------------------------------------------------------
(* What a step must show of the chain it moves, s: the other chains keep     *)
(* what they have.                                                           *)

LEMMA Moved ==
    ASSUME Typed, NEW s \in Slots
    PROVE  \A task : Become(s, task) /\ Fits(task) =>
              /\ tasks' \in [Slots -> Tasks] /\ tasks'[s] = task
              /\ \A t \in Slots \ {s} : tasks'[t] = tasks[t]
              /\ \A t \in Slots : Fits(tasks'[t])
<1>1. tasks \in [Slots -> Tasks] /\ \A t \in Slots : Fits(tasks[t])
  BY DEF Typed, TypeOK, Tasks, Steps
<1>2. SUFFICES ASSUME NEW task, Become(s, task), Fits(task)
               PROVE  /\ tasks' \in [Slots -> Tasks] /\ tasks'[s] = task
                      /\ \A t \in Slots \ {s} : tasks'[t] = tasks[t]
                      /\ \A t \in Slots : Fits(tasks'[t])
  OBVIOUS
<1>3. task \in Tasks
  BY <1>2 DEF Fits
<1>4. tasks' = [tasks EXCEPT ![s] = task]
  BY <1>2 DEF Become
<1>5. /\ tasks' \in [Slots -> Tasks] /\ tasks'[s] = task
      /\ \A t \in Slots \ {s} : tasks'[t] = tasks[t]
  BY <1>1, <1>3, <1>4
<1>6. QED
  BY <1>1, <1>2, <1>5

LEMMA CompleteKeeps ==
    ASSUME Complete, NEW s \in Slots,
           \A t \in Slots \ {s} : tasks'[t] = tasks[t],
           \A o \in Users, p \in Posts : Owed(o, p)' =>
              \/ Adding(tasks'[s], o, p)
              \/ <<o, p>> \in items'
              \/ /\ Owed(o, p) /\ <<o, p>> \notin items
                 /\ Adding(tasks[s], o, p) => Adding(tasks'[s], o, p)
    PROVE  Complete'
<1>1. SUFFICES ASSUME NEW o \in Users, NEW p \in Posts, Owed(o, p)'
               PROVE  <<o, p>> \in items' \/ \E t \in Slots : Adding(tasks'[t], o, p)
  BY DEF Complete
<1>2. CASE Owed(o, p) /\ <<o, p>> \notin items /\ ~ Adding(tasks'[s], o, p) /\ ~ Adding(tasks[s], o, p)
  <2>1. PICK t \in Slots : Adding(tasks[t], o, p)
    BY <1>2 DEF Complete
  <2>2. tasks'[t] = tasks[t]
    BY <1>2, <2>1
  <2>3. QED
    BY <2>1, <2>2
<1>3. QED
  BY <1>1, <1>2

LEMMA SoundKeeps ==
    ASSUME Sound, NEW s \in Slots,
           \A t \in Slots \ {s} : tasks'[t] = tasks[t],
           \A o \in Users, p \in Posts : <<o, p>> \in items' \ (late' \cup lost') =>
              \/ Due(o, p)'
              \/ Cleaning(tasks'[s], o, p)
              \/ /\ <<o, p>> \in items \ (late \cup lost) /\ ~ Due(o, p)
                 /\ Cleaning(tasks[s], o, p) => Cleaning(tasks'[s], o, p)
    PROVE  Sound'
<1>1. SUFFICES ASSUME NEW o \in Users, NEW p \in Posts, <<o, p>> \in items' \ (late' \cup lost')
               PROVE  Due(o, p)' \/ \E t \in Slots : Cleaning(tasks'[t], o, p)
  BY DEF Sound
<1>2. CASE /\ <<o, p>> \in items \ (late \cup lost) /\ ~ Due(o, p)
           /\ ~ Cleaning(tasks'[s], o, p) /\ ~ Cleaning(tasks[s], o, p)
  <2>1. PICK t \in Slots : Cleaning(tasks[t], o, p)
    BY <1>2 DEF Sound
  <2>2. tasks'[t] = tasks[t]
    BY <1>2, <2>1
  <2>3. QED
    BY <2>1, <2>2
<1>3. QED
  BY <1>1, <1>2

LEMMA OrderedKeeps ==
    ASSUME Ordered, NEW s \in Slots, removed \subseteq removed',
           \A t \in Slots \ {s} : tasks'[t] = tasks[t],
           \A o \in Users, p \in Posts : Cleaning(tasks'[s], o, p) => <<o, p>> \in removed'
    PROVE  Ordered'
<1>1. SUFFICES ASSUME NEW t \in Slots, NEW o \in Users, NEW p \in Posts, Cleaning(tasks'[t], o, p)
               PROVE  <<o, p>> \in removed'
  BY DEF Ordered
<1>2. CASE t # s
  BY <1>1, <1>2 DEF Ordered
<1>3. QED
  BY <1>1, <1>2

(* A step that leaves the states of the posts and their dates alone          *)
LEMMA StampedKeeps ==
    ASSUME Stamped, NEW s \in Slots, UNCHANGED <<state, createdAt>>,
           \A t \in Slots \ {s} : tasks'[t] = tasks[t],
           tasks'[s].step # "creating",
           tasks'[s].step = "deleting" => state[tasks'[s].post] \notin {"none", "stamped"}
    PROVE  Stamped'
<1>1. \A t \in Slots : At(t, "creating")' => At(t, "creating") /\ t # s
  BY DEF At
<1>2. \A t \in Slots : At(t, "creating")' =>
          /\ state'[tasks'[t].post] = "stamped"
          /\ \A r \in Slots \ {t} : At(r, "creating")' => tasks'[r].post # tasks'[t].post
  BY <1>1 DEF Stamped
<1>3. \A t \in Slots : At(t, "deleting")' => state'[tasks'[t].post] \notin {"none", "stamped"}
  BY DEF Stamped, At
<1>4. \A p \in Posts : state'[p] = "none" => createdAt'[p] = 0
  BY DEF Stamped
<1>5. QED
  BY <1>2, <1>3, <1>4 DEF Stamped

(* The number of the author's posts dated later, and whether it is enough    *)
LEMMA ClockType == ASSUME Typed PROVE Clock \in Nat
<1>1. IsFiniteSet({p \in Posts : createdAt[p] # 0})
  BY PostsAssumption, FS_Subset
<1>2. QED
  BY <1>1, FS_CardinalityType DEF Clock

LEMMA FewerNewer ==
    ASSUME NEW S, IsFiniteSet(S), NEW T \in SUBSET S, NEW n \in Nat, Cardinality(S) < n
    PROVE  Cardinality(T) < n
<1>1. IsFiniteSet(T) /\ Cardinality(T) <= Cardinality(S)
  BY FS_Subset
<1>2. Cardinality(T) \in Nat /\ Cardinality(S) \in Nat
  BY <1>1, FS_CardinalityType
<1>3. QED
  BY <1>1, <1>2

(* A backfill reads every visible post that is among the newest              *)
LEMMA NewestRead ==
    ASSUME NEW p \in Posts, state[p] = "live", Newest(p)
    PROVE  p \in Recent(Author[p], BackfillLimit)
<1> DEFINE shown == {q \in PostsOf(Author[p]) : state[q] = "live"}
           S == {q \in PostsOf(Author[p]) : createdAt[q] > createdAt[p]}
           T == {q \in shown : createdAt[q] > createdAt[p]}
<1>1. T \in SUBSET S
  OBVIOUS
<1>2. IsFiniteSet(S)
  <2>1. S \in SUBSET Posts
    BY DEF PostsOf
  <2>2. QED
    BY <2>1, PostsAssumption, FS_Subset
<1>3. Cardinality(S) < BackfillLimit
  BY DEF Newest
<1>4. BackfillLimit \in Nat
  BY LimitsAssumption
<1> HIDE DEF S
<1>5. Cardinality(T) < BackfillLimit
  <2> HIDE DEF T
  <2>1. QED
    BY <1>1, <1>2, <1>3, <1>4, FewerNewer
<1>6. p \in shown
  BY DEF PostsOf
<1>7. QED
  BY <1>5, <1>6 DEF Recent

(* Dating a post that had no date takes no post among the newest            *)
LEMMA NewestShrinks ==
    ASSUME createdAt \in [Posts -> Nat], NEW p \in Posts, NEW q \in Posts, q # p,
           NEW date \in Nat, createdAt' = [createdAt EXCEPT ![q] = date],
           createdAt[q] = 0, Newest(p)'
    PROVE  Newest(p)
<1> DEFINE S == {r \in PostsOf(Author[p]) : createdAt'[r] > createdAt'[p]}
           T == {r \in PostsOf(Author[p]) : createdAt[r] > createdAt[p]}
<1>1. PostsOf(Author[p]) \subseteq Posts
  BY DEF PostsOf
<1>2. T \in SUBSET S
  <2>1. ASSUME NEW r \in PostsOf(Author[p]), createdAt[r] > createdAt[p] PROVE createdAt'[r] > createdAt'[p]
    <3>1. r # q
      BY <1>1, <2>1
    <3>2. QED
      BY <1>1, <2>1, <3>1
  <2>2. QED
    BY <2>1
<1>3. IsFiniteSet(S)
  <2>1. S \in SUBSET Posts
    BY <1>1
  <2>2. QED
    BY <2>1, PostsAssumption, FS_Subset
<1>4. Cardinality(S) < BackfillLimit
  BY DEF Newest
<1>5. BackfillLimit \in Nat
  BY LimitsAssumption
<1>6. Cardinality(T) < BackfillLimit
  <2> HIDE DEF S, T
  <2>1. QED
    BY <1>2, <1>3, <1>4, <1>5, FewerNewer
<1>7. QED
  BY <1>6 DEF Newest

(* Nothing new is owed while dates stay and no post or follow is added       *)
LEMMA OwedKeeps ==
    ASSUME NEW o \in Users, NEW p \in Posts, UNCHANGED createdAt, Owed(o, p)',
           accounts' \subseteq accounts, <<o, Author[p]>> \in follows' => <<o, Author[p]>> \in follows,
           state'[p] = "live" => state[p] = "live",
           UNCHANGED cutoff, lost \subseteq lost', removed \subseteq removed'
    PROVE  Owed(o, p)
<1>1. Newest(p)' = Newest(p)
  BY DEF Newest
<1>2. QED
  BY <1>1 DEF Owed, Belongs

(* A step that only hands a chain from one step to the next                  *)
LEMMA HandOver ==
    ASSUME IInv, NEW s \in Slots,
           UNCHANGED <<accounts, follows, state, createdAt, cutoff>>,
           visibility' \in [Posts -> Audiences],
           \/ UNCHANGED visibility
           \/ \A o \in Users, p \in Posts : Due(o, p) => Due(o, p)' \/ Cleaning(tasks'[s], o, p),
           items' \in SUBSET FeedSlots, lost' \in SUBSET FeedSlots, removed' \in SUBSET FeedSlots,
           late' \in SUBSET items', lost \subseteq lost', removed \subseteq removed',
           tasks' \in [Slots -> Tasks], Fits(tasks'[s]),
           \A t \in Slots \ {s} : tasks'[t] = tasks[t],
           tasks'[s].step # "creating",
           tasks'[s].step = "deleting" => state[tasks'[s].post] \notin {"none", "stamped"},
           \A o \in Users, p \in Posts : Cleaning(tasks'[s], o, p) => <<o, p>> \in removed',
           \A o \in Users, p \in Posts :
              /\ <<o, p>> \in items =>
                    \/ <<o, p>> \in items'
                    \/ <<o, p>> \in removed
              /\ Adding(tasks[s], o, p) /\ Owed(o, p) =>
                    \/ Adding(tasks'[s], o, p)
                    \/ <<o, p>> \in items' \cup lost'
              /\ <<o, p>> \in items' \ (late' \cup lost') =>
                    \/ Due(o, p)
                    \/ Cleaning(tasks'[s], o, p)
                    \/ /\ <<o, p>> \in items \ (late \cup lost)
                       /\ ~ Cleaning(tasks[s], o, p)
    PROVE  IInv'
<1>1. Typed'
  <2>1. TypeOK'
    BY DEF IInv, Typed, TypeOK, Tasks, Steps
  <2>2. \A t \in Slots : Fits(tasks'[t])
    BY DEF IInv, Typed
  <2>3. QED
    BY <2>1, <2>2 DEF Typed
<1>2. Stamped'
  BY StampedKeeps DEF IInv
<1>3. Ordered'
  BY OrderedKeeps DEF IInv
<1>4. Complete'
  <2>1. ASSUME NEW o \in Users, NEW p \in Posts, Owed(o, p)'
        PROVE  \/ Adding(tasks'[s], o, p)
               \/ <<o, p>> \in items'
               \/ /\ Owed(o, p) /\ <<o, p>> \notin items
                  /\ Adding(tasks[s], o, p) => Adding(tasks'[s], o, p)
    <3>1. Owed(o, p)
      BY <2>1, OwedKeeps
    <3>2. <<o, p>> \notin lost' \cup removed'
      BY <2>1 DEF Owed
    <3>3. QED
      BY <3>1, <3>2
  <2>2. QED
    BY <2>1, CompleteKeeps DEF IInv
<1>5. Sound'
  <2>1. \A o \in Users, p \in Posts : Due(o, p) => Due(o, p)' \/ Cleaning(tasks'[s], o, p)
    BY DEF Due
  <2>2. \A o \in Users, p \in Posts : <<o, p>> \in items' \ (late' \cup lost') =>
              \/ Due(o, p)'
              \/ Cleaning(tasks'[s], o, p)
              \/ /\ <<o, p>> \in items \ (late \cup lost) /\ ~ Due(o, p)
                 /\ Cleaning(tasks[s], o, p) => Cleaning(tasks'[s], o, p)
    BY <2>1
  <2>3. QED
    BY <2>2, SoundKeeps DEF IInv
<1>6. QED
  BY <1>1, <1>2, <1>3, <1>4, <1>5 DEF IInv

(* What a chain at its step is known to hold                                 *)
LEMMA Held ==
    ASSUME IInv, NEW s \in Slots
    PROVE  /\ Fits(tasks[s]) /\ tasks[s] \in Tasks
           /\ tasks[s].step \in PostSteps => tasks[s].post \in Posts
           /\ At(s, "updating") => tasks[s].vis \in Audiences
           /\ tasks[s].step \in PairSteps => tasks[s].owner \in Users /\ tasks[s].author \in Users
           /\ At(s, "backfillRead") => tasks[s].owner # tasks[s].author
BY DEF IInv, Typed, Fits, At

LEMMA Kept ==
    ASSUME IInv
    PROVE  /\ visibility \in [Posts -> Audiences]
           /\ items \in SUBSET FeedSlots /\ lost \in SUBSET FeedSlots /\ removed \in SUBSET FeedSlots
           /\ late \in SUBSET items
BY DEF IInv, Typed, TypeOK

-----------------------------------------------------------------------------
(* The actions.                                                              *)

LEMMA UpdateReadKeeps ==
    ASSUME IInv, NEW s \in Slots, NEW p \in Posts, NEW vis \in Audiences, UpdateRead(s, p, vis)
    PROVE  IInv'
<1> DEFINE row == Task("updating", None, Author[p], p, vis, {})
<1>1. /\ Fits(row) /\ row.step = "updating"
      /\ \A o, q : ~ Adding(row, o, q) /\ ~ Cleaning(row, o, q)
  BY UpdatingRow
<1>2. Become(s, row) /\ Free(s) /\ UNCHANGED <<database, history>>
  BY DEF UpdateRead
<1> HIDE DEF row
<1>3. tasks' \in [Slots -> Tasks] /\ tasks'[s] = row /\ \A t \in Slots \ {s} : tasks'[t] = tasks[t]
  BY <1>1, <1>2, Moved DEF IInv
<1>4. \A o, q : ~ Adding(tasks[s], o, q) /\ ~ Cleaning(tasks[s], o, q)
  BY <1>2, IdleRow DEF Free
<1>5. QED
  BY <1>1, <1>2, <1>3, <1>4, Kept, HandOver DEF database, history

LEMMA DeleteReadKeeps ==
    ASSUME IInv, NEW s \in Slots, NEW p \in Posts, DeleteRead(s, p)
    PROVE  IInv'
<1> DEFINE row == OfPost("deleting", p)
<1>1. /\ Fits(row) /\ row.step = "deleting" /\ row.post = p
      /\ \A o, q : ~ Adding(row, o, q) /\ ~ Cleaning(row, o, q)
  <2>1. "deleting" \in PostSteps \ {"updating"}
    BY DEF PostSteps
  <2>2. QED
    BY <2>1, PostRow
<1>2. Become(s, row) /\ Free(s) /\ state[p] = "live" /\ UNCHANGED <<database, history>>
  BY DEF DeleteRead
<1> HIDE DEF row
<1>3. tasks' \in [Slots -> Tasks] /\ tasks'[s] = row /\ \A t \in Slots \ {s} : tasks'[t] = tasks[t]
  BY <1>1, <1>2, Moved DEF IInv
<1>4. \A o, q : ~ Adding(tasks[s], o, q) /\ ~ Cleaning(tasks[s], o, q)
  BY <1>2, IdleRow DEF Free
<1>5. QED
  BY <1>1, <1>2, <1>3, <1>4, Kept, HandOver DEF database, history

LEMMA UnfollowReadKeeps ==
    ASSUME IInv, NEW s \in Slots, NEW o \in Users, NEW a \in Users, UnfollowRead(s, o, a)
    PROVE  IInv'
<1> DEFINE row == OfPair("unfollowing", o, a)
<1>1. /\ Fits(row) /\ row.step = "unfollowing"
      /\ \A v, q : ~ Adding(row, v, q) /\ ~ Cleaning(row, v, q)
  BY PairRow DEF PairSteps
<1>2. Become(s, row) /\ Free(s) /\ UNCHANGED <<database, history>>
  BY DEF UnfollowRead
<1> HIDE DEF row
<1>3. tasks' \in [Slots -> Tasks] /\ tasks'[s] = row /\ \A t \in Slots \ {s} : tasks'[t] = tasks[t]
  BY <1>1, <1>2, Moved DEF IInv
<1>4. \A v, q : ~ Adding(tasks[s], v, q) /\ ~ Cleaning(tasks[s], v, q)
  BY <1>2, IdleRow DEF Free
<1>5. QED
  BY <1>1, <1>2, <1>3, <1>4, Kept, HandOver DEF database, history

LEMMA UpdateSaveKeeps ==
    ASSUME IInv, NEW s \in Slots, UpdateSave(s)
    PROVE  IInv'
<1> DEFINE p == tasks[s].post
           row == IF state[p] # "gone" /\ tasks[s].vis = "RESTRICTED" THEN OfPost("postCleanup", p) ELSE Idle
<1>1. p \in Posts /\ tasks[s].vis \in Audiences
  BY Held DEF UpdateSave, At, PostSteps
<1>2. \A o, q : ~ Adding(tasks[s], o, q) /\ ~ Cleaning(tasks[s], o, q)
  BY DEF UpdateSave, At, Adding, Cleaning, InsertSteps
<1>3. /\ Fits(row) /\ row.step \in {"idle", "postCleanup"}
      /\ \A o, q : ~ Adding(row, o, q)
      /\ \A o, q : Cleaning(row, o, q) <=> row.step = "postCleanup" /\ q = p
      /\ row.step = "postCleanup" => state[p] # "gone" /\ tasks[s].vis = "RESTRICTED"
  <2>1. CASE state[p] # "gone" /\ tasks[s].vis = "RESTRICTED"
    <3>1. "postCleanup" \in PostSteps \ {"updating"}
      BY DEF PostSteps
    <3>2. row = OfPost("postCleanup", p)
      BY <2>1
    <3> HIDE DEF row
    <3>3. QED
      BY <1>1, <2>1, <3>1, <3>2, PostRow
  <2>2. CASE ~ (state[p] # "gone" /\ tasks[s].vis = "RESTRICTED")
    BY <2>2, IdleRow
  <2>3. QED
    BY <2>1, <2>2
<1>4. Become(s, row)
  BY DEF UpdateSave
<1>5. UNCHANGED <<accounts, follows, state, createdAt, items, cutoff, lost, late>>
  BY DEF UpdateSave
<1>6. removed \subseteq removed' /\ removed' \in SUBSET FeedSlots
  BY <1>1, Kept DEF UpdateSave, FeedSlots
<1>7. visibility' \in [Posts -> Audiences]
  BY <1>1, Kept DEF UpdateSave
<1>8. row.step = "postCleanup" => \A o \in Users : <<o, p>> \in removed'
  BY <1>1, <1>3 DEF UpdateSave
<1>9. ASSUME NEW o \in Users, NEW q \in Posts, Due(o, q) PROVE Due(o, q)' \/ Cleaning(row, o, q)
  <2>1. CASE row.step = "postCleanup" /\ q = p
    BY <1>3, <2>1
  <2>2. CASE q # p
    BY <1>5, <1>7, <1>9, <2>2, Kept DEF UpdateSave, Due
  <2>3. CASE row.step # "postCleanup" /\ q = p
    <3>1. state[p] = "live"
      BY <1>9, <2>3 DEF Due
    <3>2. row = IF tasks[s].vis = "RESTRICTED" THEN OfPost("postCleanup", p) ELSE Idle
      BY <3>1
    <3>3. tasks[s].vis # "RESTRICTED"
      BY <2>3, <3>2 DEF OfPost, Task
    <3>4. tasks[s].vis = "PUBLIC"
      BY <1>1, <3>3, AudiencesAssumption
    <3>5. visibility'[p] = "PUBLIC"
      BY <1>1, <3>1, <3>4, Kept DEF UpdateSave
    <3>6. QED
      BY <1>5, <1>9, <2>3, <3>5 DEF Due
  <2>4. QED
    BY <2>1, <2>2, <2>3
<1> HIDE DEF row, p
<1>10. tasks' \in [Slots -> Tasks] /\ tasks'[s] = row /\ \A t \in Slots \ {s} : tasks'[t] = tasks[t]
  BY <1>3, <1>4, Moved DEF IInv
<1>11. QED
  BY <1>2, <1>3, <1>5, <1>6, <1>7, <1>8, <1>9, <1>10, Kept, HandOver

LEMMA FanOutReadKeeps ==
    ASSUME IInv, NEW s \in Slots, FanOutRead(s)
    PROVE  IInv'
<1> DEFINE p == tasks[s].post
           owners == {Author[p]} \cup FollowersOf(Author[p])
           batch == owners \X {p}
           row == [tasks[s] EXCEPT !.step = "fanOutInsert", !.batch = batch]
<1>1. p \in Posts /\ At(s, "fanOutRead") /\ tasks[s] \in Tasks
  BY Held DEF FanOutRead, At, PostSteps
<1>2. batch \in SUBSET FeedSlots
  BY <1>1, AuthorAssumption DEF FollowersOf, FeedSlots
<1>3. /\ \A o, q : Adding(tasks[s], o, q) => q = p
      /\ \A o, q : ~ Cleaning(tasks[s], o, q)
  BY <1>1 DEF At, Adding, Cleaning, InsertSteps
<1>4. \A o \in Users : Owed(o, p) => <<o, p>> \in batch
  BY DEF Owed, Belongs, FollowersOf
<1>5. Become(s, row) /\ UNCHANGED <<database, history>>
  BY DEF FanOutRead
<1>6. /\ Fits(row) /\ row.step = "fanOutInsert"
      /\ \A o, q : Adding(row, o, q) <=> <<o, q>> \in batch
      /\ \A o, q : ~ Cleaning(row, o, q)
  <2> HIDE DEF batch
  <2>1. row \in Tasks /\ row.step = "fanOutInsert" /\ row.batch = batch
    BY <1>1, <1>2 DEF Tasks, Steps, HandlerSteps
  <2> HIDE DEF row
  <2>2. QED
    BY <2>1, InsertRow DEF InsertSteps
<1> HIDE DEF row, batch, owners, p
<1>7. tasks' \in [Slots -> Tasks] /\ tasks'[s] = row /\ \A t \in Slots \ {s} : tasks'[t] = tasks[t]
  BY <1>5, <1>6, Moved DEF IInv
<1>8. QED
  BY <1>3, <1>4, <1>5, <1>6, <1>7, Kept, HandOver DEF database, history

LEMMA BackfillReadKeeps ==
    ASSUME IInv, NEW s \in Slots, BackfillRead(s)
    PROVE  IInv'
<1> DEFINE o == tasks[s].owner
           a == tasks[s].author
           batch == {o} \X Recent(a, BackfillLimit)
           row == IF batch = {} THEN Idle
                  ELSE [tasks[s] EXCEPT !.step = "backfillInsert", !.batch = batch]
<1>1. o \in Users /\ a \in Users /\ o # a /\ At(s, "backfillRead") /\ tasks[s] \in Tasks
  BY Held DEF BackfillRead, At, PairSteps
<1>2. batch \in SUBSET FeedSlots
  BY <1>1 DEF Recent, PostsOf, FeedSlots
<1>3. /\ \A v, q : Adding(tasks[s], v, q) => v = o /\ Author[q] = a
      /\ \A v, q : ~ Cleaning(tasks[s], v, q)
  BY <1>1 DEF At, Adding, Cleaning, InsertSteps
<1>4. ASSUME NEW q \in Posts, Author[q] = a, Owed(o, q) PROVE <<o, q>> \in batch
  <2>1. state[q] = "live" /\ Newest(q)
    BY <1>1, <1>4 DEF Owed, Belongs
  <2>2. q \in Recent(a, BackfillLimit)
    BY <1>4, <2>1, NewestRead
  <2>3. QED
    BY <2>2
<1>5. Become(s, row) /\ UNCHANGED <<database, history>>
  BY DEF BackfillRead
<1>6. /\ Fits(row) /\ row.step \in {"idle", "backfillInsert"}
      /\ \A v, q : Adding(row, v, q) <=> <<v, q>> \in batch
      /\ \A v, q : ~ Cleaning(row, v, q)
  <2> HIDE DEF batch
  <2>1. CASE batch = {}
    BY <2>1, IdleRow
  <2>2. CASE batch # {}
    <3>1. row \in Tasks /\ row.step = "backfillInsert" /\ row.batch = batch
      BY <1>1, <1>2, <2>2 DEF Tasks, Steps, HandlerSteps
    <3> HIDE DEF row
    <3>2. QED
      BY <3>1, InsertRow DEF InsertSteps
  <2>3. QED
    BY <2>1, <2>2
<1> HIDE DEF row, batch, o, a
<1>7. tasks' \in [Slots -> Tasks] /\ tasks'[s] = row /\ \A t \in Slots \ {s} : tasks'[t] = tasks[t]
  BY <1>5, <1>6, Moved DEF IInv
<1>8. QED
  BY <1>3, <1>4, <1>5, <1>6, <1>7, Kept, HandOver DEF database, history

LEMMA UnfollowCleanupKeeps ==
    ASSUME IInv, NEW s \in Slots, UnfollowCleanup(s)
    PROVE  IInv'
<1> DEFINE gone == SlotsOf(tasks[s].owner, tasks[s].author)
<1>1. At(s, "unfollowCleanup")
  BY DEF UnfollowCleanup
<1>2. \A o \in Users, p \in Posts : Cleaning(tasks[s], o, p) <=> <<o, p>> \in gone
  BY <1>1 DEF At, Cleaning, SlotsOf, PostsOf
<1>3. \A o, p : ~ Adding(tasks[s], o, p)
  BY <1>1 DEF At, Adding, InsertSteps
<1>4. items' = items \ gone /\ late' = late \ gone /\ Become(s, Idle)
      /\ UNCHANGED <<accounts, follows, state, visibility, createdAt, cutoff, lost, removed>>
  BY DEF UnfollowCleanup, DeleteItems
<1> HIDE DEF gone
<1>5. tasks' \in [Slots -> Tasks] /\ tasks'[s] = Idle /\ \A t \in Slots \ {s} : tasks'[t] = tasks[t]
  BY <1>4, IdleRow, Moved DEF IInv
<1>6. \A o \in Users, p \in Posts : <<o, p>> \in gone => <<o, p>> \in removed
  BY <1>2 DEF IInv, Ordered
<1>7. items' \in SUBSET FeedSlots /\ late' \in SUBSET items'
  BY <1>4, Kept
<1>8. QED
  BY <1>2, <1>3, <1>4, <1>5, <1>6, <1>7, IdleRow, Kept, HandOver

LEMMA PostCleanupKeeps ==
    ASSUME IInv, NEW s \in Slots, PostCleanup(s)
    PROVE  IInv'
<1> DEFINE gone == Users \X {tasks[s].post}
<1>1. At(s, "postCleanup")
  BY DEF PostCleanup
<1>2. \A o \in Users, p \in Posts : Cleaning(tasks[s], o, p) <=> <<o, p>> \in gone
  BY <1>1 DEF At, Cleaning
<1>3. \A o, p : ~ Adding(tasks[s], o, p)
  BY <1>1 DEF At, Adding, InsertSteps
<1>4. items' = items \ gone /\ late' = late \ gone /\ Become(s, Idle)
      /\ UNCHANGED <<accounts, follows, state, visibility, createdAt, cutoff, lost, removed>>
  BY DEF PostCleanup, DeleteItems
<1> HIDE DEF gone
<1>5. tasks' \in [Slots -> Tasks] /\ tasks'[s] = Idle /\ \A t \in Slots \ {s} : tasks'[t] = tasks[t]
  BY <1>4, IdleRow, Moved DEF IInv
<1>6. \A o \in Users, p \in Posts : <<o, p>> \in gone => <<o, p>> \in removed
  BY <1>2 DEF IInv, Ordered
<1>7. items' \in SUBSET FeedSlots /\ late' \in SUBSET items'
  BY <1>4, Kept
<1>8. QED
  BY <1>2, <1>3, <1>4, <1>5, <1>6, <1>7, IdleRow, Kept, HandOver

LEMMA HandlerDiesKeeps ==
    ASSUME IInv, NEW s \in Slots, HandlerDies(s)
    PROVE  IInv'
<1>1. Become(s, Idle) /\ lost' = lost \cup Serves(s) /\ UNCHANGED <<database, removed, late>>
  BY DEF HandlerDies
<1>2. tasks' \in [Slots -> Tasks] /\ tasks'[s] = Idle /\ \A t \in Slots \ {s} : tasks'[t] = tasks[t]
  BY <1>1, IdleRow, Moved DEF IInv
<1>3. Serves(s) \in SUBSET FeedSlots
  <2>1. tasks[s].step \in {"fanOutRead", "postCleanup"} => tasks[s].post \in Posts
    BY Held DEF PostSteps
  <2>2. tasks[s].step \in {"backfillRead", "unfollowCleanup"} => tasks[s].owner \in Users
    BY Held DEF PairSteps
  <2>3. tasks[s].batch \in SUBSET FeedSlots
    BY Held DEF Tasks
  <2>4. CASE At(s, "fanOutRead") \/ At(s, "postCleanup")
    BY <2>1, <2>4 DEF At, Serves, FeedSlots
  <2>5. CASE At(s, "fanOutInsert") \/ At(s, "backfillInsert")
    BY <2>3, <2>5 DEF At, Serves
  <2>6. CASE At(s, "backfillRead") \/ At(s, "unfollowCleanup")
    BY <2>2, <2>6 DEF At, Serves, SlotsOf, PostsOf, FeedSlots
  <2>7. QED
    BY <2>4, <2>5, <2>6 DEF HandlerDies, HandlerSteps, At
<1>4. lost' \in SUBSET FeedSlots /\ lost \subseteq lost'
  BY <1>1, <1>3, Kept
<1>5. \A o \in Users, p \in Posts :
         Adding(tasks[s], o, p) \/ Cleaning(tasks[s], o, p) => <<o, p>> \in lost'
  BY <1>1, ServesForm
<1>6. QED
  BY <1>1, <1>2, <1>4, <1>5, IdleRow, Kept, HandOver DEF database

LEMMA InsertChunkKeeps ==
    ASSUME IInv, NEW s \in Slots, InsertChunk(s)
    PROVE  IInv'
<1> DEFINE batch == tasks[s].batch
<1>1. tasks[s].step \in InsertSteps /\ batch \in SUBSET FeedSlots /\ tasks[s] \in Tasks
  <2>1. tasks[s] \in Tasks
    BY Held
  <2>2. QED
    BY <2>1 DEF InsertChunk, InsertSteps, Tasks
<1>2. /\ \A o, p : Adding(tasks[s], o, p) <=> <<o, p>> \in batch
      /\ \A o, p : ~ Cleaning(tasks[s], o, p)
  BY <1>1 DEF Adding, Cleaning, InsertSteps
<1>3. UNCHANGED <<accounts, follows, state, visibility, createdAt, cutoff, removed>>
  BY DEF InsertChunk
<1>4. PICK chunk \in Chunks(s) :
         IF \A i \in chunk : Referenced(i)
           THEN /\ items' = items \cup chunk
                /\ late' = late \cup {i \in chunk \ items : ~ Due(i[1], i[2])}
                /\ IF chunk = tasks[s].batch
                     THEN Become(s, Idle)
                     ELSE Become(s, [tasks[s] EXCEPT !.batch = @ \ chunk])
                /\ UNCHANGED lost
           ELSE /\ lost' = lost \cup tasks[s].batch
                /\ Become(s, Idle)
                /\ UNCHANGED <<items, late>>
  BY DEF InsertChunk
<1>5. chunk \subseteq batch
  BY DEF Chunks, kSubset
<1>6. CASE \A i \in chunk : Referenced(i)
  <2> DEFINE row == IF chunk = batch THEN Idle
                    ELSE [tasks[s] EXCEPT !.batch = batch \ chunk]
  <2>3. Become(s, row)
    BY <1>4, <1>6
  <2>4. /\ Fits(row) /\ row.step \in {"idle", "fanOutInsert", "backfillInsert"}
        /\ \A o, p : Adding(row, o, p) <=> <<o, p>> \in batch \ chunk
        /\ \A o, p : ~ Cleaning(row, o, p)
    <3>1. CASE chunk = batch
      BY <3>1, IdleRow
    <3>2. CASE chunk # batch
      <4>1. batch \ chunk \in SUBSET FeedSlots
        BY <1>1
      <4>2. row = [tasks[s] EXCEPT !.batch = batch \ chunk]
        BY <3>2
      <4> HIDE DEF row, batch
      <4>3. row \in Tasks /\ row.step = tasks[s].step /\ row.batch = batch \ chunk
        BY <1>1, <4>1, <4>2 DEF Tasks
      <4>4. Fits(row) /\ \A o, p : (Adding(row, o, p) <=> <<o, p>> \in row.batch) /\ ~ Cleaning(row, o, p)
        BY <1>1, <4>3, InsertRow
      <4>5. QED
        BY <1>1, <4>3, <4>4 DEF InsertSteps
    <3>3. QED
      BY <3>1, <3>2
  <2> HIDE DEF row
  <2>5. tasks' \in [Slots -> Tasks] /\ tasks'[s] = row /\ \A t \in Slots \ {s} : tasks'[t] = tasks[t]
    BY <2>3, <2>4, Moved DEF IInv
  <2>6. /\ items' = items \cup chunk /\ UNCHANGED lost
        /\ late' = late \cup {i \in chunk \ items : ~ Due(i[1], i[2])}
    BY <1>4, <1>6
  <2>7. items' \in SUBSET FeedSlots /\ late' \in SUBSET items' /\ late \subseteq late'
    BY <1>1, <1>5, <2>6, Kept
  <2>8. \A o \in Users, p \in Posts : <<o, p>> \in items' \ late' => Due(o, p) \/ <<o, p>> \in items \ late
    <3>1. ASSUME NEW o \in Users, NEW p \in Posts, <<o, p>> \in items' \ late', <<o, p>> \notin items
          PROVE  Due(o, p)
      BY <2>6, <3>1
    <3>2. QED
      BY <2>7, <3>1
  <2> HIDE DEF batch
  <2>9. QED
    BY <1>2, <1>3, <1>5, <2>4, <2>5, <2>6, <2>7, <2>8, Kept, HandOver
<1>7. CASE ~ (\A i \in chunk : Referenced(i))
  <2>1. lost' = lost \cup batch /\ Become(s, Idle) /\ UNCHANGED <<items, late>>
    BY <1>4, <1>7
  <2>2. tasks' \in [Slots -> Tasks] /\ tasks'[s] = Idle /\ \A t \in Slots \ {s} : tasks'[t] = tasks[t]
    BY <2>1, IdleRow, Moved DEF IInv
  <2>3. lost' \in SUBSET FeedSlots /\ lost \subseteq lost'
    BY <1>1, <2>1, Kept
  <2> HIDE DEF batch
  <2>4. QED
    BY <1>2, <1>3, <2>1, <2>2, <2>3, IdleRow, Kept, HandOver
<1>8. QED
  BY <1>6, <1>7

(* Types after a step of one chain                                           *)
LEMMA TypedMoves ==
    ASSUME IInv, NEW s \in Slots, tasks' \in [Slots -> Tasks], Fits(tasks'[s]),
           \A t \in Slots \ {s} : tasks'[t] = tasks[t],
           accounts' \in SUBSET Users, follows' \in SUBSET (Users \X Users),
           state' \in [Posts -> {"none", "stamped", "live", "deleted", "gone"}],
           visibility' \in [Posts -> Audiences], createdAt' \in [Posts -> Nat], removed' \in SUBSET FeedSlots,
           UNCHANGED <<items, cutoff, lost, late>>
    PROVE  Typed'
<1>1. TypeOK'
  BY Kept DEF IInv, Typed, TypeOK, Tasks, Steps
<1>2. \A t \in Slots : Fits(tasks'[t])
  BY DEF IInv, Typed
<1>3. QED
  BY <1>1, <1>2 DEF Typed

LEMMA Rows ==
    ASSUME IInv
    PROVE  /\ accounts \in SUBSET Users /\ follows \in SUBSET (Users \X Users)
           /\ state \in [Posts -> {"none", "stamped", "live", "deleted", "gone"}]
           /\ createdAt \in [Posts -> Nat] /\ cutoff \in Nat
BY DEF IInv, Typed, TypeOK

LEMMA BeginCreateKeeps ==
    ASSUME IInv, NEW s \in Slots, NEW p \in Posts, NEW vis \in Audiences, BeginCreate(s, p, vis)
    PROVE  IInv'
<1> DEFINE row == OfPost("creating", p)
<1>1. /\ Fits(row) /\ row.step = "creating" /\ row.post = p
      /\ \A o, q : ~ Adding(row, o, q) /\ ~ Cleaning(row, o, q)
  <2>1. "creating" \in PostSteps \ {"updating"}
    BY DEF PostSteps
  <2>2. QED
    BY <2>1, PostRow
<1>2. /\ Become(s, row) /\ Free(s) /\ state[p] = "none"
      /\ state' = [state EXCEPT ![p] = "stamped"]
      /\ visibility' = [visibility EXCEPT ![p] = vis]
      /\ createdAt' = [createdAt EXCEPT ![p] = Clock + 1]
      /\ UNCHANGED <<accounts, follows, items, cutoff, lost, removed, late>>
  BY DEF BeginCreate, history
<1> HIDE DEF row
<1>3. tasks' \in [Slots -> Tasks] /\ tasks'[s] = row /\ \A t \in Slots \ {s} : tasks'[t] = tasks[t]
  BY <1>1, <1>2, Moved DEF IInv
<1>4. \A o, q : ~ Adding(tasks[s], o, q) /\ ~ Cleaning(tasks[s], o, q)
  BY <1>2, IdleRow DEF Free
<1>5. PICK date \in Nat : date = Clock + 1
  BY ClockType DEF IInv
<1>6. /\ state' \in [Posts -> {"none", "stamped", "live", "deleted", "gone"}]
      /\ createdAt' \in [Posts -> Nat] /\ visibility' \in [Posts -> Audiences]
      /\ state'[p] = "stamped" /\ \A q \in Posts \ {p} : state'[q] = state[q] /\ createdAt'[q] = createdAt[q]
      /\ createdAt[p] = 0
  <2>1. createdAt[p] = 0
    BY <1>2 DEF IInv, Stamped
  <2>2. QED
    BY <1>2, <1>5, <2>1, Rows, Kept
<1>7. Typed'
  BY <1>1, <1>2, <1>3, <1>6, Rows, Kept, TypedMoves
<1>8. Stamped'
  <2>1. \A t \in Slots : At(t, "creating")' => t = s \/ (At(t, "creating") /\ tasks'[t] = tasks[t])
    BY <1>3 DEF At
  <2>2. ASSUME NEW t \in Slots \ {s}, At(t, "creating")
        PROVE  state'[tasks[t].post] = "stamped" /\ tasks[t].post # p
    <3>1. state[tasks[t].post] = "stamped" /\ tasks[t].post \in Posts
      BY <2>2, Held DEF IInv, Stamped, At, PostSteps
    <3>2. QED
      BY <1>2, <1>6, <3>1
  <2>3. \A t \in Slots : At(t, "creating")' =>
          /\ state'[tasks'[t].post] = "stamped"
          /\ \A r \in Slots \ {t} : At(r, "creating")' => tasks'[r].post # tasks'[t].post
    BY <1>1, <1>3, <1>6, <2>1, <2>2 DEF IInv, Stamped
  <2>4. ASSUME NEW t \in Slots, At(t, "deleting")' PROVE state'[tasks'[t].post] \notin {"none", "stamped"}
    <3>1. t # s
      BY <1>1, <1>3, <2>4 DEF At
    <3>2. At(t, "deleting") /\ tasks'[t] = tasks[t]
      BY <1>3, <2>4, <3>1 DEF At
    <3>3. state[tasks[t].post] \notin {"none", "stamped"} /\ tasks[t].post \in Posts
      BY <3>2, Held DEF IInv, Stamped, At, PostSteps
    <3>4. QED
      BY <1>2, <1>6, <3>2, <3>3
  <2>5. \A q \in Posts : state'[q] = "none" => createdAt'[q] = 0
    BY <1>6 DEF IInv, Stamped
  <2>6. QED
    BY <2>3, <2>4, <2>5 DEF Stamped
<1>9. Ordered'
  BY <1>1, <1>2, <1>3, OrderedKeeps DEF IInv
<1>10. Complete'
  <2>1. ASSUME NEW o \in Users, NEW q \in Posts, Owed(o, q)' PROVE Owed(o, q)
    <3>1. q # p /\ state[q] = "live"
      BY <1>6, <2>1 DEF Owed, Belongs
    <3>2. Newest(q)' => Newest(q)
      BY <1>2, <1>5, <1>6, <3>1, Rows, NewestShrinks
    <3>3. createdAt'[q] = createdAt[q] /\ Belongs(o, q) /\ createdAt'[q] > cutoff'
      BY <1>2, <1>6, <2>1, <3>1 DEF Owed, Belongs
    <3>4. QED
      BY <1>2, <2>1, <3>2, <3>3 DEF Owed
  <2>2. QED
    BY <1>2, <1>3, <1>4, <2>1, CompleteKeeps DEF IInv
<1>11. Sound'
  <2>1. ASSUME NEW o \in Users, NEW q \in Posts, Due(o, q) PROVE Due(o, q)'
    <3>1. state[q] = "live" /\ q # p
      BY <1>2, <2>1 DEF Due
    <3>2. visibility'[q] = visibility[q] /\ state'[q] = state[q]
      BY <1>2, <1>6, <3>1, Kept
    <3>3. QED
      BY <1>2, <2>1, <3>2 DEF Due
  <2>2. \A o \in Users, q \in Posts : <<o, q>> \in items' \ (late' \cup lost') =>
              \/ Due(o, q)'
              \/ Cleaning(tasks'[s], o, q)
              \/ /\ <<o, q>> \in items \ (late \cup lost) /\ ~ Due(o, q)
                 /\ Cleaning(tasks[s], o, q) => Cleaning(tasks'[s], o, q)
    BY <1>2, <1>4, <2>1
  <2>3. QED
    BY <1>3, <2>2, SoundKeeps DEF IInv
<1>12. QED
  BY <1>7, <1>8, <1>9, <1>10, <1>11 DEF IInv

LEMMA CommitCreateKeeps ==
    ASSUME IInv, NEW s \in Slots, CommitCreate(s)
    PROVE  IInv'
<1>1. PICK p \in Posts : p = tasks[s].post /\ At(s, "creating") /\ state[p] = "stamped"
  BY Held DEF CommitCreate, IInv, Stamped, At, PostSteps
<1> DEFINE row == IF Author[p] \in accounts THEN OfPost("fanOutRead", p) ELSE Idle
           next == IF Author[p] \in accounts THEN "live" ELSE "gone"
<1>2. /\ Fits(row) /\ row.step \in {"idle", "fanOutRead"}
      /\ next = "live" => \A o : Adding(row, o, p)
      /\ \A o, q : ~ Cleaning(row, o, q)
  <2>1. CASE Author[p] \in accounts
    <3>1. "fanOutRead" \in PostSteps \ {"updating"}
      BY DEF PostSteps
    <3>2. row = OfPost("fanOutRead", p)
      BY <2>1
    <3> HIDE DEF row
    <3>3. QED
      BY <3>1, <3>2, PostRow
  <2>2. CASE Author[p] \notin accounts
    BY <2>2, IdleRow
  <2>3. QED
    BY <2>1, <2>2
<1>3. /\ Become(s, row) /\ state' = [state EXCEPT ![p] = next]
      /\ UNCHANGED <<accounts, follows, visibility, createdAt, items, cutoff, lost, removed, late>>
  BY <1>1 DEF CommitCreate, history
<1>4. next \in {"live", "gone"}
  OBVIOUS
<1>5. \A o, q : ~ Adding(tasks[s], o, q) /\ ~ Cleaning(tasks[s], o, q)
  BY <1>1 DEF At, Adding, Cleaning, InsertSteps
<1> HIDE DEF row, next
<1>6. tasks' \in [Slots -> Tasks] /\ tasks'[s] = row /\ \A t \in Slots \ {s} : tasks'[t] = tasks[t]
  BY <1>2, <1>3, Moved DEF IInv
<1>7. /\ state' \in [Posts -> {"none", "stamped", "live", "deleted", "gone"}]
      /\ state'[p] = next /\ \A q \in Posts \ {p} : state'[q] = state[q]
  BY <1>3, <1>4, Rows
<1>8. Typed'
  BY <1>2, <1>3, <1>6, <1>7, Rows, Kept, TypedMoves
<1>9. Stamped'
  <2>1. \A t \in Slots : At(t, "creating")' => t # s /\ At(t, "creating") /\ tasks'[t] = tasks[t]
    BY <1>2, <1>6 DEF At
  <2>2. ASSUME NEW t \in Slots \ {s}, At(t, "creating") PROVE state'[tasks[t].post] = "stamped"
    <3>1. state[tasks[t].post] = "stamped" /\ tasks[t].post \in Posts
      BY <2>2, Held DEF IInv, Stamped, At, PostSteps
    <3>2. tasks[t].post # p
      BY <1>1, <2>2 DEF IInv, Stamped
    <3>3. QED
      BY <1>7, <3>1, <3>2
  <2>3. \A t \in Slots : At(t, "creating")' =>
          /\ state'[tasks'[t].post] = "stamped"
          /\ \A r \in Slots \ {t} : At(r, "creating")' => tasks'[r].post # tasks'[t].post
    BY <2>1, <2>2 DEF IInv, Stamped
  <2>4. ASSUME NEW t \in Slots, At(t, "deleting")' PROVE state'[tasks'[t].post] \notin {"none", "stamped"}
    <3>1. t # s
      BY <1>2, <1>6, <2>4 DEF At
    <3>2. At(t, "deleting") /\ tasks'[t] = tasks[t]
      BY <1>6, <2>4, <3>1 DEF At
    <3>3. state[tasks[t].post] \notin {"none", "stamped"} /\ tasks[t].post \in Posts
      BY <3>2, Held DEF IInv, Stamped, At, PostSteps
    <3>4. QED
      BY <1>4, <1>7, <3>2, <3>3
  <2>5. \A q \in Posts : state'[q] = "none" => createdAt'[q] = 0
    BY <1>3, <1>4, <1>7 DEF IInv, Stamped
  <2>6. QED
    BY <2>3, <2>4, <2>5 DEF Stamped
<1>10. Ordered'
  BY <1>2, <1>3, <1>6, OrderedKeeps DEF IInv
<1>11. Complete'
  <2>1. ASSUME NEW o \in Users, NEW q \in Posts, Owed(o, q)', q # p PROVE Owed(o, q)
    BY <1>3, <1>7, <2>1, OwedKeeps
  <2>2. ASSUME NEW o \in Users, Owed(o, p)' PROVE Adding(tasks'[s], o, p)
    <3>1. next = "live"
      BY <1>7, <2>2 DEF Owed, Belongs
    <3>2. QED
      BY <1>2, <1>6, <3>1
  <2>3. \A o \in Users, q \in Posts : Owed(o, q)' =>
              \/ Adding(tasks'[s], o, q)
              \/ <<o, q>> \in items'
              \/ /\ Owed(o, q) /\ <<o, q>> \notin items
                 /\ Adding(tasks[s], o, q) => Adding(tasks'[s], o, q)
    BY <1>3, <1>5, <2>1, <2>2
  <2>4. QED
    BY <1>6, <2>3, CompleteKeeps DEF IInv
<1>12. Sound'
  <2>1. ASSUME NEW o \in Users, NEW q \in Posts, Due(o, q) PROVE Due(o, q)'
    BY <1>1, <1>3, <1>7, <2>1 DEF Due
  <2>2. \A o \in Users, q \in Posts : <<o, q>> \in items' \ (late' \cup lost') =>
              \/ Due(o, q)'
              \/ Cleaning(tasks'[s], o, q)
              \/ /\ <<o, q>> \in items \ (late \cup lost) /\ ~ Due(o, q)
                 /\ Cleaning(tasks[s], o, q) => Cleaning(tasks'[s], o, q)
    BY <1>3, <1>5, <2>1
  <2>3. QED
    BY <1>6, <2>2, SoundKeeps DEF IInv
<1>13. QED
  BY <1>8, <1>9, <1>10, <1>11, <1>12 DEF IInv

LEMMA SoftDeleteKeeps ==
    ASSUME IInv, NEW s \in Slots, SoftDelete(s)
    PROVE  IInv'
<1>1. PICK p \in Posts : p = tasks[s].post /\ At(s, "deleting") /\ state[p] \notin {"none", "stamped"}
  BY Held DEF SoftDelete, IInv, Stamped, At, PostSteps
<1> DEFINE row == OfPost("postCleanup", p)
<1>2. /\ Fits(row) /\ row.step = "postCleanup"
      /\ \A o, q : ~ Adding(row, o, q)
      /\ \A o, q : Cleaning(row, o, q) <=> q = p
  <2>1. "postCleanup" \in PostSteps \ {"updating"}
    BY DEF PostSteps
  <2>2. QED
    BY <2>1, PostRow
<1>3. /\ Become(s, row) /\ state' = [state EXCEPT ![p] = IF @ = "gone" THEN "gone" ELSE "deleted"]
      /\ removed' = removed \cup (Users \X {p})
      /\ UNCHANGED <<accounts, follows, visibility, createdAt, items, cutoff, lost, late>>
  BY <1>1 DEF SoftDelete
<1>4. \A o, q : ~ Adding(tasks[s], o, q) /\ ~ Cleaning(tasks[s], o, q)
  BY <1>1 DEF At, Adding, Cleaning, InsertSteps
<1> HIDE DEF row
<1>5. tasks' \in [Slots -> Tasks] /\ tasks'[s] = row /\ \A t \in Slots \ {s} : tasks'[t] = tasks[t]
  BY <1>2, <1>3, Moved DEF IInv
<1>6. /\ state' \in [Posts -> {"none", "stamped", "live", "deleted", "gone"}]
      /\ state'[p] \in {"gone", "deleted"} /\ \A q \in Posts \ {p} : state'[q] = state[q]
  BY <1>3, Rows
<1>7. removed \subseteq removed' /\ removed' \in SUBSET FeedSlots /\ \A o \in Users : <<o, p>> \in removed'
  BY <1>3, Kept DEF FeedSlots
<1>8. Typed'
  BY <1>2, <1>3, <1>5, <1>6, <1>7, Rows, Kept, TypedMoves
<1>9. Stamped'
  <2>1. \A t \in Slots : At(t, "creating")' => t # s /\ At(t, "creating") /\ tasks'[t] = tasks[t]
    BY <1>2, <1>5 DEF At
  <2>2. ASSUME NEW t \in Slots \ {s}, At(t, "creating") PROVE state'[tasks[t].post] = "stamped"
    <3>1. state[tasks[t].post] = "stamped" /\ tasks[t].post \in Posts
      BY <2>2, Held DEF IInv, Stamped, At, PostSteps
    <3>2. QED
      BY <1>1, <1>6, <3>1
  <2>3. \A t \in Slots : At(t, "creating")' =>
          /\ state'[tasks'[t].post] = "stamped"
          /\ \A r \in Slots \ {t} : At(r, "creating")' => tasks'[r].post # tasks'[t].post
    BY <2>1, <2>2 DEF IInv, Stamped
  <2>4. ASSUME NEW t \in Slots, At(t, "deleting")' PROVE state'[tasks'[t].post] \notin {"none", "stamped"}
    <3>1. t # s
      BY <1>2, <1>5, <2>4 DEF At
    <3>2. At(t, "deleting") /\ tasks'[t] = tasks[t]
      BY <1>5, <2>4, <3>1 DEF At
    <3>3. state[tasks[t].post] \notin {"none", "stamped"} /\ tasks[t].post \in Posts
      BY <3>2, Held DEF IInv, Stamped, At, PostSteps
    <3>4. QED
      BY <1>6, <3>2, <3>3
  <2>5. \A q \in Posts : state'[q] = "none" => createdAt'[q] = 0
    BY <1>3, <1>6 DEF IInv, Stamped
  <2>6. QED
    BY <2>3, <2>4, <2>5 DEF Stamped
<1>10. Ordered'
  BY <1>2, <1>5, <1>7, OrderedKeeps DEF IInv
<1>11. Complete'
  <2>1. ASSUME NEW o \in Users, NEW q \in Posts, Owed(o, q)' PROVE Owed(o, q)
    <3>1. q # p
      BY <1>6, <2>1 DEF Owed, Belongs
    <3>2. QED
      BY <1>3, <1>6, <1>7, <2>1, <3>1, OwedKeeps
  <2>2. QED
    BY <1>3, <1>4, <1>5, <2>1, CompleteKeeps DEF IInv
<1>12. Sound'
  <2>1. ASSUME NEW o \in Users, NEW q \in Posts, Due(o, q), q # p PROVE Due(o, q)'
    BY <1>3, <1>6, <2>1 DEF Due
  <2>2. \A o \in Users, q \in Posts : <<o, q>> \in items' \ (late' \cup lost') =>
              \/ Due(o, q)'
              \/ Cleaning(tasks'[s], o, q)
              \/ /\ <<o, q>> \in items \ (late \cup lost) /\ ~ Due(o, q)
                 /\ Cleaning(tasks[s], o, q) => Cleaning(tasks'[s], o, q)
    BY <1>2, <1>3, <1>4, <1>5, <2>1
  <2>3. QED
    BY <1>5, <2>2, SoundKeeps DEF IInv
<1>13. QED
  BY <1>8, <1>9, <1>10, <1>11, <1>12 DEF IInv

LEMMA FollowKeeps ==
    ASSUME IInv, NEW s \in Slots, NEW o \in Users, NEW a \in Users, Follow(s, o, a)
    PROVE  IInv'
<1> DEFINE row == OfPair("backfillRead", o, a)
<1>1. /\ Become(s, row) /\ Free(s) /\ o # a /\ follows' = follows \cup {<<o, a>>}
      /\ UNCHANGED <<accounts, state, visibility, createdAt, items, cutoff, lost, removed, late>>
  BY DEF Follow, history
<1>2. /\ Fits(row) /\ row.step = "backfillRead"
      /\ \A v, q : Adding(row, v, q) <=> v = o /\ Author[q] = a
      /\ \A v, q : ~ Cleaning(row, v, q)
  <2>1. "backfillRead" \in PairSteps
    BY DEF PairSteps
  <2>2. QED
    BY <1>1, <2>1, PairRow
<1>3. \A v, q : ~ Adding(tasks[s], v, q) /\ ~ Cleaning(tasks[s], v, q)
  BY <1>1, IdleRow DEF Free
<1> HIDE DEF row
<1>4. tasks' \in [Slots -> Tasks] /\ tasks'[s] = row /\ \A t \in Slots \ {s} : tasks'[t] = tasks[t]
  BY <1>1, <1>2, Moved DEF IInv
<1>5. Typed'
  BY <1>1, <1>2, <1>4, Rows, Kept, TypedMoves
<1>6. Stamped'
  BY <1>1, <1>2, <1>4, StampedKeeps DEF IInv
<1>7. Ordered'
  BY <1>1, <1>2, <1>4, OrderedKeeps DEF IInv
<1>8. Complete'
  <2>1. ASSUME NEW v \in Users, NEW q \in Posts, Owed(v, q)', ~ Adding(row, v, q)
        PROVE  Owed(v, q)
    <3>1. <<v, Author[q]>> \in follows' => <<v, Author[q]>> \in follows
      BY <1>1, <1>2, <2>1
    <3>2. QED
      BY <1>1, <2>1, <3>1, OwedKeeps
  <2>2. \A v \in Users, q \in Posts : Owed(v, q)' =>
              \/ Adding(tasks'[s], v, q)
              \/ <<v, q>> \in items'
              \/ /\ Owed(v, q) /\ <<v, q>> \notin items
                 /\ Adding(tasks[s], v, q) => Adding(tasks'[s], v, q)
    BY <1>1, <1>3, <1>4, <2>1
  <2>3. QED
    BY <1>4, <2>2, CompleteKeeps DEF IInv
<1>9. Sound'
  <2>1. ASSUME NEW v \in Users, NEW q \in Posts, Due(v, q) PROVE Due(v, q)'
    BY <1>1, <2>1 DEF Due
  <2>2. \A v \in Users, q \in Posts : <<v, q>> \in items' \ (late' \cup lost') =>
              \/ Due(v, q)'
              \/ Cleaning(tasks'[s], v, q)
              \/ /\ <<v, q>> \in items \ (late \cup lost) /\ ~ Due(v, q)
                 /\ Cleaning(tasks[s], v, q) => Cleaning(tasks'[s], v, q)
    BY <1>1, <1>3, <2>1
  <2>3. QED
    BY <1>4, <2>2, SoundKeeps DEF IInv
<1>10. QED
  BY <1>5, <1>6, <1>7, <1>8, <1>9 DEF IInv

LEMMA UnfollowCommitKeeps ==
    ASSUME IInv, NEW s \in Slots, UnfollowCommit(s)
    PROVE  IInv'
<1>1. PICK o \in Users, a \in Users : o = tasks[s].owner /\ a = tasks[s].author /\ At(s, "unfollowing")
  BY Held DEF UnfollowCommit, At, PairSteps
<1> DEFINE row == OfPair("unfollowCleanup", o, a)
<1>2. /\ Become(s, row) /\ follows' = follows \ {<<o, a>>}
      /\ removed' = removed \cup SlotsOf(o, a)
      /\ UNCHANGED <<accounts, state, visibility, createdAt, items, cutoff, lost, late>>
  BY <1>1 DEF UnfollowCommit
<1>3. /\ Fits(row) /\ row.step = "unfollowCleanup"
      /\ \A v, q : ~ Adding(row, v, q)
      /\ \A v, q : Cleaning(row, v, q) <=> v = o /\ Author[q] = a
  <2>1. "unfollowCleanup" \in PairSteps
    BY DEF PairSteps
  <2>2. QED
    BY <2>1, PairRow
<1>4. \A v, q : ~ Adding(tasks[s], v, q) /\ ~ Cleaning(tasks[s], v, q)
  BY <1>1 DEF At, Adding, Cleaning, InsertSteps
<1> HIDE DEF row
<1>5. tasks' \in [Slots -> Tasks] /\ tasks'[s] = row /\ \A t \in Slots \ {s} : tasks'[t] = tasks[t]
  BY <1>2, <1>3, Moved DEF IInv
<1>6. /\ removed \subseteq removed' /\ removed' \in SUBSET FeedSlots
      /\ \A q \in Posts : Author[q] = a => <<o, q>> \in removed'
  BY <1>2, Kept DEF SlotsOf, PostsOf, FeedSlots
<1>7. Typed'
  BY <1>2, <1>3, <1>5, <1>6, Rows, Kept, TypedMoves
<1>8. Stamped'
  BY <1>2, <1>3, <1>5, StampedKeeps DEF IInv
<1>9. Ordered'
  BY <1>3, <1>5, <1>6, OrderedKeeps DEF IInv
<1>10. Complete'
  <2>1. ASSUME NEW v \in Users, NEW q \in Posts, Owed(v, q)' PROVE Owed(v, q)
    BY <1>2, <1>6, <2>1, OwedKeeps
  <2>2. QED
    BY <1>2, <1>4, <1>5, <2>1, CompleteKeeps DEF IInv
<1>11. Sound'
  <2>1. ASSUME NEW v \in Users, NEW q \in Posts, Due(v, q), ~ Cleaning(row, v, q) PROVE Due(v, q)'
    <3>1. <<v, Author[q]>> # <<o, a>>
      BY <1>3, <2>1
    <3>2. QED
      BY <1>2, <2>1, <3>1 DEF Due
  <2>2. \A v \in Users, q \in Posts : <<v, q>> \in items' \ (late' \cup lost') =>
              \/ Due(v, q)'
              \/ Cleaning(tasks'[s], v, q)
              \/ /\ <<v, q>> \in items \ (late \cup lost) /\ ~ Due(v, q)
                 /\ Cleaning(tasks[s], v, q) => Cleaning(tasks'[s], v, q)
    BY <1>2, <1>4, <1>5, <2>1
  <2>3. QED
    BY <1>5, <2>2, SoundKeeps DEF IInv
<1>12. QED
  BY <1>7, <1>8, <1>9, <1>10, <1>11 DEF IInv

LEMMA DeleteAccountKeeps ==
    ASSUME IInv, NEW u \in Users, DeleteAccount(u)
    PROVE  IInv'
<1> DEFINE gone == {i \in items : i[1] = u \/ Author[i[2]] = u}
<1>1. /\ accounts' = accounts \ {u}
      /\ follows' = {e \in follows : u \notin {e[1], e[2]}}
      /\ state' = [p \in Posts |-> IF Author[p] = u /\ state[p] \in {"live", "deleted"}
                                     THEN "gone" ELSE state[p]]
      /\ items' = items \ gone /\ late' = late \ gone
      /\ UNCHANGED <<visibility, createdAt, cutoff, tasks, lost, removed>>
  BY DEF DeleteAccount, DeleteItems
<1>2. \A o \in Users, p \in Posts : <<o, p>> \in gone <=> <<o, p>> \in items /\ (o = u \/ Author[p] = u)
  OBVIOUS
<1> HIDE DEF gone
<1>3. /\ state' \in [Posts -> {"none", "stamped", "live", "deleted", "gone"}]
      /\ \A p \in Posts : /\ state'[p] = state[p] \/ (state[p] \in {"live", "deleted"} /\ state'[p] = "gone")
                          /\ Author[p] # u => state'[p] = state[p]
                          /\ Author[p] = u => state'[p] # "live"
  BY <1>1, Rows
<1>4. Typed'
  <2>1. accounts' \in SUBSET Users /\ follows' \in SUBSET (Users \X Users) /\ items' \in SUBSET FeedSlots
        /\ late' \in SUBSET items'
    BY <1>1, Rows, Kept
  <2>2. TypeOK'
    BY <1>1, <1>3, <2>1 DEF IInv, Typed, TypeOK
  <2>3. QED
    BY <1>1, <2>2 DEF IInv, Typed
<1>5. Stamped'
  <2>1. \A t \in Slots : At(t, "creating")' => At(t, "creating") /\ tasks[t].post \in Posts
    BY <1>1, Held DEF At, PostSteps
  <2>2. \A t \in Slots : At(t, "deleting")' => At(t, "deleting") /\ tasks[t].post \in Posts
    BY <1>1, Held DEF At, PostSteps
  <2>3. \A t \in Slots : At(t, "creating")' =>
          /\ state'[tasks'[t].post] = "stamped"
          /\ \A r \in Slots \ {t} : At(r, "creating")' => tasks'[r].post # tasks'[t].post
    BY <1>1, <1>3, <2>1 DEF IInv, Stamped
  <2>4. \A t \in Slots : At(t, "deleting")' => state'[tasks'[t].post] \notin {"none", "stamped"}
    BY <1>1, <1>3, <2>2 DEF IInv, Stamped
  <2>5. \A p \in Posts : state'[p] = "none" => createdAt'[p] = 0
    BY <1>1, <1>3 DEF IInv, Stamped
  <2>6. QED
    BY <2>3, <2>4, <2>5 DEF Stamped
<1>6. Ordered'
  BY <1>1 DEF IInv, Ordered
<1>7. Complete'
  <2>1. SUFFICES ASSUME NEW o \in Users, NEW p \in Posts, Owed(o, p)'
                 PROVE  <<o, p>> \in items' \/ \E s \in Slots : Adding(tasks'[s], o, p)
    BY DEF Complete
  <2>2. o # u /\ Author[p] # u
    BY <1>1, <1>3, <2>1 DEF Owed, Belongs
  <2>3. Owed(o, p)
    BY <1>1, <1>3, <2>1, OwedKeeps
  <2>4. QED
    BY <1>1, <1>2, <2>2, <2>3 DEF IInv, Complete
<1>8. Sound'
  <2>1. SUFFICES ASSUME NEW o \in Users, NEW p \in Posts, <<o, p>> \in items' \ (late' \cup lost')
                 PROVE  Due(o, p)' \/ \E s \in Slots : Cleaning(tasks'[s], o, p)
    BY DEF Sound
  <2>2. <<o, p>> \in items \ (late \cup lost) /\ o # u /\ Author[p] # u
    BY <1>1, <1>2, <2>1
  <2>3. Due(o, p) => Due(o, p)'
    <3>1. <<o, Author[p]>> \in follows => <<o, Author[p]>> \in follows'
      BY <1>1, <2>2
    <3>2. visibility'[p] = visibility[p]
      BY <1>1
    <3>3. QED
      BY <1>3, <2>2, <3>1, <3>2 DEF Due
  <2>4. QED
    BY <1>1, <2>2, <2>3 DEF IInv, Sound
<1>9. QED
  BY <1>4, <1>5, <1>6, <1>7, <1>8 DEF IInv

LEMMA ExpireKeeps ==
    ASSUME IInv, Expire
    PROVE  IInv'
<1> DEFINE gone == {i \in items : createdAt[i[2]] <= cutoff'}
<1>1. /\ cutoff' = cutoff + 1 /\ items' = items \ gone /\ late' = late \ gone
      /\ UNCHANGED <<accounts, follows, state, visibility, createdAt, tasks, lost, removed>>
  BY DEF Expire, DeleteItems
<1>2. \A o \in Users, p \in Posts : <<o, p>> \in gone => createdAt[p] <= cutoff'
  OBVIOUS
<1> HIDE DEF gone
<1>3. cutoff' \in Nat /\ cutoff' > cutoff /\ \A p \in Posts : createdAt[p] \in Nat
  BY <1>1, Rows
<1>4. Typed'
  <2>1. items' \in SUBSET FeedSlots /\ late' \in SUBSET items'
    BY <1>1, Kept
  <2>2. TypeOK'
    BY <1>1, <1>3, <2>1 DEF IInv, Typed, TypeOK
  <2>3. QED
    BY <1>1, <2>2 DEF IInv, Typed
<1>5. Stamped' /\ Ordered'
  BY <1>1 DEF IInv, Stamped, Ordered, At
<1>6. Complete'
  <2>1. SUFFICES ASSUME NEW o \in Users, NEW p \in Posts, Owed(o, p)'
                 PROVE  <<o, p>> \in items' \/ \E s \in Slots : Adding(tasks'[s], o, p)
    BY DEF Complete
  <2>2. createdAt[p] > cutoff' /\ Newest(p)' = Newest(p) /\ Belongs(o, p)' = Belongs(o, p)
    BY <1>1, <2>1 DEF Owed, Belongs, Newest, Due
  <2>3. createdAt[p] > cutoff /\ <<o, p>> \notin gone
    BY <1>2, <1>3, <2>2, Rows
  <2>4. Owed(o, p)
    BY <1>1, <2>1, <2>2, <2>3 DEF Owed
  <2>5. QED
    BY <1>1, <2>3, <2>4 DEF IInv, Complete
<1>7. Sound'
  <2>1. \A o \in Users, p \in Posts : Due(o, p)' = Due(o, p)
    BY <1>1 DEF Due
  <2>2. items' \ (late' \cup lost') \subseteq items \ (late \cup lost)
    BY <1>1
  <2>3. QED
    BY <1>1, <2>1, <2>2 DEF IInv, Sound
<1>8. QED
  BY <1>4, <1>5, <1>6, <1>7 DEF IInv

-----------------------------------------------------------------------------
(* The theorems.                                                             *)

LEMMA InitHolds == Init => IInv
<1> SUFFICES ASSUME Init PROVE IInv
  OBVIOUS
<1>1. Idle \in Tasks /\ \A s \in Slots : tasks[s] = Idle
  BY IdleRow DEF Init, Fits
<1>2. tasks \in [Slots -> Tasks]
  BY <1>1 DEF Init
<1>3. TypeOK
  BY <1>2, AudiencesAssumption DEF Init, TypeOK, Tasks, Steps
<1>4. Typed
  BY <1>1, <1>3, IdleRow DEF Typed
<1>5. Stamped /\ Ordered
  BY <1>1, IdleRow DEF Init, Stamped, Ordered, At
<1>6. Complete /\ Sound
  BY DEF Init, Complete, Sound, Owed, Belongs, Due
<1>7. QED
  BY <1>4, <1>5, <1>6 DEF IInv

LEMMA NextKeeps == IInv /\ [Next]_vars => IInv'
<1> SUFFICES ASSUME IInv, [Next]_vars PROVE IInv'
  OBVIOUS
<1>1. ASSUME NEW s \in Slots, Arrive(s) PROVE IInv'
  <2>1. ASSUME NEW p \in Posts, NEW vis \in Audiences, BeginCreate(s, p, vis) \/ UpdateRead(s, p, vis)
        PROVE  IInv'
    BY <2>1, BeginCreateKeeps, UpdateReadKeeps
  <2>2. ASSUME NEW p \in Posts, DeleteRead(s, p) PROVE IInv'
    BY <2>2, DeleteReadKeeps
  <2>3. ASSUME NEW o \in Users, NEW p \in Posts, Follow(s, o, Author[p]) \/ UnfollowRead(s, o, Author[p])
        PROVE  IInv'
    <3>1. Author[p] \in Users
      BY AuthorAssumption
    <3>2. QED
      BY <2>3, <3>1, FollowKeeps, UnfollowReadKeeps
  <2>4. QED
    BY <1>1, <2>1, <2>2, <2>3 DEF Arrive
<1>2. ASSUME NEW s \in Slots, Continue(s) PROVE IInv'
  BY <1>2, CommitCreateKeeps, UpdateSaveKeeps, SoftDeleteKeeps, UnfollowCommitKeeps, FanOutReadKeeps,
     BackfillReadKeeps, InsertChunkKeeps, UnfollowCleanupKeeps, PostCleanupKeeps DEF Continue
<1>3. ASSUME UNCHANGED vars PROVE IInv'
  <2>1. UNCHANGED <<accounts, follows, state, visibility, createdAt, items, cutoff, tasks, lost, removed, late>>
    BY <1>3 DEF vars, database, history
  <2>2. Typed' /\ Stamped' /\ Ordered'
    BY <2>1 DEF IInv, Typed, TypeOK, Stamped, Ordered, At
  <2>3. Complete' /\ Sound'
    BY <2>1 DEF IInv, Complete, Sound, Owed, Belongs, Newest, Due
  <2>4. QED
    BY <2>2, <2>3 DEF IInv
<1>4. QED
  BY <1>1, <1>2, <1>3, HandlerDiesKeeps, DeleteAccountKeeps, ExpireKeeps DEF Next

LEMMA InvariantHolds == Spec => []IInv
BY InitHolds, NextKeeps, PTL DEF Spec

(* The rows of the projection and the chains of the handlers keep their      *)
(* types, the clock that dates posts and the items inserted late included.   *)
THEOREM TypesCorrect == Spec => []TypeOK
<1>1. IInv => TypeOK
  BY DEF IInv, Typed
<1>2. QED
  BY <1>1, InvariantHolds, PTL

(* Fan-out and backfill read the followers and the posts at different times, *)
(* and a batch goes in chunk by chunk, yet no newest post of an author       *)
(* misses the feed of a follower who never unfollowed once they are through. *)
THEOREM FeedStaysComplete == Spec => []FeedComplete
<1>1. IInv => FeedComplete
  <2> SUFFICES ASSUME IInv, NEW o \in accounts, NEW p \in Posts, Due(o, p),
                      o = Author[p] \/ Newest(p), createdAt[p] > cutoff,
                      <<o, p>> \notin lost \cup removed,
                      \A s \in Slots : Adds(s) => <<o, p>> \notin Serves(s)
               PROVE  <<o, p>> \in items
    BY DEF FeedComplete
  <2>1. o \in Users
    BY Rows
  <2>2. Owed(o, p)
    BY DEF Owed, Belongs, Due
  <2>3. \A s \in Slots : ~ Adding(tasks[s], o, p)
    BY <2>1, ServesForm
  <2>4. QED
    BY <2>1, <2>2, <2>3 DEF IInv, Complete
<1>2. QED
  BY <1>1, InvariantHolds, PTL

(* An item of an author who is no longer followed, or of a post that is      *)
(* deleted or restricted, is there only while its cleanup is in flight, or   *)
(* because a handler died, or inserted it when it was not due.               *)
THEOREM FeedStaysSound == Spec => []FeedSound
<1>1. IInv => FeedSound
  <2> SUFFICES ASSUME IInv, NEW i \in items \ (late \cup lost), ~ Due(i[1], i[2])
               PROVE  \E s \in Slots : Cleans(s) /\ i \in Serves(s)
    BY DEF FeedSound
  <2>1. PICK o \in Users, p \in Posts : i = <<o, p>>
    BY Kept DEF FeedSlots
  <2>2. PICK s \in Slots : Cleaning(tasks[s], o, p)
    BY <2>1 DEF IInv, Sound
  <2>3. QED
    BY <2>1, <2>2, ServesForm
<1>2. QED
  BY <1>1, InvariantHolds, PTL

=============================================================================
