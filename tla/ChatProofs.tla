----------------------------- MODULE ChatProofs -----------------------------
(***************************************************************************)
(* TLAPS proofs about Chat, for any number of messages and of requests in  *)
(* flight.                                                                 *)
(***************************************************************************)
EXTENDS Chat, FiniteSetTheorems, TLAPS

Steps == {"idle", "done", "failed"} \cup SendSteps \cup SeenSteps

Jobs == [user : Participants \cup {None}, message : Messages \cup {None},
         held : 0 .. 3, batch : SUBSET Messages]

(* A message without a row, that has never had one                           *)
Unstored(m) ==
    createdAt[m] = 0 \/ \E r \in Requests : pc[r] = "insert" /\ job[r].message = m

(* What a send knows of its message: its own copy of the status is not ahead *)
(* of the row, which has left SENT when the send reads it again.             *)
SendOK(r) ==
    pc[r] \in SendSteps =>
        /\ job[r].message \in Messages
        /\ createdAt[job[r].message] # 0
        /\ pc[r] # "insert" => job[r].held # 0
        /\ pc[r] # "insert" /\ status[job[r].message] # 0 =>
               job[r].held <= status[job[r].message]
        /\ pc[r] = "refetch" => status[job[r].message] # SENT

SendsDiffer ==
    \A q, r \in Requests :
        pc[q] \in SendSteps /\ pc[r] \in SendSteps /\ job[q].message = job[r].message => q = r

(* What a reader's call knows of its batch: messages of the other that were  *)
(* stored, and once marked are SEEN or gone.                                 *)
BatchOK(r) ==
    /\ pc[r] \in SeenSteps => job[r].user \in Participants
    /\ pc[r] \in {"mark", "conversation"} =>
           \A m \in job[r].batch : Sender[m] # job[r].user /\ ~ Unstored(m)
    /\ pc[r] = "conversation" => \A m \in job[r].batch : status[m] \in {0, SEEN}

JobsOK == \A r \in Requests : SendOK(r) /\ BatchOK(r)

RowsOK ==
    /\ \A m \in Messages : Unstored(m) => status[m] = 0 /\ display[m] = 0
    /\ ~ conversation => \A m \in Messages : status[m] = 0

IInv == TypeOK /\ JobsOK /\ SendsDiffer /\ RowsOK /\ PushesNeverAhead

-----------------------------------------------------------------------------
(* Requests and their steps                                                  *)

LEMMA JobTyped ==
    ASSUME NEW u \in Participants \cup {None}, NEW m \in Messages \cup {None},
           NEW h \in 0 .. 3, NEW b \in SUBSET Messages
    PROVE  /\ Job(u, m, h, b) \in Jobs
           /\ Job(u, m, h, b).user = u
           /\ Job(u, m, h, b).message = m
           /\ Job(u, m, h, b).held = h
           /\ Job(u, m, h, b).batch = b
BY DEF Job, Jobs

LEMMA NoJobTyped == NoJob \in Jobs /\ NoJob.batch = {}
BY JobTyped DEF NoJob

LEMMA ControlTyped == TypeOK <=>
    /\ conversation \in BOOLEAN
    /\ status \in [Messages -> 0 .. 3]
    /\ createdAt \in [Messages -> 0 .. Cardinality(Messages)]
    /\ lastMessageAt \in 0 .. Cardinality(Messages)
    /\ online \in SUBSET Participants
    /\ display \in [Messages -> 0 .. 3]
    /\ pc \in [Requests -> Steps]
    /\ job \in [Requests -> Jobs]
    /\ toldSeen \in SUBSET Messages
    /\ missed \in SUBSET Messages
    /\ crossed \in BOOLEAN
BY DEF TypeOK, Steps, Jobs

(* A step of r moves r and no other request                                  *)
LEMMA AwaitMoves ==
    ASSUME TypeOK, NEW r \in Requests, NEW step \in Steps, NEW args \in Jobs,
           Await(r, step, args)
    PROVE  /\ pc' \in [Requests -> Steps]
           /\ job' \in [Requests -> Jobs]
           /\ pc'[r] = step
           /\ job'[r] = args
           /\ \A q \in Requests \ {r} : pc'[q] = pc[q] /\ job'[q] = job[q]
BY ControlTyped DEF Await

LEMMA GotoMoves ==
    ASSUME TypeOK, NEW r \in Requests, NEW step \in Steps, Goto(r, step)
    PROVE  /\ pc' \in [Requests -> Steps]
           /\ job' \in [Requests -> Jobs]
           /\ pc'[r] = step
           /\ job'[r] = job[r]
           /\ \A q \in Requests \ {r} : pc'[q] = pc[q] /\ job'[q] = job[q]
<1>1. job[r] \in Jobs
  BY ControlTyped
<1> QED
  BY <1>1, AwaitMoves DEF Goto

LEMMA FinishMoves ==
    ASSUME TypeOK, NEW r \in Requests, NEW step \in {"done", "failed"}, Finish(r, step)
    PROVE  /\ pc' \in [Requests -> Steps]
           /\ job' \in [Requests -> Jobs]
           /\ pc'[r] = step
           /\ job'[r] = NoJob
           /\ \A q \in Requests \ {r} : pc'[q] = pc[q] /\ job'[q] = job[q]
<1>1. step \in Steps
  BY DEF Steps
<1> QED
  BY <1>1, NoJobTyped, AwaitMoves DEF Finish

(* sendToUser changes what the senders of its messages were told, to s       *)
LEMMA TellTyped ==
    ASSUME TypeOK, NEW batch \in SUBSET Messages, NEW s \in 0 .. 3, Tell(batch, s)
    PROVE  /\ display' \in [Messages -> 0 .. 3]
           /\ toldSeen' \in SUBSET Messages
           /\ missed' \in SUBSET Messages
           /\ \A m \in Messages : display'[m] = IF m \in batch /\ Sender[m] \in online
                                               THEN s ELSE display[m]
BY ControlTyped DEF Tell

-----------------------------------------------------------------------------
(* Dates                                                                     *)

LEMMA ClockBounds ==
    ASSUME TypeOK
    PROVE  /\ Clock \in Nat /\ Cardinality(Messages) \in Nat
           /\ \A m \in Messages : createdAt[m] = 0 => Clock + 1 \in 1 .. Cardinality(Messages)
<1> DEFINE dated == {m \in Messages : createdAt[m] # 0}
<1>1. IsFiniteSet(dated)
  BY MessagesAssumption, FS_Subset
<1>2. Clock \in Nat
  BY <1>1, FS_CardinalityType DEF Clock
<1>3. ASSUME NEW m \in Messages, createdAt[m] = 0
      PROVE  Clock + 1 \in 1 .. Cardinality(Messages)
  <2>1. IsFiniteSet(dated \cup {m}) /\ Cardinality(dated \cup {m}) = Clock + 1
    BY <1>1, <1>3, FS_AddElement DEF Clock
  <2>2. dated \cup {m} \in SUBSET Messages
    BY <1>3
  <2> HIDE DEF dated
  <2>3. Clock + 1 <= Cardinality(Messages) /\ Cardinality(Messages) \in Nat
    BY <2>1, <2>2, MessagesAssumption, FS_Subset, FS_CardinalityType
  <2> QED
    BY <1>2, <2>3
<1> QED
  BY <1>2, <1>3, MessagesAssumption, FS_CardinalityType

-----------------------------------------------------------------------------
(* Each step keeps the invariant                                             *)

(* A sender may be told of a stored message what its row says, or less       *)
Honest ==
    \A m \in Messages :
        \/ display'[m] = display[m]
        \/ ~ Unstored(m) /\ (status[m] # 0 => display'[m] <= status[m])

(* A step of r that leaves the rows alone, begins no INSERT, and tells no    *)
(* sender more than the rows say                                             *)
LEMMA QuietKeeps ==
    ASSUME IInv, TypeOK', NEW r \in Requests,
           UNCHANGED <<conversation, status, createdAt>>, Honest,
           \A q \in Requests \ {r} : pc'[q] = pc[q] /\ job'[q] = job[q],
           pc'[r] # "insert",
           pc'[r] \in SendSteps => pc[r] \in SendSteps /\ job'[r].message = job[r].message,
           SendOK(r)', BatchOK(r)'
    PROVE  IInv'
<1>1. \A m \in Messages : Unstored(m)' => Unstored(m)
  BY DEF Unstored
<1>2. \A q \in Requests : job[q] \in Jobs
  BY ControlTyped DEF IInv
<1>3. ASSUME NEW q \in Requests \ {r}
      PROVE  SendOK(q)' /\ BatchOK(q)'
  BY <1>1, <1>2 DEF IInv, JobsOK, SendOK, BatchOK, Jobs
<1>4. SendsDiffer'
  BY DEF IInv, SendsDiffer
<1>5. RowsOK'
  BY <1>1 DEF IInv, RowsOK, Honest
<1>6. PushesNeverAhead'
  BY DEF IInv, PushesNeverAhead, Honest
<1> QED
  BY <1>3, <1>4, <1>5, <1>6 DEF IInv, JobsOK

(* ... and that ends the call                                                *)
LEMMA FinishKeeps ==
    ASSUME IInv, NEW r \in Requests, NEW step \in {"done", "failed"}, Finish(r, step),
           UNCHANGED <<rows, online>>, display' \in [Messages -> 0 .. 3], Honest,
           toldSeen' \in SUBSET Messages, missed' \in SUBSET Messages, crossed' \in BOOLEAN
    PROVE  IInv'
<1>1. TypeOK
  BY DEF IInv
<1>2. /\ pc' \in [Requests -> Steps]
      /\ job' \in [Requests -> Jobs]
      /\ pc'[r] = step
      /\ \A q \in Requests \ {r} : pc'[q] = pc[q] /\ job'[q] = job[q]
  BY <1>1, FinishMoves
<1>3. TypeOK'
  BY <1>1, <1>2 DEF TypeOK, rows, Steps, Jobs
<1>4. SendOK(r)' /\ BatchOK(r)' /\ pc'[r] \notin SendSteps /\ pc'[r] # "insert"
  BY <1>2 DEF SendOK, BatchOK, SendSteps, SeenSteps
<1> QED
  BY <1>2, <1>3, <1>4, QuietKeeps DEF rows

(* A message past its INSERT has been stored                                 *)
LEMMA PastInsert ==
    ASSUME IInv, NEW r \in Requests, pc[r] \in SendSteps, pc[r] # "insert"
    PROVE  ~ Unstored(job[r].message)
BY DEF IInv, JobsOK, SendOK, SendsDiffer, Unstored, SendSteps

LEMMA SendMessageKeeps ==
    ASSUME IInv, NEW r \in Requests, NEW m \in Messages, SendMessage(r, m)
    PROVE  IInv'
<1>1. TypeOK
  BY DEF IInv
<1>2. CASE conversation
  <2> DEFINE args == Job(Sender[m], m, 0, {})
  <2>1. args \in Jobs /\ args.message = m /\ args.batch = {}
    BY SenderAssumption, JobTyped
  <2> HIDE DEF args
  <2>2. "insert" \in Steps /\ Await(r, "insert", args)
    BY <1>2 DEF SendMessage, Steps, SendSteps, args
  <2>3. /\ pc' \in [Requests -> Steps]
        /\ job' \in [Requests -> Jobs]
        /\ pc'[r] = "insert"
        /\ job'[r] = args
        /\ \A q \in Requests \ {r} : pc'[q] = pc[q] /\ job'[q] = job[q]
    BY <1>1, <2>1, <2>2, AwaitMoves
  <2>4. /\ pc[r] = "idle" /\ createdAt[m] = 0
        /\ createdAt' = [createdAt EXCEPT ![m] = Clock + 1]
        /\ crossed' \in BOOLEAN
        /\ UNCHANGED <<conversation, status, lastMessageAt, online, display, toldSeen, missed>>
    BY <1>1, <1>2, ControlTyped DEF SendMessage, told
  <2>5. createdAt' \in [Messages -> 0 .. Cardinality(Messages)] /\ createdAt'[m] # 0
    BY <1>1, <2>4, ControlTyped, ClockBounds
  <2>6. TypeOK'
    BY <1>1, <2>3, <2>4, <2>5 DEF TypeOK, Steps, Jobs
  <2>7. \A x \in Messages : Unstored(x)' <=> Unstored(x)
    BY <1>1, <2>1, <2>3, <2>4, <2>5, ControlTyped DEF Unstored
  <2>8. \A q \in Requests : SendOK(q)'
    BY <1>1, <2>1, <2>3, <2>4, <2>5, ControlTyped DEF IInv, JobsOK, SendOK
  <2>9. SendsDiffer'
    BY <1>1, <2>1, <2>3, <2>4, ControlTyped DEF IInv, JobsOK, SendOK, SendsDiffer
  <2>10. \A q \in Requests : BatchOK(q)'
    BY <1>1, <2>1, <2>3, <2>4, <2>7, ControlTyped DEF IInv, JobsOK, BatchOK, SeenSteps, Jobs
  <2> QED
    BY <2>4, <2>6, <2>7, <2>8, <2>9, <2>10 DEF IInv, JobsOK, RowsOK, PushesNeverAhead
<1>3. CASE ~ conversation
  BY <1>1, <1>3, FinishKeeps, ControlTyped DEF SendMessage, rows, told, Honest
<1> QED
  BY <1>2, <1>3

LEMMA InsertKeeps ==
    ASSUME IInv, NEW r \in Requests, Insert(r)
    PROVE  IInv'
<1> DEFINE m == job[r].message
<1>1. TypeOK /\ pc[r] = "insert" /\ m \in Messages /\ createdAt[m] # 0
  BY DEF IInv, JobsOK, SendOK, Insert, SendSteps
<1>2. job[r] \in Jobs
  BY <1>1, ControlTyped
<1>3. CASE conversation
  <2> DEFINE args == Job(job[r].user, m, SENT, {})
  <2>1. args \in Jobs /\ args.message = m /\ args.held = SENT /\ args.batch = {}
    BY <1>1, <1>2, JobTyped DEF Jobs, SENT
  <2>2. "isOnline" \in Steps /\ Await(r, "isOnline", args)
    BY <1>3 DEF Insert, Steps, SendSteps
  <2> HIDE DEF args
  <2>3. /\ pc' \in [Requests -> Steps]
        /\ job' \in [Requests -> Jobs]
        /\ pc'[r] = "isOnline"
        /\ job'[r] = args
        /\ \A q \in Requests \ {r} : pc'[q] = pc[q] /\ job'[q] = job[q]
    BY <1>1, <2>1, <2>2, AwaitMoves
  <2>4. /\ status' = [status EXCEPT ![m] = SENT]
        /\ UNCHANGED <<conversation, createdAt, lastMessageAt, online, display, history>>
    BY <1>3 DEF Insert
  <2> HIDE DEF m
  <2>5. status' \in [Messages -> 0 .. 3] /\ status'[m] = SENT
    BY <1>1, <2>4, ControlTyped DEF SENT
  <2>6. TypeOK'
    BY <1>1, <2>3, <2>4, <2>5 DEF TypeOK, Steps, Jobs, history, told
  <2>7. \A x \in Messages : Unstored(x)' <=> Unstored(x) /\ x # m
    BY <1>1, <2>1, <2>3, <2>4 DEF IInv, SendsDiffer, SendSteps, Unstored, m
  <2>8. \A x \in Messages \ {m} : status'[x] = status[x]
    BY <1>1, <2>4, ControlTyped
  <2>9. \A q \in Requests \ {r} : pc[q] \in SendSteps => job[q].message # m
    BY <1>1 DEF IInv, SendsDiffer, SendSteps, m
  <2>10. \A q \in Requests : SendOK(q)'
    BY <1>1, <2>1, <2>3, <2>4, <2>5, <2>8, <2>9 DEF IInv, JobsOK, SendOK, SENT
  <2>11. SendsDiffer'
    BY <1>1, <2>1, <2>3 DEF IInv, SendsDiffer, SendSteps, m
  <2>12. \A q \in Requests : BatchOK(q)'
    <3>1. Unstored(m)
      BY <1>1 DEF Unstored, m
    <3>2. \A q \in Requests : job[q] \in Jobs
      BY <1>1, ControlTyped
    <3> QED
      BY <2>1, <2>3, <2>7, <2>8, <3>1, <3>2 DEF IInv, JobsOK, BatchOK, SeenSteps, Jobs
  <2>13. RowsOK' /\ PushesNeverAhead'
    <3>1. display[m] = 0
      BY <1>1 DEF IInv, RowsOK, Unstored, m
    <3> QED
      BY <1>3, <2>4, <2>5, <2>7, <2>8, <3>1 DEF IInv, RowsOK, PushesNeverAhead, SENT
  <2> QED
    BY <2>6, <2>10, <2>11, <2>12, <2>13 DEF IInv, JobsOK
<1>4. CASE ~ conversation
  BY <1>1, <1>4, FinishKeeps, ControlTyped DEF Insert, rows, history, told, Honest
<1> QED
  BY <1>3, <1>4

LEMMA IsOnlineKeeps ==
    ASSUME IInv, NEW r \in Requests, IsOnline(r)
    PROVE  IInv'
<1>1. TypeOK /\ pc[r] = "isOnline"
  BY DEF IInv, IsOnline
<1>2. PICK step \in {"deliver", "touch"} : Goto(r, step)
  BY DEF IsOnline
<1>3. step \in Steps
  BY DEF Steps, SendSteps
<1>4. /\ pc' \in [Requests -> Steps]
      /\ job' \in [Requests -> Jobs]
      /\ pc'[r] = step
      /\ job'[r] = job[r]
      /\ \A q \in Requests \ {r} : pc'[q] = pc[q] /\ job'[q] = job[q]
  BY <1>1, <1>2, <1>3, GotoMoves
<1>5. UNCHANGED <<rows, online, display, history>>
  BY DEF IsOnline
<1>6. TypeOK'
  BY <1>1, <1>4, <1>5 DEF TypeOK, rows, history, told, Steps, Jobs
<1>7. SendOK(r)' /\ BatchOK(r)' /\ pc[r] \in SendSteps
  BY <1>1, <1>4, <1>5 DEF IInv, JobsOK, SendOK, BatchOK, SendSteps, SeenSteps, rows
<1> QED
  BY <1>4, <1>5, <1>6, <1>7, QuietKeeps DEF Honest, rows

LEMMA TouchKeeps ==
    ASSUME IInv, NEW r \in Requests, Touch(r)
    PROVE  IInv'
<1>1. TypeOK /\ pc[r] = "touch" /\ pc[r] \in SendSteps
  BY DEF IInv, Touch, SendSteps
<1>2. "push" \in Steps
  BY DEF Steps, SendSteps
<1>3. /\ pc' \in [Requests -> Steps]
      /\ job' \in [Requests -> Jobs]
      /\ pc'[r] = "push"
      /\ job'[r] = job[r]
      /\ \A q \in Requests \ {r} : pc'[q] = pc[q] /\ job'[q] = job[q]
  BY <1>1, <1>2, GotoMoves DEF Touch
<1>4. /\ lastMessageAt' = IF conversation THEN createdAt[job[r].message] ELSE lastMessageAt
      /\ UNCHANGED <<conversation, status, createdAt, online, display, history>>
  BY DEF Touch
<1>5. lastMessageAt' \in 0 .. Cardinality(Messages)
  BY <1>1, <1>4, ControlTyped DEF IInv, JobsOK, SendOK
<1>6. TypeOK'
  BY <1>1, <1>3, <1>4, <1>5 DEF TypeOK, history, told, Steps, Jobs
<1>7. SendOK(r)' /\ BatchOK(r)'
  BY <1>1, <1>3, <1>4 DEF IInv, JobsOK, SendOK, BatchOK, SendSteps, SeenSteps
<1> QED
  BY <1>1, <1>3, <1>4, <1>6, <1>7, QuietKeeps DEF Honest

LEMMA DeliverKeeps ==
    ASSUME IInv, NEW r \in Requests, Deliver(r)
    PROVE  IInv'
<1> DEFINE m == job[r].message
<1>1. TypeOK /\ pc[r] = "deliver" /\ pc[r] \in SendSteps /\ m \in Messages /\ job[r].held \in 0 .. 3
  BY ControlTyped DEF IInv, JobsOK, SendOK, Deliver, SendSteps, Jobs
<1>2. "refetch" \in Steps
  BY DEF Steps, SendSteps
<1>3. /\ pc' \in [Requests -> Steps]
      /\ job' \in [Requests -> Jobs]
      /\ pc'[r] = "refetch"
      /\ job'[r] = job[r]
      /\ \A q \in Requests \ {r} : pc'[q] = pc[q] /\ job'[q] = job[q]
  BY <1>1, <1>2, GotoMoves DEF Deliver
<1>4. /\ status' = [status EXCEPT ![m] = IF @ = SENT THEN DELIVERED ELSE @]
      /\ UNCHANGED <<conversation, createdAt, lastMessageAt, online, display, history>>
  BY DEF Deliver
<1> HIDE DEF m
<1>9. status \in [Messages -> 0 .. 3]
  BY <1>1, ControlTyped
<1>5. /\ status' \in [Messages -> 0 .. 3] /\ status'[m] # SENT
      /\ \A x \in Messages :
           status'[x] = status[x] \/ (x = m /\ status[x] = SENT /\ status'[x] = DELIVERED)
  <2>1. status' = [status EXCEPT ![m] = IF status[m] = SENT THEN DELIVERED ELSE status[m]]
    BY <1>1, <1>4, <1>9
  <2> QED
    BY <1>1, <1>9, <2>1 DEF SENT, DELIVERED
<1>6. TypeOK'
  BY <1>1, <1>3, <1>4, <1>5 DEF TypeOK, Steps, Jobs, history, told
<1>7. \A x \in Messages : Unstored(x)' <=> Unstored(x)
  BY <1>1, <1>3, <1>4 DEF Unstored
<1>8. \A q \in Requests : job[q] \in Jobs
  BY <1>1, ControlTyped
<1>10. ASSUME NEW q \in Requests
       PROVE  SendOK(q)'
  <2>1. SendOK(q) /\ job'[q] = job[q]
    BY <1>3 DEF IInv, JobsOK
  <2>2. CASE q = r
    BY <1>1, <1>3, <1>4, <1>5, <1>8, <1>9, <2>1, <2>2 DEF SendOK, SENT, DELIVERED, Jobs, m
  <2>3. CASE q # r
    BY <1>3, <1>4, <1>5, <1>8, <1>9, <2>1, <2>3 DEF SendOK, SENT, DELIVERED, Jobs
  <2> QED
    BY <2>2, <2>3
<1>11. SendsDiffer'
  BY <1>1, <1>3 DEF IInv, SendsDiffer
<1>12. \A q \in Requests : BatchOK(q)'
  BY <1>1, <1>3, <1>5, <1>7, <1>8 DEF IInv, JobsOK, BatchOK, SeenSteps, Jobs, SENT, SEEN
<1>13. RowsOK' /\ PushesNeverAhead'
  BY <1>1, <1>4, <1>5, <1>7, <1>9, ControlTyped
  DEF IInv, RowsOK, PushesNeverAhead, SENT, DELIVERED
<1> QED
  BY <1>6, <1>10, <1>11, <1>12, <1>13 DEF IInv, JobsOK

LEMMA RefetchKeeps ==
    ASSUME IInv, NEW r \in Requests, Refetch(r)
    PROVE  IInv'
<1> DEFINE m == job[r].message
           found == IF status[m] = 0 THEN job[r].held ELSE status[m]
           args == Job(job[r].user, m, found, {})
<1>1. /\ TypeOK /\ pc[r] = "refetch" /\ pc[r] \in SendSteps
      /\ m \in Messages /\ createdAt[m] # 0
      /\ status[m] \in 0 .. 3 /\ status[m] # SENT
      /\ job[r] \in Jobs /\ job[r].held # 0
  BY ControlTyped DEF IInv, JobsOK, SendOK, Refetch, SendSteps
<1>2. ~ Unstored(m)
  BY <1>1, PastInsert
<1>3. /\ args \in Jobs /\ args.message = m /\ args.held = found
      /\ found # 0 /\ (status[m] # 0 => found <= status[m])
  BY <1>1, JobTyped, SMTT(30) DEF Jobs
<1>4. "touch" \in Steps /\ Await(r, "touch", args)
  BY DEF Refetch, Steps, SendSteps
<1>5. /\ UNCHANGED <<rows, online, crossed>>
      /\ Tell({m}, DELIVERED)
  BY DEF Refetch
<1> HIDE DEF m, found, args
<1>6. /\ pc' \in [Requests -> Steps]
      /\ job' \in [Requests -> Jobs]
      /\ pc'[r] = "touch"
      /\ job'[r] = args
      /\ \A q \in Requests \ {r} : pc'[q] = pc[q] /\ job'[q] = job[q]
  BY <1>1, <1>3, <1>4, AwaitMoves
<1>7. /\ display' \in [Messages -> 0 .. 3]
      /\ toldSeen' \in SUBSET Messages
      /\ missed' \in SUBSET Messages
      /\ \A x \in Messages : display'[x] = IF x \in {m} /\ Sender[x] \in online
                                          THEN DELIVERED ELSE display[x]
  BY <1>1, <1>5, TellTyped DEF DELIVERED
<1>8. Honest
  BY <1>1, <1>2, <1>7 DEF Honest, SENT, DELIVERED
<1>9. TypeOK'
  BY <1>1, <1>5, <1>6, <1>7 DEF TypeOK, rows, Steps, Jobs
<1>10. SendOK(r)' /\ BatchOK(r)'
  BY <1>1, <1>3, <1>5, <1>6 DEF SendOK, BatchOK, SeenSteps, rows
<1> QED
  BY <1>1, <1>3, <1>5, <1>6, <1>8, <1>9, <1>10, QuietKeeps DEF rows, m

LEMMA PushMessageKeeps ==
    ASSUME IInv, NEW r \in Requests, PushMessage(r)
    PROVE  IInv'
<1> DEFINE m == job[r].message
<1>1. /\ TypeOK /\ pc[r] = "push" /\ pc[r] \in SendSteps
      /\ m \in Messages /\ job[r] \in Jobs
      /\ status[m] # 0 => job[r].held <= status[m]
  BY ControlTyped DEF IInv, JobsOK, SendOK, PushMessage, SendSteps
<1>2. ~ Unstored(m)
  BY <1>1, PastInsert
<1>3. Tell({m}, job[r].held) /\ Finish(r, "done") /\ UNCHANGED <<rows, online, crossed>>
  BY DEF PushMessage
<1>4. job[r].held \in 0 .. 3 /\ crossed' \in BOOLEAN
  BY <1>1, <1>3, ControlTyped DEF Jobs
<1> HIDE DEF m
<1>5. /\ display' \in [Messages -> 0 .. 3]
      /\ toldSeen' \in SUBSET Messages
      /\ missed' \in SUBSET Messages
      /\ \A x \in Messages : display'[x] = IF x \in {m} /\ Sender[x] \in online
                                          THEN job[r].held ELSE display[x]
  BY <1>1, <1>3, <1>4, TellTyped
<1>6. Honest
  BY <1>1, <1>2, <1>5 DEF Honest
<1> QED
  BY <1>3, <1>4, <1>5, <1>6, FinishKeeps

LEMMA MarkAsSeenKeeps ==
    ASSUME IInv, NEW r \in Requests, NEW u \in Participants, MarkAsSeen(r, u)
    PROVE  IInv'
<1>1. TypeOK /\ UNCHANGED <<rows, online, display, history>>
  BY DEF IInv, MarkAsSeen
<1>2. Honest
  BY <1>1 DEF Honest
<1>3. CASE conversation
  <2> DEFINE args == Job(u, None, 0, {})
  <2>1. args \in Jobs /\ args.user = u
    BY JobTyped
  <2>2. "find" \in Steps /\ Await(r, "find", args)
    BY <1>3 DEF MarkAsSeen, Steps, SeenSteps
  <2> HIDE DEF args
  <2>3. /\ pc' \in [Requests -> Steps]
        /\ job' \in [Requests -> Jobs]
        /\ pc'[r] = "find"
        /\ job'[r] = args
        /\ \A q \in Requests \ {r} : pc'[q] = pc[q] /\ job'[q] = job[q]
    BY <1>1, <2>1, <2>2, AwaitMoves
  <2>4. TypeOK'
    BY <1>1, <2>3 DEF TypeOK, rows, history, told, Steps, Jobs
  <2>5. SendOK(r)' /\ BatchOK(r)' /\ pc'[r] \notin SendSteps /\ pc'[r] # "insert"
    BY <2>1, <2>3 DEF SendOK, BatchOK, SendSteps
  <2> QED
    BY <1>1, <1>2, <2>3, <2>4, <2>5, QuietKeeps DEF rows
<1>4. CASE ~ conversation
  BY <1>1, <1>2, <1>4, FinishKeeps, ControlTyped DEF MarkAsSeen, history, told
<1> QED
  BY <1>3, <1>4

LEMMA FindUnseenKeeps ==
    ASSUME IInv, NEW r \in Requests, FindUnseen(r)
    PROVE  IInv'
<1> DEFINE u == job[r].user
           unseen == {m \in Messages : Sender[m] # u /\ status[m] \in {SENT, DELIVERED}}
<1>1. TypeOK /\ UNCHANGED <<rows, online, display, history>> /\ u \in Participants
  BY DEF IInv, JobsOK, BatchOK, FindUnseen, SeenSteps
<1>2. Honest
  BY <1>1 DEF Honest
<1>3. CASE unseen # {}
  <2> DEFINE args == Job(u, None, 0, unseen)
  <2>1. args \in Jobs /\ args.user = u /\ args.batch = unseen
    BY <1>1, JobTyped
  <2>2. "mark" \in Steps /\ Await(r, "mark", args)
    BY <1>3 DEF FindUnseen, Steps, SeenSteps
  <2> HIDE DEF args
  <2>3. /\ pc' \in [Requests -> Steps]
        /\ job' \in [Requests -> Jobs]
        /\ pc'[r] = "mark"
        /\ job'[r] = args
        /\ \A q \in Requests \ {r} : pc'[q] = pc[q] /\ job'[q] = job[q]
    BY <1>1, <2>1, <2>2, AwaitMoves
  <2>4. TypeOK'
    BY <1>1, <2>3 DEF TypeOK, rows, history, told, Steps, Jobs
  <2>5. \A m \in unseen : Sender[m] # u /\ ~ Unstored(m)'
    BY <1>1, <2>3 DEF IInv, RowsOK, Unstored, SENT, DELIVERED, rows
  <2>6. SendOK(r)' /\ BatchOK(r)' /\ pc'[r] \notin SendSteps /\ pc'[r] # "insert"
    BY <1>1, <2>1, <2>3, <2>5 DEF SendOK, BatchOK, SendSteps
  <2> QED
    BY <1>1, <1>2, <2>3, <2>4, <2>6, QuietKeeps DEF rows
<1>4. CASE unseen = {}
  BY <1>1, <1>2, <1>4, FinishKeeps, ControlTyped DEF FindUnseen, history, told
<1> QED
  BY <1>3, <1>4

LEMMA MarkSeenKeeps ==
    ASSUME IInv, NEW r \in Requests, MarkSeen(r)
    PROVE  IInv'
<1>1. TypeOK /\ pc[r] = "mark"
  BY DEF IInv, MarkSeen
<1>2. "conversation" \in Steps
  BY DEF Steps, SeenSteps
<1>3. /\ pc' \in [Requests -> Steps]
      /\ job' \in [Requests -> Jobs]
      /\ pc'[r] = "conversation"
      /\ job'[r] = job[r]
      /\ \A q \in Requests \ {r} : pc'[q] = pc[q] /\ job'[q] = job[q]
  BY <1>1, <1>2, GotoMoves DEF MarkSeen
<1>4. /\ status' = [m \in Messages |->
           IF m \in job[r].batch /\ status[m] # 0 THEN SEEN ELSE status[m]]
      /\ UNCHANGED <<conversation, createdAt, lastMessageAt, online, display, history>>
  BY DEF MarkSeen
<1>5. /\ status \in [Messages -> 0 .. 3] /\ status' \in [Messages -> 0 .. 3]
      /\ \A m \in Messages :
           /\ status'[m] = 0 <=> status[m] = 0
           /\ status'[m] = status[m] \/ status'[m] = SEEN
           /\ m \in job[r].batch => status'[m] \in {0, SEEN}
  BY <1>1, <1>4, ControlTyped DEF SEEN
<1>6. TypeOK'
  BY <1>1, <1>3, <1>4, <1>5 DEF TypeOK, Steps, Jobs, history, told
<1>7. \A x \in Messages : Unstored(x)' <=> Unstored(x)
  BY <1>1, <1>3, <1>4 DEF Unstored
<1>8. \A q \in Requests : job[q] \in Jobs
  BY <1>1, ControlTyped
<1>9. ASSUME NEW q \in Requests
      PROVE  SendOK(q)'
  <2>1. CASE q = r
    BY <1>3, <2>1 DEF SendOK, SendSteps
  <2>2. CASE q # r
    <3>1. SendOK(q) /\ pc'[q] = pc[q] /\ job'[q] = job[q]
      BY <1>3, <2>2 DEF IInv, JobsOK
    <3> QED
      BY <1>4, <1>5, <1>8, <3>1 DEF SendOK, Jobs, SENT, SEEN
  <2> QED
    BY <2>1, <2>2
<1>10. SendsDiffer'
  BY <1>3 DEF IInv, SendsDiffer, SendSteps
<1>11. \A q \in Requests : BatchOK(q)'
  BY <1>1, <1>3, <1>5, <1>7, <1>8 DEF IInv, JobsOK, BatchOK, SeenSteps, Jobs
<1>12. RowsOK' /\ PushesNeverAhead'
  BY <1>1, <1>4, <1>5, <1>7, ControlTyped DEF IInv, RowsOK, PushesNeverAhead, SEEN
<1> QED
  BY <1>6, <1>9, <1>10, <1>11, <1>12 DEF IInv, JobsOK

LEMMA PushSeenKeeps ==
    ASSUME IInv, NEW r \in Requests, PushSeen(r)
    PROVE  IInv'
<1>1. /\ TypeOK /\ job[r] \in Jobs
      /\ \A m \in job[r].batch : status[m] \in {0, SEEN} /\ ~ Unstored(m)
  BY ControlTyped DEF IInv, JobsOK, BatchOK, PushSeen
<1>2. /\ Finish(r, "done") /\ UNCHANGED <<rows, online, crossed>>
      /\ Tell(job[r].batch, SEEN) \/ UNCHANGED <<display, told>>
  BY DEF PushSeen
<1>3. crossed' \in BOOLEAN
  BY <1>1, <1>2, ControlTyped
<1>4. CASE Tell(job[r].batch, SEEN)
  <2>1. /\ display' \in [Messages -> 0 .. 3]
        /\ toldSeen' \in SUBSET Messages
        /\ missed' \in SUBSET Messages
        /\ \A m \in Messages : display'[m] = IF m \in job[r].batch /\ Sender[m] \in online
                                            THEN SEEN ELSE display[m]
    BY <1>1, <1>4, TellTyped DEF SEEN, Jobs
  <2>2. Honest
    BY <1>1, <2>1 DEF Honest, SEEN
  <2> QED
    BY <1>2, <1>3, <2>1, <2>2, FinishKeeps
<1>5. CASE UNCHANGED <<display, told>>
  BY <1>1, <1>2, <1>3, <1>5, FinishKeeps, ControlTyped DEF Honest, told
<1> QED
  BY <1>2, <1>4, <1>5

LEMMA CallFailsKeeps ==
    ASSUME IInv, NEW r \in Requests, CallFails(r)
    PROVE  IInv'
<1>1. TypeOK /\ job[r] \in Jobs
  BY ControlTyped DEF IInv
<1>2. /\ Finish(r, "failed") /\ UNCHANGED <<rows, online, display, toldSeen>>
      /\ missed' = missed \cup job[r].batch
      /\ crossed' \in BOOLEAN
  BY <1>1, ControlTyped DEF CallFails
<1>3. missed' \in SUBSET Messages /\ toldSeen' \in SUBSET Messages
  BY <1>1, <1>2, ControlTyped DEF Jobs
<1> QED
  BY <1>1, <1>2, <1>3, FinishKeeps, ControlTyped DEF Honest

LEMMA SocketKeeps ==
    ASSUME IInv, NEW u \in Participants, Connect(u) \/ Disconnect(u)
    PROVE  IInv'
<1>1. UNCHANGED <<rows, display, pc, job, history>>
  BY DEF Connect, Disconnect
<1>2. TypeOK'
  BY <1>1 DEF IInv, TypeOK, Connect, Disconnect, rows, history, told
<1> QED
  BY <1>1, <1>2
  DEF IInv, JobsOK, SendOK, BatchOK, SendsDiffer, RowsOK, PushesNeverAhead, Unstored, rows

LEMMA DropConversationKeeps ==
    ASSUME IInv, DropConversation
    PROVE  IInv'
<1>1. /\ UNCHANGED <<createdAt, online, display, pc, job, history>>
      /\ conversation' = FALSE
      /\ status' = [m \in Messages |-> 0]
      /\ lastMessageAt' = 0
  BY DEF DropConversation
<1>2. TypeOK
  BY DEF IInv
<1>3. Cardinality(Messages) \in Nat
  BY <1>2, ClockBounds
<1>5. status' \in [Messages -> 0 .. 3] /\ lastMessageAt' \in 0 .. Cardinality(Messages)
  BY <1>1, <1>3
<1>6. TypeOK'
  BY <1>1, <1>2, <1>5 DEF TypeOK, history, told
<1>4. \A q \in Requests : job[q] \in Jobs
  BY <1>2, ControlTyped
<1> QED
  BY <1>1, <1>4, <1>6
  DEF IInv, JobsOK, SendOK, BatchOK, SendsDiffer, RowsOK, PushesNeverAhead, Unstored, Jobs, SENT

LEMMA StepKeeps == IInv /\ [Next]_vars => IInv'
<1> SUFFICES ASSUME IInv, [Next]_vars PROVE IInv'
  OBVIOUS
<1>1. ASSUME NEW r \in Requests, Arrive(r) PROVE IInv'
  BY <1>1, SendMessageKeeps, MarkAsSeenKeeps DEF Arrive
<1>2. ASSUME NEW r \in Requests, Continue(r) PROVE IInv'
  BY <1>2, InsertKeeps, IsOnlineKeeps, DeliverKeeps, RefetchKeeps, TouchKeeps, PushMessageKeeps,
     FindUnseenKeeps, MarkSeenKeeps, PushSeenKeeps, CallFailsKeeps DEF Continue
<1>3. ASSUME NEW u \in Participants, Connect(u) \/ Disconnect(u) PROVE IInv'
  BY <1>3, SocketKeeps
<1>4. CASE DropConversation
  BY <1>4, DropConversationKeeps
<1>5. CASE UNCHANGED vars
  BY <1>5 DEF vars, rows, history, told, IInv, TypeOK, JobsOK, SendOK, BatchOK, SendsDiffer,
              RowsOK, PushesNeverAhead, Unstored
<1> QED
  BY <1>1, <1>2, <1>3, <1>4, <1>5 DEF Next

LEMMA InitHolds == Init => IInv
<1> SUFFICES ASSUME Init PROVE IInv
  OBVIOUS
<1>1. Cardinality(Messages) \in Nat
  BY MessagesAssumption, FS_CardinalityType
<1>2. TypeOK
  <2>1. conversation \in BOOLEAN /\ crossed \in BOOLEAN
    BY DEF Init
  <2>2. /\ status \in [Messages -> 0 .. 3]
        /\ createdAt \in [Messages -> 0 .. Cardinality(Messages)]
        /\ lastMessageAt \in 0 .. Cardinality(Messages)
        /\ display \in [Messages -> 0 .. 3]
    BY <1>1 DEF Init
  <2>3. pc \in [Requests -> Steps] /\ job \in [Requests -> Jobs]
    BY NoJobTyped DEF Init, Steps
  <2>4. online \in SUBSET Participants /\ toldSeen \in SUBSET Messages /\ missed \in SUBSET Messages
    BY DEF Init
  <2> QED
    BY <2>1, <2>2, <2>3, <2>4, ControlTyped
<1> QED
  BY <1>2 DEF Init, IInv, JobsOK, SendOK, BatchOK, SendsDiffer, RowsOK, PushesNeverAhead,
              SendSteps, SeenSteps

LEMMA InvariantHolds == Spec => []IInv
BY InitHolds, StepKeeps, PTL DEF Spec

(* Every variable of Chat keeps its type, for any number of messages and of  *)
(* requests; in particular no message is dated past the number of messages.  *)
THEOREM TypesCorrect == Spec => []TypeOK
<1>1. IInv => TypeOK
  BY DEF IInv
<1> QED
  BY <1>1, InvariantHolds, PTL

(* No sender is ever told more of a stored message than its row says,        *)
(* however sends, readers, failures and lost sockets interleave.             *)
THEOREM PushesStayBehind == Spec => []PushesNeverAhead
<1>1. IInv => PushesNeverAhead
  BY DEF IInv
<1> QED
  BY <1>1, InvariantHolds, PTL

-----------------------------------------------------------------------------
(* What the steps of the calls do to the others                              *)

(* A step of r moves r and no other request                                  *)
LEMMA AwaitSets ==
    ASSUME IInv, NEW r \in Requests, NEW step, NEW args, Await(r, step, args)
    PROVE  /\ pc'[r] = step
           /\ job'[r] = args
           /\ \A q \in Requests \ {r} : pc'[q] = pc[q] /\ job'[q] = job[q]
<1>1. pc \in [Requests -> Steps] /\ job \in [Requests -> Jobs]
  BY ControlTyped DEF IInv
<1> QED
  BY <1>1 DEF Await

-----------------------------------------------------------------------------
(* The sender of a seen message                                              *)

(* SenderToldOfSeen speaks of messages that no call holds.  Inductive is     *)
(* that every seen message that its sender has not been told of is held by a *)
(* call that is about to tell.                                               *)
ToldOrHeld ==
    \A m \in Messages : status[m] = SEEN =>
        \/ m \in toldSeen \cup missed
        \/ \E r \in Requests : pc[r] = "conversation" /\ m \in job[r].batch

(* A step that makes no message SEEN and takes none from a call about to tell *)
LEMMA HeldStays ==
    ASSUME ToldOrHeld,
           \A m \in Messages : status'[m] = SEEN => status[m] = SEEN,
           toldSeen \subseteq toldSeen', missed \subseteq missed',
           \A q \in Requests : pc[q] = "conversation" => pc'[q] = pc[q] /\ job'[q] = job[q]
    PROVE  ToldOrHeld'
BY DEF ToldOrHeld

LEMMA TellAdds ==
    ASSUME NEW batch, NEW s, Tell(batch, s)
    PROVE  /\ toldSeen \subseteq toldSeen' /\ missed \subseteq missed'
           /\ s = SEEN => batch \subseteq toldSeen' \cup missed'
BY DEF Tell

LEMMA ToldOrHeldKept ==
    ASSUME IInv, ToldOrHeld, [Next]_vars
    PROVE  ToldOrHeld'
<1>0. status \in [Messages -> 0 .. 3]
  BY ControlTyped DEF IInv
<1>1. ASSUME NEW r \in Requests, NEW m \in Messages, SendMessage(r, m) PROVE ToldOrHeld'
  BY <1>1, HeldStays, AwaitSets DEF SendMessage, Finish, told
<1>2. ASSUME NEW r \in Requests, Insert(r) PROVE ToldOrHeld'
  BY <1>0, <1>2, HeldStays, AwaitSets DEF Insert, Finish, history, told, SENT, SEEN
<1>3. ASSUME NEW r \in Requests, IsOnline(r) PROVE ToldOrHeld'
  BY <1>3, HeldStays, AwaitSets DEF IsOnline, Goto, rows, history, told
<1>4. ASSUME NEW r \in Requests, Deliver(r) PROVE ToldOrHeld'
  BY <1>0, <1>4, HeldStays, AwaitSets DEF Deliver, Goto, history, told, DELIVERED, SEEN
<1>5. ASSUME NEW r \in Requests, Refetch(r) PROVE ToldOrHeld'
  BY <1>5, HeldStays, AwaitSets, TellAdds DEF Refetch, rows
<1>6. ASSUME NEW r \in Requests, Touch(r) PROVE ToldOrHeld'
  BY <1>6, HeldStays, AwaitSets DEF Touch, Goto, history, told
<1>7. ASSUME NEW r \in Requests, PushMessage(r) PROVE ToldOrHeld'
  BY <1>7, HeldStays, AwaitSets, TellAdds DEF PushMessage, Finish, rows
<1>8. ASSUME NEW r \in Requests, NEW u \in Participants, MarkAsSeen(r, u) PROVE ToldOrHeld'
  BY <1>8, HeldStays, AwaitSets DEF MarkAsSeen, Finish, rows, history, told
<1>9. ASSUME NEW r \in Requests, FindUnseen(r) PROVE ToldOrHeld'
  BY <1>9, HeldStays, AwaitSets DEF FindUnseen, Finish, rows, history, told
<1>10. ASSUME NEW r \in Requests, MarkSeen(r) PROVE ToldOrHeld'
  <2>1. /\ pc[r] = "mark" /\ pc'[r] = "conversation" /\ job'[r] = job[r]
        /\ \A q \in Requests \ {r} : pc'[q] = pc[q] /\ job'[q] = job[q]
        /\ UNCHANGED <<toldSeen, missed>>
    BY <1>10, AwaitSets DEF MarkSeen, Goto, history, told
  <2>2. \A m \in Messages : status'[m] = status[m] \/ m \in job[r].batch
    BY <1>10 DEF MarkSeen
  <2> QED
    BY <2>1, <2>2 DEF ToldOrHeld
<1>11. ASSUME NEW r \in Requests, PushSeen(r) PROVE ToldOrHeld'
  <2>1. /\ pc[r] = "conversation"
        /\ \A q \in Requests \ {r} : pc'[q] = pc[q] /\ job'[q] = job[q]
        /\ UNCHANGED <<conversation, status>>
    BY <1>11, AwaitSets DEF PushSeen, Finish, rows
  <2>2. CASE conversation
    BY <1>11, <2>1, <2>2, TellAdds DEF PushSeen, ToldOrHeld
  <2>3. CASE ~ conversation
    BY <1>11, <2>1, <2>3 DEF IInv, RowsOK, ToldOrHeld, SEEN
  <2> QED
    BY <2>2, <2>3
<1>12. ASSUME NEW r \in Requests, CallFails(r) PROVE ToldOrHeld'
  <2>1. /\ \A q \in Requests \ {r} : pc'[q] = pc[q] /\ job'[q] = job[q]
        /\ UNCHANGED <<status, toldSeen>> /\ missed' = missed \cup job[r].batch
    BY <1>12, AwaitSets DEF CallFails, Finish, rows
  <2> QED
    BY <2>1 DEF ToldOrHeld
<1>13. ASSUME NEW u \in Participants, Connect(u) \/ Disconnect(u) PROVE ToldOrHeld'
  BY <1>13, HeldStays DEF Connect, Disconnect, rows, history, told
<1>14. CASE DropConversation
  BY <1>14, HeldStays DEF DropConversation, SEEN, history, told
<1>15. CASE UNCHANGED vars
  BY <1>15, HeldStays DEF vars, rows, history, told
<1> QED
  BY <1>1, <1>2, <1>3, <1>4, <1>5, <1>6, <1>7, <1>8, <1>9, <1>10, <1>11, <1>12, <1>13, <1>14,
     <1>15 DEF Next, Arrive, Continue

(* The sender of a message that was seen has been pushed SEEN once no call   *)
(* about it is in flight, unless it was offline or a call failed.            *)
THEOREM SendersAreTold == Spec => []SenderToldOfSeen
<1>1. Init => ToldOrHeld
  BY DEF Init, ToldOrHeld, SEEN
<1>2. ToldOrHeld => SenderToldOfSeen
  BY DEF ToldOrHeld, SenderToldOfSeen
<1> QED
  BY <1>1, <1>2, ToldOrHeldKept, InvariantHolds, PTL DEF Spec

-----------------------------------------------------------------------------
(* The date of the conversation                                              *)

IsNewest(t) ==
    /\ \A m \in Messages : status[m] # 0 => createdAt[m] <= t
    /\ t # 0 => \E m \in Messages : status[m] # 0 /\ createdAt[m] = t

DatesOK == \A m \in Messages : createdAt[m] <= Clock

(* LastMessageIsNewest speaks of the time when no send is in flight.         *)
(* Inductive is what holds of the one send that is: its message is younger   *)
(* than every other, has its row once inserted, and dates the conversation   *)
(* before it is pushed.                                                      *)
OneSend ==
    \A q, r \in Requests : pc[q] \in SendSteps /\ pc[r] \in SendSteps => q = r

Youngest(r) ==
    pc[r] \in SendSteps =>
        /\ \A m \in Messages \ {job[r].message} : createdAt[m] < createdAt[job[r].message]
        /\ pc[r] # "insert" => status[job[r].message] # 0
        /\ pc[r] = "push" => lastMessageAt = createdAt[job[r].message]

NoneSent == \A r \in Requests : pc[r] \in SendSteps => pc[r] = "insert"

NewestOK ==
    conversation /\ ~ crossed =>
        OneSend /\ (\A r \in Requests : Youngest(r)) /\ (NoneSent => IsNewest(lastMessageAt))

LEMMA NewestIsMax ==
    ASSUME TypeOK, IsNewest(lastMessageAt)
    PROVE  lastMessageAt = Max({0} \cup {createdAt[m] : m \in {x \in Messages : status[x] # 0}})
<1> DEFINE dates == {0} \cup {createdAt[m] : m \in {x \in Messages : status[x] # 0}}
<1>0. Cardinality(Messages) \in Nat
  BY ClockBounds
<1>1. lastMessageAt \in Nat /\ \A m \in Messages : createdAt[m] \in Nat
  BY <1>0, ControlTyped
<1>2. lastMessageAt \in dates /\ \A d \in dates : d \in Nat /\ lastMessageAt >= d
  BY <1>1 DEF IsNewest
<1> HIDE DEF dates
<1>3. Max(dates) \in dates /\ \A d \in dates : Max(dates) >= d
  BY <1>2 DEF Max
<1>4. Max(dates) \in Nat /\ lastMessageAt >= Max(dates) /\ Max(dates) >= lastMessageAt
  BY <1>2, <1>3
<1>5. lastMessageAt = Max(dates)
  BY <1>1, <1>4
<1> QED
  BY <1>5 DEF dates

(* The message that is dated next is the youngest                            *)
LEMMA DateNext ==
    ASSUME TypeOK, DatesOK, NEW m \in Messages, createdAt[m] = 0,
           createdAt' = [createdAt EXCEPT ![m] = Clock + 1]
    PROVE  /\ DatesOK'
           /\ \A x \in Messages \ {m} : createdAt'[x] = createdAt[x] /\ createdAt'[x] < createdAt'[m]
<1> DEFINE dated == {x \in Messages : createdAt[x] # 0}
<1>1. IsFiniteSet(dated)
  BY MessagesAssumption, FS_Subset
<1>2. Clock \in Nat /\ Cardinality(Messages) \in Nat
  BY ClockBounds
<1>3. createdAt \in [Messages -> Nat]
  BY <1>2, ControlTyped
<1>4. {x \in Messages : createdAt'[x] # 0} = dated \cup {m}
  BY <1>2, <1>3
<1>5. m \notin dated /\ Cardinality(dated \cup {m}) = Clock + 1
  BY <1>1, FS_AddElement DEF Clock
<1>6. Clock' = Clock + 1
  BY <1>4, <1>5 DEF Clock
<1>7. /\ \A x \in Messages \ {m} : createdAt'[x] = createdAt[x]
      /\ createdAt'[m] = Clock + 1
  BY <1>3
<1> QED
  BY <1>2, <1>3, <1>6, <1>7 DEF DatesOK

LEMMA DatesKept ==
    ASSUME IInv, DatesOK, [Next]_vars
    PROVE  DatesOK'
<1>1. createdAt' = createdAt \/ \E r \in Requests, m \in Messages :
        createdAt[m] = 0 /\ createdAt' = [createdAt EXCEPT ![m] = Clock + 1]
  BY DEF Next, Arrive, Continue, SendMessage, Insert, IsOnline, Deliver, Refetch, Touch,
         PushMessage, MarkAsSeen, FindUnseen, MarkSeen, PushSeen, CallFails, Connect, Disconnect,
         DropConversation, vars, rows
<1> QED
  BY <1>1, DateNext DEF IInv, DatesOK, Clock

(* A step that no send takes, and that stores no message                     *)
LEMMA NewestStays ==
    ASSUME IInv, NewestOK, crossed => crossed', conversation' => conversation,
           UNCHANGED <<createdAt, lastMessageAt>>,
           \A m \in Messages : status'[m] = 0 <=> status[m] = 0,
           \A q \in Requests :
              \/ pc[q] \notin SendSteps /\ pc'[q] \notin SendSteps
              \/ pc'[q] = pc[q] /\ job'[q] = job[q]
    PROVE  NewestOK'
<1> SUFFICES ASSUME conversation', ~ crossed'
             PROVE  NewestOK'
  BY DEF NewestOK
<1>1. conversation /\ ~ crossed
  OBVIOUS
<1>2. IsNewest(lastMessageAt) => IsNewest(lastMessageAt)'
  BY DEF IsNewest
<1>3. OneSend => OneSend'
  BY DEF OneSend
<1>4. \A r \in Requests : Youngest(r) => Youngest(r)'
  <2>1. \A r \in Requests : pc[r] \in SendSteps => job[r].message \in Messages
    BY DEF IInv, JobsOK, SendOK
  <2> QED
    BY <2>1 DEF Youngest
<1>5. NoneSent' => NoneSent
  BY DEF NoneSent
<1> QED
  BY <1>1, <1>2, <1>3, <1>4, <1>5 DEF NewestOK

(* A send goes on with its stored message, before it dates the conversation  *)
LEMMA NewestGoesOn ==
    ASSUME IInv, NewestOK, NEW r \in Requests,
           UNCHANGED <<conversation, crossed, createdAt>>,
           \A m \in Messages : status'[m] = 0 <=> status[m] = 0,
           pc[r] \in SendSteps, pc[r] # "insert",
           pc'[r] \in SendSteps, pc'[r] # "insert",
           pc'[r] = "push" => lastMessageAt' = createdAt[job[r].message],
           job'[r].message = job[r].message,
           \A q \in Requests \ {r} : pc'[q] = pc[q] /\ job'[q] = job[q]
    PROVE  NewestOK'
<1>1. job[r].message \in Messages
  BY DEF IInv, JobsOK, SendOK
<1> QED
  BY <1>1 DEF NewestOK, IsNewest, OneSend, Youngest, NoneSent

LEMMA NewestKept ==
    ASSUME IInv, DatesOK, NewestOK, [Next]_vars
    PROVE  NewestOK'
<1>0. TypeOK /\ status \in [Messages -> 0 .. 3] /\ \A q \in Requests : job[q] \in Jobs
  BY ControlTyped DEF IInv
<1>1. ASSUME NEW r \in Requests, NEW m \in Messages, SendMessage(r, m) PROVE NewestOK'
  <2>1. CASE conversation /\ ~ crossed'
    <3> DEFINE args == Job(Sender[m], m, 0, {})
    <3>0. args.message = m
      BY DEF Job
    <3>1. /\ \A q \in Requests : pc[q] \notin SendSteps
          /\ ~ crossed
          /\ createdAt[m] = 0 /\ createdAt' = [createdAt EXCEPT ![m] = Clock + 1]
          /\ UNCHANGED <<conversation, status, lastMessageAt>>
          /\ Await(r, "insert", args)
      BY <1>1, <2>1 DEF SendMessage
    <3> HIDE DEF args
    <3>2. /\ pc'[r] = "insert" /\ job'[r].message = m
          /\ \A q \in Requests \ {r} : pc'[q] = pc[q] /\ job'[q] = job[q]
      BY <3>0, <3>1, AwaitSets
    <3>3. \A x \in Messages \ {m} : createdAt'[x] = createdAt[x] /\ createdAt'[x] < createdAt'[m]
      BY <1>0, <3>1, DateNext
    <3>4. status[m] = 0
      BY <3>1 DEF IInv, RowsOK, Unstored
    <3>5. IsNewest(lastMessageAt)'
      BY <2>1, <3>1, <3>3, <3>4 DEF NewestOK, NoneSent, IsNewest
    <3> QED
      BY <3>1, <3>2, <3>3, <3>5 DEF NewestOK, OneSend, Youngest, NoneSent
  <2>2. CASE ~ (conversation /\ ~ crossed')
    BY <1>1, <2>2 DEF SendMessage, NewestOK
  <2> QED
    BY <2>1, <2>2
<1>2. ASSUME NEW r \in Requests, Insert(r) PROVE NewestOK'
  <2>1. CASE conversation
    <3> DEFINE m == job[r].message
               args == Job(job[r].user, m, SENT, {})
    <3>0. args.message = m
      BY DEF Job
    <3>1. /\ pc[r] = "insert" /\ pc[r] \in SendSteps /\ m \in Messages
          /\ status' = [status EXCEPT ![m] = SENT]
          /\ UNCHANGED <<conversation, createdAt, lastMessageAt, crossed>>
          /\ Await(r, "isOnline", args)
      BY <1>2, <2>1 DEF Insert, IInv, JobsOK, SendOK, SendSteps, history
    <3>2. /\ pc'[r] = "isOnline" /\ job'[r].message = m
          /\ \A q \in Requests \ {r} : pc'[q] = pc[q] /\ job'[q] = job[q]
      BY <3>0, <3>1, AwaitSets
    <3>3. status'[m] # 0 /\ \A x \in Messages \ {m} : status'[x] = status[x]
      BY <1>0, <3>1 DEF SENT
    <3>4. "isOnline" \in SendSteps
      BY DEF SendSteps
    <3> QED
      BY <3>1, <3>2, <3>3, <3>4 DEF NewestOK, OneSend, Youngest, NoneSent
  <2>2. CASE ~ conversation
    BY <1>2, <2>2 DEF Insert, NewestOK
  <2> QED
    BY <2>1, <2>2
<1>3. ASSUME NEW r \in Requests, IsOnline(r) PROVE NewestOK'
  BY <1>3, NewestGoesOn, AwaitSets DEF IsOnline, Goto, rows, history, SendSteps
<1>4. ASSUME NEW r \in Requests, Deliver(r) PROVE NewestOK'
  <2>1. \A m \in Messages : status'[m] = 0 <=> status[m] = 0
    BY <1>0, <1>4 DEF Deliver, SENT, DELIVERED
  <2> QED
    BY <1>4, <2>1, NewestGoesOn, AwaitSets DEF Deliver, Goto, history, SendSteps
<1>5. ASSUME NEW r \in Requests, Refetch(r) PROVE NewestOK'
  <2>1. \A u, m, h, b : Job(u, m, h, b).message = m
    BY DEF Job
  <2> QED
    BY <1>5, <2>1, NewestGoesOn, AwaitSets DEF Refetch, rows, SendSteps
<1>6. ASSUME NEW r \in Requests, Touch(r) PROVE NewestOK'
  <2>1. CASE conversation
    BY <1>6, <2>1, NewestGoesOn, AwaitSets DEF Touch, Goto, history, SendSteps
  <2>2. CASE ~ conversation
    BY <1>6, <2>2 DEF Touch, NewestOK
  <2> QED
    BY <2>1, <2>2
<1>7. ASSUME NEW r \in Requests, PushMessage(r) PROVE NewestOK'
  <2>1. /\ pc[r] = "push" /\ pc[r] \in SendSteps /\ pc'[r] = "done" /\ pc'[r] \notin SendSteps
        /\ \A q \in Requests \ {r} : pc'[q] = pc[q] /\ job'[q] = job[q]
        /\ UNCHANGED <<conversation, status, createdAt, lastMessageAt, crossed>>
    BY <1>7, AwaitSets DEF PushMessage, Finish, rows, SendSteps
  <2>2. job[r].message \in Messages
    BY <2>1 DEF IInv, JobsOK, SendOK
  <2>3. \A m \in Messages : createdAt[m] \in Nat
    BY <1>0, ControlTyped, ClockBounds
  <2> QED
    BY <2>1, <2>2, <2>3 DEF NewestOK, IsNewest, OneSend, Youngest, NoneSent
<1>8. ASSUME NEW r \in Requests, NEW u \in Participants, MarkAsSeen(r, u) PROVE NewestOK'
  BY <1>8, NewestStays, AwaitSets DEF MarkAsSeen, Finish, rows, history, SendSteps
<1>9. ASSUME NEW r \in Requests, FindUnseen(r) PROVE NewestOK'
  BY <1>9, NewestStays, AwaitSets DEF FindUnseen, Finish, rows, history, SendSteps
<1>10. ASSUME NEW r \in Requests, MarkSeen(r) PROVE NewestOK'
  BY <1>0, <1>10, NewestStays, AwaitSets DEF MarkSeen, Goto, history, SendSteps, SEEN
<1>11. ASSUME NEW r \in Requests, PushSeen(r) PROVE NewestOK'
  BY <1>11, NewestStays, AwaitSets DEF PushSeen, Finish, rows, SendSteps
<1>12. ASSUME NEW r \in Requests, CallFails(r) PROVE NewestOK'
  <2>1. CASE pc[r] \in SendSteps
    BY <1>12, <2>1 DEF CallFails, NewestOK
  <2>2. CASE pc[r] \notin SendSteps
    BY <1>12, <2>2, NewestStays, AwaitSets, ZenonT(60) DEF CallFails, Finish, rows, SendSteps
  <2> QED
    BY <2>1, <2>2
<1>13. ASSUME NEW u \in Participants, Connect(u) \/ Disconnect(u) PROVE NewestOK'
  BY <1>13, NewestStays DEF Connect, Disconnect, rows, history
<1>14. CASE DropConversation
  BY <1>14 DEF DropConversation, NewestOK
<1>15. CASE UNCHANGED vars
  BY <1>15, NewestStays DEF vars, rows, history
<1> QED
  BY <1>1, <1>2, <1>3, <1>4, <1>5, <1>6, <1>7, <1>8, <1>9, <1>10, <1>11, <1>12, <1>13, <1>14,
     <1>15 DEF Next, Arrive, Continue

(* A conversation is dated by its newest message once no send is in flight,  *)
(* unless two sends overlapped or one failed.                                *)
THEOREM DatedByNewest == Spec => []LastMessageIsNewest
<1>1. Init => DatesOK
  <2> SUFFICES ASSUME Init PROVE DatesOK
    OBVIOUS
  <2>1. Clock \in Nat
    BY InitHolds, ClockBounds DEF IInv
  <2> QED
    BY <2>1 DEF Init, DatesOK
<1>2. Init => NewestOK
  BY DEF Init, NewestOK, OneSend, Youngest, IsNewest, SendSteps
<1>3. IInv /\ NewestOK => LastMessageIsNewest
  BY NewestIsMax DEF IInv, NewestOK, NoneSent, LastMessageIsNewest
<1> QED
  BY <1>1, <1>2, <1>3, DatesKept, NewestKept, InvariantHolds, PTL DEF Spec

-----------------------------------------------------------------------------
(* The refinement                                                            *)

(* A participant has one other                                               *)
LEMMA TheOther ==
    ASSUME NEW u \in Participants, NEW v \in Participants, NEW w \in Participants, v # u, w # u
    PROVE  v = w
<1> SUFFICES ASSUME v # w PROVE FALSE
  OBVIOUS
<1>1. IsFiniteSet({u}) /\ Cardinality({u}) = 1
  BY FS_Singleton
<1>2. IsFiniteSet({u} \cup {v}) /\ Cardinality({u} \cup {v}) = 2
  BY <1>1, FS_AddElement
<1>3. IsFiniteSet(({u} \cup {v}) \cup {w}) /\ Cardinality(({u} \cup {v}) \cup {w}) = 3
  BY <1>2, FS_AddElement
<1>4. ({u} \cup {v}) \cup {w} \in SUBSET Participants
  OBVIOUS
<1> QED
  BY <1>3, <1>4, FS_Subset, ParticipantsAssumption

(* A step that changes neither rows nor what senders were told               *)
LEMMA Stutters ==
    ASSUME UNCHANGED <<conversation, status, display>>
    PROVE  UNCHANGED Abstract!vars
BY DEF Abstract!vars

(* A push for stored messages of one sender, of a status they have reached   *)
LEMMA Tells ==
    ASSUME NEW u \in Participants, NEW batch \in SUBSET Messages, NEW s \in 1 .. 3,
           \A m \in batch : Sender[m] = u /\ (status[m] # 0 => s <= status[m]),
           Tell(batch, s), UNCHANGED <<conversation, status>>
    PROVE  Abstract!Next
<1> DEFINE heard == {m \in batch : Sender[m] \in online /\ status[m] # 0}
<1>1. Abstract!TellSender(u, heard, s)
  BY DEF Abstract!TellSender, Tell
<1>2. heard \in SUBSET Messages
  OBVIOUS
<1> QED
  BY <1>1, <1>2 DEF Abstract!Next

LEMMA StepImplements ==
    ASSUME IInv, [Next]_vars
    PROVE  [Abstract!Next]_Abstract!vars
<1>0. /\ status \in [Messages -> 0 .. 3] /\ display \in [Messages -> 0 .. 3]
      /\ \A q \in Requests : job[q] \in Jobs
  BY ControlTyped DEF IInv
<1>1. ASSUME NEW r \in Requests, Insert(r) PROVE [Abstract!Next]_Abstract!vars
  <2>1. CASE conversation
    <3> DEFINE m == job[r].message
    <3>1. /\ m \in Messages /\ status[m] = 0 /\ display[m] = 0
          /\ status' = [status EXCEPT ![m] = 1]
          /\ UNCHANGED <<conversation, display>>
      BY <1>1, <2>1 DEF Insert, IInv, JobsOK, SendOK, RowsOK, Unstored, SendSteps, SENT
    <3> HIDE DEF m
    <3>2. Abstract!Store(m)
      BY <1>0, <2>1, <3>1 DEF Abstract!Store
    <3> QED
      BY <3>1, <3>2 DEF Abstract!Next
  <2>2. CASE ~ conversation
    BY <1>1, <2>2, Stutters DEF Insert
  <2> QED
    BY <2>1, <2>2
<1>2. ASSUME NEW r \in Requests, Deliver(r) PROVE [Abstract!Next]_Abstract!vars
  <2> DEFINE m == job[r].message
  <2>1. /\ m \in Messages
        /\ status' = [status EXCEPT ![m] = IF status[m] = SENT THEN DELIVERED ELSE status[m]]
        /\ UNCHANGED <<conversation, display>>
    BY <1>0, <1>2 DEF Deliver, IInv, JobsOK, SendOK, SendSteps
  <2> HIDE DEF m
  <2>2. CASE status[m] = SENT
    <3>1. status' = [status EXCEPT ![m] = 2] /\ status[m] = 1
      BY <2>1, <2>2 DEF SENT, DELIVERED
    <3>2. [x \in Messages |-> IF status'[x] = 0 THEN 0 ELSE display'[x]]
            = [x \in Messages |-> IF status[x] = 0 THEN 0 ELSE display[x]]
      <4>1. \A x \in Messages : (status'[x] = 0 <=> status[x] = 0) /\ display'[x] = display[x]
        BY <1>0, <2>1, <3>1
      <4> QED
        BY <4>1
    <3>3. Abstract!Deliver(m)
      BY <2>1, <3>1, <3>2 DEF Abstract!Deliver
    <3> QED
      BY <2>1, <3>3 DEF Abstract!Next
  <2>3. CASE status[m] # SENT
    BY <1>0, <2>1, <2>3, Stutters
  <2> QED
    BY <2>2, <2>3
<1>3. ASSUME NEW r \in Requests, Refetch(r) PROVE [Abstract!Next]_Abstract!vars
  <2> DEFINE m == job[r].message
  <2>1. /\ m \in Messages /\ Sender[m] \in Participants
        /\ status[m] # 0 => 2 <= status[m]
        /\ Tell({m}, 2) /\ UNCHANGED <<conversation, status>>
    BY <1>0, <1>3, SenderAssumption
    DEF Refetch, IInv, JobsOK, SendOK, SendSteps, SENT, DELIVERED, rows
  <2> HIDE DEF m
  <2> QED
    BY <2>1, Tells
<1>4. ASSUME NEW r \in Requests, PushMessage(r) PROVE [Abstract!Next]_Abstract!vars
  <2> DEFINE m == job[r].message
             s == job[r].held
  <2>1. /\ m \in Messages /\ Sender[m] \in Participants
        /\ s \in 1 .. 3
        /\ status[m] # 0 => s <= status[m]
        /\ Tell({m}, s) /\ UNCHANGED <<conversation, status>>
    BY <1>0, <1>4, SenderAssumption DEF PushMessage, IInv, JobsOK, SendOK, SendSteps, rows, Jobs
  <2> HIDE DEF m, s
  <2> QED
    BY <2>1, Tells
<1>5. ASSUME NEW r \in Requests, MarkSeen(r) PROVE [Abstract!Next]_Abstract!vars
  <2> DEFINE u == job[r].user
             seen == {m \in job[r].batch : status[m] \in {1, 2}}
  <2>1. /\ u \in Participants /\ job[r].batch \in SUBSET Messages
        /\ \A m \in job[r].batch : Sender[m] # u
    BY <1>0, <1>5 DEF MarkSeen, IInv, JobsOK, BatchOK, SeenSteps, Jobs
  <2>2. /\ status' = [m \in Messages |-> IF m \in seen THEN 3 ELSE status[m]]
        /\ UNCHANGED <<conversation, display>>
    BY <1>0, <1>5, <2>1 DEF MarkSeen, SEEN, history
  <2>3. Abstract!See(u, seen)
    BY <1>0, <2>1, <2>2 DEF Abstract!See
  <2>4. seen \in SUBSET Messages
    BY <2>1
  <2> QED
    BY <2>1, <2>3, <2>4 DEF Abstract!Next
<1>6. ASSUME NEW r \in Requests, PushSeen(r) PROVE [Abstract!Next]_Abstract!vars
  <2>1. CASE conversation
    <3> DEFINE batch == job[r].batch
    <3>1. /\ job[r].user \in Participants /\ batch \in SUBSET Messages
          /\ \A m \in batch : Sender[m] # job[r].user /\ Sender[m] \in Participants
          /\ \A m \in batch : status[m] # 0 => 3 <= status[m]
          /\ Tell(batch, 3) /\ UNCHANGED <<conversation, status>>
      BY <1>0, <1>6, <2>1, SenderAssumption
      DEF PushSeen, IInv, JobsOK, BatchOK, SeenSteps, Jobs, SEEN, rows
    <3> HIDE DEF batch
    <3>2. \E u \in Participants : \A m \in batch : Sender[m] = u
      <4>1. CASE batch = {}
        BY <3>1, <4>1
      <4>2. ASSUME NEW x \in batch PROVE \A m \in batch : Sender[m] = Sender[x]
        BY <3>1, TheOther
      <4> QED
        BY <3>1, <4>1, <4>2
    <3>3. PICK u \in Participants : \A m \in batch : Sender[m] = u
      BY <3>2
    <3> QED
      BY <3>1, <3>3, Tells
  <2>2. CASE ~ conversation
    BY <1>6, <2>2, Stutters DEF PushSeen, rows
  <2> QED
    BY <2>1, <2>2
<1>7. CASE DropConversation
  <2>1. Abstract!Close
    BY <1>7 DEF DropConversation, Abstract!Close, Abstract!Unknown
  <2> QED
    BY <2>1 DEF Abstract!Next
<1>8. ASSUME NEW r \in Requests, NEW m \in Messages, SendMessage(r, m)
      PROVE  [Abstract!Next]_Abstract!vars
  BY <1>8, Stutters DEF SendMessage
<1>9. ASSUME NEW r \in Requests, NEW u \in Participants, MarkAsSeen(r, u)
      PROVE  [Abstract!Next]_Abstract!vars
  BY <1>9, Stutters DEF MarkAsSeen, rows
<1>10. ASSUME NEW r \in Requests, IsOnline(r) \/ Touch(r) \/ FindUnseen(r) \/ CallFails(r)
       PROVE  [Abstract!Next]_Abstract!vars
  BY <1>10, Stutters DEF IsOnline, Touch, FindUnseen, CallFails, rows
<1>11. ASSUME NEW u \in Participants, Connect(u) \/ Disconnect(u)
       PROVE  [Abstract!Next]_Abstract!vars
  BY <1>11, Stutters DEF Connect, Disconnect, rows
<1>12. CASE UNCHANGED vars
  BY <1>12, Stutters DEF vars, rows
<1> QED
  BY <1>1, <1>2, <1>3, <1>4, <1>5, <1>6, <1>7, <1>8, <1>9, <1>10, <1>11, <1>12
  DEF Next, Arrive, Continue

(* Chat implements MessageStatus, for any number of messages and of requests *)
(* in flight: each step of a call stores one message, marks one delivered,   *)
(* shows a batch to the reader or tells a sender what has been reached, or   *)
(* leaves all that alone.                                                    *)
THEOREM ChatImplements == Spec => ImplementsMessageStatus
<1>1. Init => Abstract!Init
  BY DEF Init, Abstract!Init, Abstract!Unknown
<1>2. IInv /\ [Next]_vars => [Abstract!Next]_Abstract!vars
  BY StepImplements
<1> QED
  BY <1>1, <1>2, InvariantHolds, PTL DEF Spec, ImplementsMessageStatus, Abstract!Spec
=============================================================================
