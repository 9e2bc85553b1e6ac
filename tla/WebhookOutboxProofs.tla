------------------------- MODULE WebhookOutboxProofs -------------------------
(***************************************************************************)
(* Proofs about WebhookOutbox: the type invariant, and that the counters   *)
(* and outcomes of the table are backed by requests, for every number of   *)
(* workers, deliveries, attempts and faults; and when a receiver can be    *)
(* asked again what it has accepted.                                       *)
(*                                                                         *)
(* The workers write values computed from stale reads over each other, so  *)
(* the table alone carries no invariant: what each worker read with its    *)
(* batch, and what it is about to write, must be bounded too.              *)
(***************************************************************************)
EXTENDS WebhookOutbox, TLAPS

\* Rows the loop may still pick up have an attempt left, and the outcome of a
\* row is earned.
TableInv ==
  \A d \in Deliveries :
    /\ attempts[d] <= posts[d]
    /\ status[d] \in {"absent", "pending", "retry"} => attempts[d] < MaxAttempts
    /\ status[d] = "dead_letter" => posts[d] >= MaxAttempts
    /\ status[d] = "success" => acks[d] >= 1

\* What a worker read was true when it read it; requests are only ever added.
ReadInv ==
  \A w \in Workers : \A d \in batch[w] : read[w][d] <= posts[d]

\* A worker about to write has made one request more than it read, and knows
\* whether it was accepted.
UpdateInv ==
  \A w \in Workers, d \in Deliveries :
    wpc[w] = "update" /\ Current(w, d) =>
      /\ read[w][d] < posts[d]
      /\ ok[w] => acks[d] >= 1

OutboxInv == TypeOK /\ TableInv /\ ReadInv /\ UpdateInv

-----------------------------------------------------------------------------
\* The initial state has no delivery.
LEMMA OutboxInit == Init => OutboxInv
  BY WebhookOutboxAssumption
  DEF Init, OutboxInv, TypeOK, TableInv, ReadInv, UpdateInv, Deliveries, Settled

\* The batch is made of rows that have an attempt left.
LEMMA DueRows ==
  ASSUME OutboxInv
  PROVE  /\ Due \subseteq Deliveries
         /\ \A d \in Due : attempts[d] < MaxAttempts /\ attempts[d] <= posts[d]
         /\ AttemptsRead \in [Deliveries -> 0..MaxAttempts - 1]
         /\ \A d \in Due : AttemptsRead[d] = attempts[d]
<1>1. \A d \in Due : d \in Deliveries /\ status[d] \in {"pending", "retry"}
  BY DEF Due, Selected, Open
<1>2. \A d \in Due : attempts[d] < MaxAttempts /\ attempts[d] <= posts[d]
  BY <1>1 DEF OutboxInv, TableInv
<1>3. \A d \in Deliveries : attempts[d] \in 0..MaxAttempts
  BY DEF OutboxInv, TypeOK
<1> QED
  BY <1>1, <1>2, <1>3, WebhookOutboxAssumption DEF AttemptsRead

-----------------------------------------------------------------------------
\* The environment's actions leave what the workers hold alone.
LEMMA EnvironmentStep ==
  ASSUME OutboxInv, NEW d \in Deliveries, Enqueue(d) \/ DeleteRun(d) \/ BackoffElapses(d)
  PROVE  OutboxInv'
<1>1. UNCHANGED <<loop, history>>
  BY DEF Enqueue, DeleteRun, BackoffElapses
<1>2. TypeOK'
  <2>1. /\ status' \in [Deliveries -> {"absent", "pending", "retry"} \cup Settled]
        /\ ready' \in [Deliveries -> BOOLEAN]
    BY DEF OutboxInv, TypeOK, Enqueue, DeleteRun, BackoffElapses, Settled
  <2>2. attempts' \in [Deliveries -> 0..MaxAttempts]
    <3>1. 0 \in 0..MaxAttempts
      BY WebhookOutboxAssumption
    <3>2. UNCHANGED attempts \/ attempts' = [attempts EXCEPT ![d] = 0]
      BY DEF Enqueue, DeleteRun, BackoffElapses
    <3> QED
      BY <3>1, <3>2 DEF OutboxInv, TypeOK
  <2> QED
    BY <1>1, <2>1, <2>2 DEF OutboxInv, TypeOK, loop, history
<1>3. TableInv'
  <2> SUFFICES ASSUME NEW e \in Deliveries
               PROVE  /\ attempts'[e] <= posts[e]
                      /\ status'[e] \in {"absent", "pending", "retry"} => attempts'[e] < MaxAttempts
                      /\ status'[e] = "dead_letter" => posts[e] >= MaxAttempts
                      /\ status'[e] = "success" => acks[e] >= 1
    BY <1>1 DEF TableInv, history
  <2>1. status'[e] = status[e] \/ status'[e] = "deleted"
        \/ (status[e] = "absent" /\ status'[e] = "pending")
    BY DEF OutboxInv, TypeOK, Enqueue, DeleteRun, BackoffElapses
  <2>2. attempts'[e] = attempts[e] \/ attempts'[e] = 0
    BY DEF OutboxInv, TypeOK, Enqueue, DeleteRun, BackoffElapses
  <2>3. MaxAttempts \in Nat \ {0} /\ posts[e] \in 0..MaxAttempts
    BY WebhookOutboxAssumption DEF OutboxInv, TypeOK
  <2> QED
    BY <2>1, <2>2, <2>3 DEF OutboxInv, TableInv
<1>4. ReadInv' /\ UpdateInv'
  BY <1>1 DEF OutboxInv, ReadInv, UpdateInv, Current, loop, history
<1> QED
  BY <1>2, <1>3, <1>4 DEF OutboxInv

\* A new batch is what the table holds.
LEMMA SelectStep ==
  ASSUME OutboxInv, NEW w \in Workers, SelectBatch(w)
  PROVE  OutboxInv'
<1>1. TypeOK'
  BY DueRows DEF OutboxInv, TypeOK, SelectBatch, table
<1>2. TableInv'
  BY DEF OutboxInv, TableInv, SelectBatch, table
<1>3. ReadInv'
  BY DueRows DEF OutboxInv, TypeOK, ReadInv, SelectBatch
<1>4. UpdateInv'
  BY DEF OutboxInv, TypeOK, UpdateInv, Current, SelectBatch
<1> QED
  BY <1>1, <1>2, <1>3, <1>4 DEF OutboxInv

\* A request adds to posts, and to acks if accepted; nothing is written yet.
LEMMA PostStep ==
  ASSUME OutboxInv, NEW w \in Workers, NEW d \in Deliveries, Post(w, d)
  PROVE  OutboxInv'
<1>1. TypeOK'
  BY WebhookOutboxAssumption DEF OutboxInv, TypeOK, Post, CountUpTo, table
<1>2. \A e \in Deliveries : posts[e] <= posts'[e] /\ acks[e] <= acks'[e]
  BY WebhookOutboxAssumption DEF OutboxInv, TypeOK, Post, CountUpTo
<1>3. TableInv'
  BY <1>1, <1>2, WebhookOutboxAssumption DEF OutboxInv, TypeOK, TableInv, Post, table
<1>4. ReadInv'
  BY <1>1, <1>2 DEF OutboxInv, TypeOK, ReadInv, Post
<1>5. UpdateInv'
  <2> SUFFICES ASSUME NEW v \in Workers, NEW e \in Deliveries,
                      wpc'[v] = "update", Current(v, e)'
               PROVE  read'[v][e] < posts'[e] /\ (ok'[v] => acks'[e] >= 1)
    BY DEF UpdateInv
  <2>1. CASE v = w
    <3>1. e = d
      BY <2>1 DEF Current, Post, OutboxInv, TypeOK, Deliveries
    <3>2. read[w][d] <= posts[d] /\ posts'[d] = CountUpTo(posts[d], MaxAttempts)
      BY DEF Current, Post, OutboxInv, TypeOK, ReadInv
    <3>3. ok'[w] => acks'[d] = CountUpTo(acks[d], 2)
      BY DEF Post, OutboxInv, TypeOK
    <3>4. /\ read[w][d] \in 0..MaxAttempts - 1 /\ posts[d] \in 0..MaxAttempts
          /\ acks[d] \in 0..2 /\ read'[w][d] = read[w][d]
      BY DEF Post, OutboxInv, TypeOK
    <3>5. read[w][d] < posts'[d] /\ (ok'[w] => acks'[d] >= 1)
      BY <3>2, <3>3, <3>4, WebhookOutboxAssumption DEF CountUpTo
    <3> QED
      BY <2>1, <3>1, <3>4, <3>5
  <2>2. CASE v # w
    <3>1. wpc[v] = "update" /\ Current(v, e) /\ ok'[v] = ok[v]
      BY <2>2 DEF Current, Post, OutboxInv, TypeOK
    <3> QED
      BY <3>1, <1>1, <1>2 DEF OutboxInv, TypeOK, UpdateInv, Post
  <2> QED
    BY <2>1, <2>2
<1> QED
  BY <1>1, <1>3, <1>4, <1>5 DEF OutboxInv

\* Leaving an item or the batch keeps the types of what a worker holds.
LEMMA LeaveTypes ==
  ASSUME OutboxInv, NEW w \in Workers,
         \/ \E d \in Deliveries : NextItem(w, d)
         \/ Crash(w)
  PROVE  /\ batch' \in [Workers -> SUBSET Deliveries]
         /\ read' \in [Workers -> [Deliveries -> 0..MaxAttempts - 1]]
         /\ wpc' \in [Workers -> {"idle", "post", "update"}]
         /\ ok' \in [Workers -> BOOLEAN]
<1> DEFINE Reads == [Deliveries -> 0..MaxAttempts - 1]
<1>1. 0 \in 0..MaxAttempts - 1
  BY WebhookOutboxAssumption
<1>2. read \in [Workers -> Reads]
  BY DEF OutboxInv, TypeOK
<1>3. \A d \in Deliveries : [read[w] EXCEPT ![d] = 0] \in Reads
  BY <1>1, <1>2
<1>4. [d \in Deliveries |-> 0] \in Reads
  BY <1>1
<1> HIDE DEF Reads
<1>5. \E f \in Reads : read' = [read EXCEPT ![w] = f]
  BY <1>3, <1>4 DEF NextItem, Crash
<1>6. read' \in [Workers -> Reads]
  BY <1>2, <1>5
<1>7. batch' \in [Workers -> SUBSET Deliveries]
  <2>1. \E B \in SUBSET Deliveries : batch' = [batch EXCEPT ![w] = B]
    <3>1. \A d \in Deliveries : batch[w] \ {d} \in SUBSET Deliveries
      BY DEF OutboxInv, TypeOK
    <3> QED
      BY <3>1 DEF NextItem, Crash
  <2> QED
    BY <2>1 DEF OutboxInv, TypeOK
<1>8. wpc' \in [Workers -> {"idle", "post", "update"}]
  <2>1. wpc' = [wpc EXCEPT ![w] = "idle"] \/ wpc' = [wpc EXCEPT ![w] = "post"]
    BY DEF NextItem, Crash
  <2> QED
    BY <2>1 DEF OutboxInv, TypeOK
<1>9. ok' \in [Workers -> BOOLEAN]
  <2>1. ok' = [ok EXCEPT ![w] = FALSE]
    BY DEF NextItem, Crash
  <2> QED
    BY <2>1 DEF OutboxInv, TypeOK
<1> QED
  BY <1>6, <1>7, <1>8, <1>9 DEF Reads

\* Leaving an item or the batch keeps the facts about the workers.
LEMMA LeaveItem ==
  ASSUME OutboxInv, UNCHANGED <<posts, acks>>, NEW w \in Workers,
         \/ \E d \in Deliveries : NextItem(w, d)
         \/ Crash(w)
  PROVE  ReadInv' /\ UpdateInv'
<1>1. \A v \in Workers \ {w} : UNCHANGED <<batch[v], read[v], wpc[v], ok[v]>>
  BY DEF NextItem, Crash, OutboxInv, TypeOK
<1>2. batch'[w] \subseteq batch[w] /\ wpc'[w] # "update"
  BY DEF NextItem, Crash, OutboxInv, TypeOK
<1>3. \A e \in batch'[w] : read'[w][e] = read[w][e]
  BY DEF NextItem, Crash, OutboxInv, TypeOK
<1> QED
  BY <1>1, <1>2, <1>3 DEF OutboxInv, ReadInv, UpdateInv, Current

\* The outcome written is that of the request just made.
LEMMA UpdateStep ==
  ASSUME OutboxInv, NEW w \in Workers, NEW d \in Deliveries, UpdateDelivery(w, d)
  PROVE  OutboxInv'
<1>1. read[w][d] + 1 \in 1..MaxAttempts /\ read[w][d] < posts[d] /\ (ok[w] => acks[d] >= 1)
  BY WebhookOutboxAssumption DEF OutboxInv, TypeOK, UpdateInv, UpdateDelivery
<1>2. TypeOK'
  <2>1. CASE status[d] = "deleted"
    BY <2>1, LeaveTypes
    DEF OutboxInv, TypeOK, UpdateDelivery, WriteOutcome, table, history
  <2>2. CASE status[d] # "deleted"
    <3>1. Outcome(w, read[w][d] + 1) \in {"success", "dead_letter", "retry"}
      BY DEF Outcome
    <3>2. status' \in [Deliveries -> {"absent", "pending", "retry"} \cup Settled]
      BY <2>2, <3>1 DEF OutboxInv, TypeOK, UpdateDelivery, WriteOutcome, Settled
    <3>3. attempts' \in [Deliveries -> 0..MaxAttempts]
      <4>1. attempts' = [attempts EXCEPT ![d] = read[w][d] + 1]
        BY <2>2 DEF UpdateDelivery, WriteOutcome
      <4>2. read[w][d] + 1 \in 0..MaxAttempts
        BY <1>1, WebhookOutboxAssumption
      <4> QED
        BY <4>1, <4>2 DEF OutboxInv, TypeOK
    <3>4. ready' \in [Deliveries -> BOOLEAN]
      BY <2>2 DEF OutboxInv, TypeOK, UpdateDelivery, WriteOutcome
    <3> QED
      BY <3>2, <3>3, <3>4, LeaveTypes DEF OutboxInv, TypeOK, UpdateDelivery, history
  <2> QED
    BY <2>1, <2>2
<1>3. TableInv'
  <2>1. CASE status[d] = "deleted"
    BY <2>1 DEF OutboxInv, TableInv, UpdateDelivery, WriteOutcome, table, history
  <2>2. CASE status[d] # "deleted"
    <3>1. attempts'[d] = read[w][d] + 1 /\ status'[d] = Outcome(w, read[w][d] + 1)
      BY <2>2 DEF OutboxInv, TypeOK, UpdateDelivery, WriteOutcome
    <3>2. \A e \in Deliveries \ {d} : attempts'[e] = attempts[e] /\ status'[e] = status[e]
      BY <2>2 DEF OutboxInv, TypeOK, UpdateDelivery, WriteOutcome
    <3>3. UNCHANGED <<posts, acks>>
      BY DEF UpdateDelivery, history
    <3> QED
      BY <1>1, <3>1, <3>2, <3>3, WebhookOutboxAssumption
      DEF OutboxInv, TypeOK, TableInv, Outcome
  <2> QED
    BY <2>1, <2>2
<1>4. ReadInv' /\ UpdateInv'
  BY LeaveItem DEF UpdateDelivery, history
<1> QED
  BY <1>2, <1>3, <1>4 DEF OutboxInv

\* A failed UPDATE, a crash or an URL that is none only loses what the worker held.
LEMMA FaultStep ==
  ASSUME OutboxInv, NEW w \in Workers,
         Crash(w) \/ \E d \in Deliveries : UpdateFails(w, d) \/ NoRequest(w, d)
  PROVE  OutboxInv'
<1>1. UNCHANGED <<table, posts, acks>>
  BY DEF Crash, UpdateFails, NoRequest, history
<1>2. TypeOK'
  <2>1. faults' \in 0..MaxFaults /\ UNCHANGED overlap /\ lost' \subseteq Deliveries
    BY WebhookOutboxAssumption
    DEF OutboxInv, TypeOK, Crash, UpdateFails, NoRequest, Unrecorded, history
  <2>2. Crash(w) \/ \E d \in Deliveries : NextItem(w, d)
    BY DEF UpdateFails, NoRequest
  <2> QED
    BY <1>1, <2>1, <2>2, LeaveTypes DEF OutboxInv, TypeOK, table
<1>3. TableInv'
  BY <1>1 DEF OutboxInv, TableInv, table
<1>4. ReadInv' /\ UpdateInv'
  BY <1>1, LeaveItem DEF UpdateFails, NoRequest
<1> QED
  BY <1>2, <1>3, <1>4 DEF OutboxInv

\* Every step keeps the invariant of the outbox.
LEMMA OutboxStep == OutboxInv /\ [Next]_vars => OutboxInv'
<1> SUFFICES ASSUME OutboxInv, [Next]_vars
             PROVE  OutboxInv'
  OBVIOUS
<1>1. CASE UNCHANGED vars
  BY <1>1 DEF OutboxInv, TypeOK, TableInv, ReadInv, UpdateInv, Current,
              vars, table, loop, history
<1>2. CASE \E d \in Deliveries : Enqueue(d) \/ DeleteRun(d) \/ BackoffElapses(d)
  BY <1>2, EnvironmentStep
<1>3. CASE \E w \in Workers : LoopStep(w)
  BY <1>3, SelectStep, PostStep, UpdateStep, FaultStep DEF LoopStep
<1>4. CASE \E w \in Workers : Crash(w) \/ \E d \in Deliveries : UpdateFails(w, d)
  BY <1>4, FaultStep
<1> QED
  BY <1>1, <1>2, <1>3, <1>4 DEF Next

\* The invariant of the outbox holds throughout.
LEMMA OutboxInvariant == Spec => []OutboxInv
  BY OutboxInit, OutboxStep, PTL DEF Spec

-----------------------------------------------------------------------------
\* The rows, the batches and the counters keep their types; in particular
\* attempts never passes the maximum, whoever writes it.
THEOREM TypeCorrect == Spec => []TypeOK
<1>1. OutboxInv => TypeOK
  BY DEF OutboxInv
<1> QED
  BY <1>1, OutboxInvariant, PTL

\* The attempts of a row never exceed the requests made for it.
THEOREM AttemptsAreRequests == Spec => []AttemptsWereMade
<1>1. OutboxInv => AttemptsWereMade
  BY DEF OutboxInv, TableInv, AttemptsWereMade
<1> QED
  BY <1>1, OutboxInvariant, PTL

\* A row is given up after MaxAttempts requests, and a success after an acceptance.
THEOREM OutcomesAreEarned == Spec => []OutcomeIsEarned
<1>1. OutboxInv => OutcomeIsEarned
  BY DEF OutboxInv, TableInv, OutcomeIsEarned
<1> QED
  BY <1>1, OutboxInvariant, PTL

-----------------------------------------------------------------------------
(* One acceptance per delivery, unless two batches held it or one was lost. *)

\* At most one worker has d in its batch.
Lone(d) == \A v, w \in Workers : d \in batch[v] /\ d \in batch[w] => v = w

\* d was accepted once: a worker is about to record it, or the table says so and
\* no worker has d to post again.
Accepted(d) ==
  /\ acks[d] = 1
  /\ \/ \E w \in Workers : wpc[w] = "update" /\ Current(w, d) /\ ok[w]
     \/ status[d] \in {"success", "deleted"} /\ \A w \in Workers : d \notin batch[w]

AckInv ==
  \A d \in Deliveries \ (overlap \cup lost \cup Unusable) :
    Lone(d) /\ (acks[d] > 0 => Accepted(d))

\* Nobody accepts what is not sent.
NoAckInv == \A d \in Unusable : acks[d] = 0

\* A new batch shares a row with another only by putting it in overlap, and has
\* no row that is settled.
LEMMA AckSelect ==
  ASSUME TypeOK, AckInv, NEW w \in Workers, SelectBatch(w)
  PROVE  AckInv'
<1> SUFFICES ASSUME NEW d \in Deliveries, d \notin Unusable, d \notin overlap', d \notin lost
             PROVE  Lone(d)' /\ (acks[d] > 0 => Accepted(d)')
  BY DEF AckInv, SelectBatch
<1>1. Lone(d) /\ (acks[d] > 0 => Accepted(d))
  BY DEF AckInv, SelectBatch
<1>2. /\ \A v \in Workers \ {w} : batch'[v] = batch[v] /\ wpc'[v] = wpc[v]
      /\ batch'[w] = Due
      /\ UNCHANGED <<status, acks, ok>>
  BY DEF TypeOK, SelectBatch, table
<1>3. d \in Due => \A v \in Workers \ {w} : d \notin batch[v]
  BY DEF SelectBatch
<1>4. Lone(d)'
  BY <1>1, <1>2, <1>3 DEF Lone
<1>5. ASSUME acks[d] > 0
      PROVE  Accepted(d)'
  <2>1. CASE \E v \in Workers : wpc[v] = "update" /\ Current(v, d) /\ ok[v]
    <3>1. PICK v \in Workers : wpc[v] = "update" /\ Current(v, d) /\ ok[v]
      BY <2>1
    <3>2. v # w
      BY <3>1 DEF SelectBatch
    <3>3. wpc'[v] = "update" /\ Current(v, d)' /\ ok'[v]
      BY <3>1, <3>2, <1>2 DEF Current
    <3> QED
      BY <3>3, <1>1, <1>2, <1>5 DEF Accepted
  <2>2. CASE status[d] \in {"success", "deleted"} /\ \A v \in Workers : d \notin batch[v]
    <3>1. d \notin Due
      BY <2>2 DEF Due, Selected, Open
    <3> QED
      BY <3>1, <2>2, <1>1, <1>2, <1>5 DEF Accepted
  <2> QED
    BY <2>1, <2>2, <1>1, <1>5 DEF Accepted
<1> QED
  BY <1>4, <1>5

\* A worker that posts d is the only one to have it, and no acceptance of d is
\* on record or on its way there.
LEMMA AckPost ==
  ASSUME TypeOK, AckInv, NEW w \in Workers, NEW c \in Deliveries, Post(w, c)
  PROVE  AckInv'
<1> SUFFICES ASSUME NEW d \in Deliveries, d \notin Unusable, d \notin overlap, d \notin lost
             PROVE  Lone(d)' /\ (acks'[d] > 0 => Accepted(d)')
  BY DEF AckInv, Post
<1>1. Lone(d) /\ (acks[d] > 0 => Accepted(d))
  BY DEF AckInv
<1>2. /\ UNCHANGED <<status, batch>>
      /\ \A v \in Workers \ {w} : wpc'[v] = wpc[v] /\ ok'[v] = ok[v]
      /\ wpc[w] = "post" /\ wpc'[w] = "update" /\ Current(w, c)
  BY DEF TypeOK, Post, table
<1>3. Lone(d)'
  BY <1>1, <1>2 DEF Lone
<1>4. CASE d = c
  <2>1. acks[d] = 0
    <3>1. d \in batch[w]
      BY <1>2, <1>4 DEF Current
    <3>2. ~ \E v \in Workers : wpc[v] = "update" /\ Current(v, d) /\ ok[v]
      BY <3>1, <1>1, <1>2 DEF Lone, Current
    <3>3. ~ Accepted(d)
      BY <3>1, <3>2 DEF Accepted
    <3>4. acks[d] \in 0..2
      BY DEF TypeOK
    <3> QED
      BY <3>3, <3>4, <1>1
  <2>2. \/ acks'[d] = CountUpTo(acks[d], 2) /\ ok'[w]
        \/ acks'[d] = acks[d]
    BY <1>4 DEF TypeOK, Post
  <2>3. Current(w, d)'
    BY <1>2, <1>4 DEF Current
  <2>4. acks'[d] > 0 => acks'[d] = 1 /\ ok'[w]
    BY <2>1, <2>2 DEF CountUpTo
  <2> QED
    BY <1>2, <1>3, <2>3, <2>4 DEF Accepted
<1>5. CASE d # c
  <2>1. acks'[d] = acks[d]
    BY <1>5 DEF TypeOK, Post
  <2>2. \A v \in Workers : wpc[v] = "update" /\ Current(v, d) /\ ok[v]
                           => wpc'[v] = "update" /\ Current(v, d)' /\ ok'[v]
    BY <1>2 DEF Current
  <2> QED
    BY <1>1, <1>2, <1>3, <2>1, <2>2 DEF Accepted
<1> QED
  BY <1>4, <1>5

\* The UPDATE puts the acceptance on record as the worker, the only one to have
\* the row, lets it go.
LEMMA AckUpdate ==
  ASSUME TypeOK, AckInv, NEW w \in Workers, NEW c \in Deliveries, UpdateDelivery(w, c)
  PROVE  AckInv'
<1> SUFFICES ASSUME NEW d \in Deliveries, d \notin Unusable, d \notin overlap, d \notin lost
             PROVE  Lone(d)' /\ (acks[d] > 0 => Accepted(d)')
  BY DEF AckInv, UpdateDelivery, history
<1>1. Lone(d) /\ (acks[d] > 0 => Accepted(d))
  BY DEF AckInv
<1>2. /\ UNCHANGED acks
      /\ \A v \in Workers \ {w} : UNCHANGED <<batch[v], wpc[v], ok[v]>>
      /\ batch'[w] = batch[w] \ {c}
      /\ Current(w, c)
  BY DEF TypeOK, UpdateDelivery, NextItem, history
<1>3. Lone(d)'
  BY <1>1, <1>2 DEF Lone
<1>4. CASE d = c
  <2>1. \A v \in Workers : d \notin batch'[v]
    BY <1>1, <1>2, <1>4 DEF Lone, Current
  <2>2. ASSUME acks[d] > 0
        PROVE  acks[d] = 1 /\ ok[w]
    BY <1>1, <1>2, <1>4, <2>2 DEF Accepted, Lone, Current
  <2>3. ok[w] => status'[d] \in {"success", "deleted"}
    BY <1>4 DEF TypeOK, UpdateDelivery, WriteOutcome, Outcome, table
  <2> QED
    BY <1>2, <1>3, <2>1, <2>2, <2>3 DEF Accepted
<1>5. CASE d # c
  <2>1. status'[d] = status[d]
    BY <1>5 DEF TypeOK, UpdateDelivery, WriteOutcome, table
  <2>2. \A v \in Workers : d \notin batch[v] => d \notin batch'[v]
    BY <1>2
  <2>3. \A v \in Workers : Current(v, d) => v # w
    BY <1>2, <1>5 DEF Current, TypeOK, Deliveries
  <2>4. \A v \in Workers : wpc[v] = "update" /\ Current(v, d) /\ ok[v]
                           => wpc'[v] = "update" /\ Current(v, d)' /\ ok'[v]
    BY <1>2, <2>3 DEF Current
  <2> QED
    BY <1>1, <1>2, <1>3, <2>1, <2>2, <2>4 DEF Accepted
<1> QED
  BY <1>4, <1>5

\* Deleting a run settles its row; a row not yet there has no acceptance.
LEMMA AckEnvironment ==
  ASSUME TypeOK, AckInv, NEW e \in Deliveries, Enqueue(e) \/ DeleteRun(e) \/ BackoffElapses(e)
  PROVE  AckInv'
<1>1. UNCHANGED <<loop, history>>
  BY DEF Enqueue, DeleteRun, BackoffElapses
<1>2. \A d \in Deliveries : status[d] \in {"success", "deleted"}
                            => status'[d] \in {"success", "deleted"}
  BY DEF TypeOK, Enqueue, DeleteRun, BackoffElapses
<1> QED
  BY <1>1, <1>2 DEF AckInv, Lone, Accepted, Current, loop, history

\* A crash, a failed UPDATE or an URL that is none only takes rows out of a batch:
\* the acceptance it loses, if there is one, is that of the row whose outcome was
\* not yet written.
LEMMA AckFault ==
  ASSUME TypeOK, AckInv, NEW w \in Workers,
         Crash(w) \/ \E c \in Deliveries : UpdateFails(w, c) \/ NoRequest(w, c)
  PROVE  AckInv'
<1>1. /\ UNCHANGED <<status, acks, overlap>>
      /\ lost' = lost \cup Unrecorded(w)
  <2>1. CASE \E c \in Deliveries : NoRequest(w, c)
    <3>1. Unrecorded(w) = {}
      BY <2>1 DEF NoRequest, Unrecorded
    <3> QED
      BY <2>1, <3>1 DEF NoRequest, table, history
  <2> QED
    BY <2>1 DEF Crash, UpdateFails, table
<1> SUFFICES ASSUME NEW d \in Deliveries, d \notin Unusable, d \notin overlap, d \notin lost,
                    d \notin Unrecorded(w)
             PROVE  Lone(d)' /\ (acks[d] > 0 => Accepted(d)')
  BY <1>1 DEF AckInv
<1>2. Lone(d) /\ (acks[d] > 0 => Accepted(d))
  BY DEF AckInv
<1>3. /\ \A v \in Workers \ {w} : UNCHANGED <<batch[v], wpc[v], ok[v]>>
      /\ batch'[w] \subseteq batch[w]
  BY DEF TypeOK, Crash, UpdateFails, NoRequest, NextItem
<1>4. Lone(d)'
  BY <1>2, <1>3 DEF Lone
<1>5. \A v \in Workers : wpc[v] = "update" /\ Current(v, d) /\ ok[v]
                         => wpc'[v] = "update" /\ Current(v, d)' /\ ok'[v]
  <2> SUFFICES ASSUME NEW v \in Workers, wpc[v] = "update", Current(v, d), ok[v]
               PROVE  wpc'[v] = "update" /\ Current(v, d)' /\ ok'[v]
    OBVIOUS
  <2>1. v # w
    BY DEF Unrecorded
  <2> QED
    BY <2>1, <1>3 DEF Current
<1>6. \A v \in Workers : d \notin batch[v] => d \notin batch'[v]
  BY <1>3
<1> QED
  BY <1>1, <1>2, <1>4, <1>5, <1>6 DEF Accepted

\* Every step keeps that: what was accepted is settled, or about to be by one
\* worker.
LEMMA AckStep == TypeOK /\ AckInv /\ [Next]_vars => AckInv'
<1> SUFFICES ASSUME TypeOK, AckInv, [Next]_vars
             PROVE  AckInv'
  OBVIOUS
<1>1. CASE UNCHANGED vars
  BY <1>1 DEF AckInv, Lone, Accepted, Current, vars, table, loop, history
<1>2. CASE \E d \in Deliveries : Enqueue(d) \/ DeleteRun(d) \/ BackoffElapses(d)
  BY <1>2, AckEnvironment
<1>3. CASE \E w \in Workers : LoopStep(w)
  BY <1>3, AckSelect, AckPost, AckUpdate, AckFault DEF LoopStep
<1>4. CASE \E w \in Workers : Crash(w) \/ \E d \in Deliveries : UpdateFails(w, d)
  BY <1>4, AckFault
<1> QED
  BY <1>1, <1>2, <1>3, <1>4 DEF Next

\* Only a request adds an acceptance, and there is none for an URL that is none.
LEMMA NoAckStep == TypeOK /\ NoAckInv /\ [Next]_vars => NoAckInv'
<1> SUFFICES ASSUME TypeOK, NoAckInv, [Next]_vars
             PROVE  NoAckInv'
  OBVIOUS
<1>1. CASE UNCHANGED acks
  BY <1>1 DEF NoAckInv
<1>2. CASE \E w \in Workers, c \in Deliveries : Post(w, c)
  BY <1>2, WebhookOutboxAssumption DEF Post, NoAckInv, TypeOK, Deliveries
<1>3. UNCHANGED acks \/ \E w \in Workers, c \in Deliveries : Post(w, c)
  BY DEF Next, LoopStep, Enqueue, DeleteRun, BackoffElapses, SelectBatch, NoRequest,
         UpdateDelivery, UpdateFails, Crash, vars, history
<1> QED
  BY <1>1, <1>2, <1>3

\* A receiver that accepted a delivery gets it again only if two workers had it
\* in their batches at once, or a crash or a failed UPDATE lost an acceptance of
\* this very delivery.
THEOREM AcceptedOnce == Spec => []SecondAckNeedsOverlap
<1>1. Init => AckInv /\ NoAckInv
  BY WebhookOutboxAssumption DEF Init, AckInv, NoAckInv, Lone, Accepted, Deliveries
<1>2. TypeOK /\ AckInv /\ NoAckInv => SecondAckNeedsOverlap
  BY DEF TypeOK, AckInv, NoAckInv, Accepted, SecondAckNeedsOverlap
<1> QED
  BY <1>1, <1>2, AckStep, NoAckStep, TypeCorrect, PTL DEF Spec
=============================================================================
