---------------------------- MODULE WebhookOutbox ----------------------------
(***************************************************************************)
(* The webhook outbox: rows of webhook_deliveries that executeRun inserts, *)
(* drained by the webhook loop of every worker process.  The loop selects  *)
(* a batch without locking it, posts each item and writes the outcome back *)
(* by id, computed from the attempts it read with the batch.               *)
(*                                                                         *)
(* A step is one SQL statement or one HTTP request.  Time is abstract: a   *)
(* retry row is ready once its backoff has elapsed.                        *)
(***************************************************************************)
EXTENDS Naturals, FiniteSets

CONSTANTS
  Workers,         \* worker processes, each with one webhook loop
  MaxDeliveries,   \* bound: rows ever inserted, numbered by created_at
  BatchLimit,      \* LIMIT of the query
  MaxAttempts,     \* WEBHOOK_MAX_ATTEMPTS
  Unusable,        \* rows whose URL http.NewRequest cannot parse; nobody checks it
  MaxFaults        \* bound: crashes and failing UPDATEs

ASSUME WebhookOutboxAssumption ==
  /\ {MaxDeliveries, MaxFaults} \subseteq Nat
  /\ {BatchLimit, MaxAttempts} \subseteq Nat \ {0}
  /\ Unusable \subseteq 1..MaxDeliveries

Deliveries == 1..MaxDeliveries
Settled == {"success", "dead_letter", "deleted"}

VARIABLES
  status,     \* webhook_deliveries.status; "absent" and "deleted" when there is no row
  attempts,   \* webhook_deliveries.attempts
  ready,      \* the backoff since updated_at has elapsed
  batch,      \* per worker: the rows of its batch still to be delivered
  read,       \* per worker: the attempts it read with the batch
  wpc,        \* per worker: "idle", "post", "update"
  ok,         \* per worker: the receiver answered 2xx
  posts, acks,  \* history: requests made, counted up to MaxAttempts, and requests
                \* answered with 2xx, counted up to two
  overlap,    \* history: deliveries to be posted that were in two batches at once
  lost,       \* history: deliveries with an acceptance that was never written
  faults

table == <<status, attempts, ready>>
loop == <<batch, read, wpc, ok>>
history == <<posts, acks, overlap, lost, faults>>
vars == <<table, loop, history>>

TypeOK ==
  /\ status \in [Deliveries -> {"absent", "pending", "retry"} \cup Settled]
  /\ attempts \in [Deliveries -> 0..MaxAttempts]
  /\ ready \in [Deliveries -> BOOLEAN]
  /\ batch \in [Workers -> SUBSET Deliveries]
  /\ read \in [Workers -> [Deliveries -> 0..MaxAttempts - 1]]
  /\ wpc \in [Workers -> {"idle", "post", "update"}]
  /\ ok \in [Workers -> BOOLEAN]
  /\ posts \in [Deliveries -> 0..MaxAttempts]
  /\ acks \in [Deliveries -> 0..2]
  /\ overlap \subseteq Deliveries
  /\ lost \subseteq Deliveries
  /\ faults \in 0..MaxFaults

Init ==
  /\ status = [d \in Deliveries |-> "absent"]
  /\ attempts = [d \in Deliveries |-> 0]
  /\ ready = [d \in Deliveries |-> TRUE]
  /\ batch = [w \in Workers |-> {}]
  /\ read = [w \in Workers |-> [d \in Deliveries |-> 0]]
  /\ wpc = [w \in Workers |-> "idle"]
  /\ ok = [w \in Workers |-> FALSE]
  /\ posts = [d \in Deliveries |-> 0]
  /\ acks = [d \in Deliveries |-> 0]
  /\ overlap = {}
  /\ lost = {}
  /\ faults = 0

-----------------------------------------------------------------------------
(* Around the outbox.                                                      *)

\* enqueueWebhookForRun, called once per run (see RunLifecycle).
Enqueue(d) ==
  /\ status[d] = "absent"
  /\ \A e \in 1..d - 1 : status[e] # "absent"
  /\ status' = [status EXCEPT ![d] = "pending"]
  /\ UNCHANGED <<attempts, ready, loop, history>>

\* deleteRunFromPostgres, deleteThreadFromPostgres: the delivery goes with its run,
\* and its columns with it.
DeleteRun(d) ==
  /\ status[d] # "absent"
  /\ status' = [status EXCEPT ![d] = "deleted"]
  /\ attempts' = [attempts EXCEPT ![d] = 0]
  /\ ready' = [ready EXCEPT ![d] = TRUE]
  /\ UNCHANGED <<loop, history>>

\* backoffDuration(attempts) has passed since the row was last written.
BackoffElapses(d) ==
  /\ status[d] = "retry"
  /\ ~ready[d]
  /\ ready' = [ready EXCEPT ![d] = TRUE]
  /\ UNCHANGED <<status, attempts, loop, history>>

-----------------------------------------------------------------------------
(* The webhook loop of worker w.                                           *)

\* Mutant: the query forgets the rows to be retried.
MutantOpen == {d \in Deliveries : status[d] = "pending"}

\* Mutant: the query asks only that the row is not given up.
MutantOpenAll == {d \in Deliveries : status[d] \in {"pending", "retry", "success"}}

Open == {d \in Deliveries : status[d] \in {"pending", "retry"}}

\* ORDER BY created_at LIMIT: the limit counts the rows in backoff too.
Selected == {d \in Open : Cardinality({e \in Open : e < d}) < BatchLimit}

\* The selected rows whose backoff, if any, is over.
Due == {d \in Selected : status[d] = "retry" => ready[d]}

\* Mutant: the attempt is counted when the row is read and again when it is written.
MutantAttemptsRead == [d \in Deliveries |-> IF d \in Due THEN attempts[d] + 1 ELSE 0]

\* The attempts read with the due rows; 0 stands for the rows that were not read.
AttemptsRead == [d \in Deliveries |-> IF d \in Due THEN attempts[d] ELSE 0]

\* processWebhookOutbox: the query and the backoff filter.
SelectBatch(w) ==
  /\ wpc[w] = "idle"
  /\ Due # {}
  /\ batch' = [batch EXCEPT ![w] = Due]
  /\ read' = [read EXCEPT ![w] = AttemptsRead]
  /\ wpc' = [wpc EXCEPT ![w] = "post"]
  /\ overlap' = overlap \cup {d \in Due \ Unusable : \E v \in Workers \ {w} : d \in batch[v]}
  /\ UNCHANGED <<table, ok, posts, acks, lost, faults>>

\* d is the item the loop over the batch has come to: items are in created_at order.
Current(w, d) == d \in batch[w] /\ \A e \in batch[w] : d <= e

\* One more, where counting goes no further than m.
CountUpTo(n, m) == IF n < m THEN n + 1 ELSE n

\* deliverWebhook reads the run's status for the payload and posts: the request
\* may fail, time out, or be answered with any code.  The payload is left out.
Post(w, d) ==
  /\ wpc[w] = "post"
  /\ Current(w, d)
  /\ d \notin Unusable
  /\ posts' = [posts EXCEPT ![d] = CountUpTo(@, MaxAttempts)]
  /\ \E answer \in BOOLEAN :
       /\ ok' = [ok EXCEPT ![w] = answer]
       /\ acks' = [acks EXCEPT ![d] = IF answer THEN CountUpTo(@, 2) ELSE @]
  /\ wpc' = [wpc EXCEPT ![w] = "update"]
  /\ UNCHANGED <<table, batch, read, overlap, lost, faults>>

\* On to the item after d, or the end of the tick.
NextItem(w, d) ==
  /\ batch' = [batch EXCEPT ![w] = @ \ {d}]
  /\ wpc' = [wpc EXCEPT ![w] = IF batch[w] = {d} THEN "idle" ELSE "post"]
  /\ read' = [read EXCEPT ![w][d] = 0]
  /\ ok' = [ok EXCEPT ![w] = FALSE]

\* deliverWebhook can make no request for the URL: it returns the error, which is
\* logged, and leaves the row as it is, for the next tick to select again.
NoRequest(w, d) ==
  /\ wpc[w] = "post"
  /\ Current(w, d)
  /\ d \in Unusable
  /\ NextItem(w, d)
  /\ UNCHANGED <<table, history>>

\* Mutant: the last attempt is given up before it is made.
MutantOutcome(w, n) == IF ok[w] THEN "success"
                       ELSE IF n + 1 >= MaxAttempts THEN "dead_letter" ELSE "retry"

\* The new status after n attempts.
Outcome(w, n) == IF ok[w] THEN "success"
                 ELSE IF n >= MaxAttempts THEN "dead_letter" ELSE "retry"

\* deliverWebhook's UPDATE, by id: no guard on what the row holds by now.
WriteOutcome(w, d) ==
  IF status[d] = "deleted" THEN UNCHANGED table
  ELSE /\ status' = [status EXCEPT ![d] = Outcome(w, read[w][d] + 1)]
       /\ attempts' = [attempts EXCEPT ![d] = read[w][d] + 1]
       /\ ready' = [ready EXCEPT ![d] = FALSE]

UpdateDelivery(w, d) ==
  /\ wpc[w] = "update"
  /\ Current(w, d)
  /\ WriteOutcome(w, d)
  /\ NextItem(w, d)
  /\ UNCHANGED history

\* The accepted delivery whose outcome only w knows: it is not in the table yet.
Unrecorded(w) == {d \in Deliveries : wpc[w] = "update" /\ Current(w, d) /\ ok[w]}

\* The UPDATE fails: the error is logged, the batch goes on.
UpdateFails(w, d) ==
  /\ wpc[w] = "update"
  /\ Current(w, d)
  /\ faults < MaxFaults
  /\ faults' = faults + 1
  /\ lost' = lost \cup Unrecorded(w)
  /\ NextItem(w, d)
  /\ UNCHANGED <<table, posts, acks, overlap>>

\* The process dies and comes back with no batch.
Crash(w) ==
  /\ wpc[w] # "idle"
  /\ faults < MaxFaults
  /\ faults' = faults + 1
  /\ lost' = lost \cup Unrecorded(w)
  /\ batch' = [batch EXCEPT ![w] = {}]
  /\ read' = [read EXCEPT ![w] = [d \in Deliveries |-> 0]]
  /\ wpc' = [wpc EXCEPT ![w] = "idle"]
  /\ ok' = [ok EXCEPT ![w] = FALSE]
  /\ UNCHANGED <<table, posts, acks, overlap>>

-----------------------------------------------------------------------------
LoopStep(w) ==
  \/ SelectBatch(w)
  \/ \E d \in Deliveries : Post(w, d) \/ NoRequest(w, d) \/ UpdateDelivery(w, d)

Next ==
  \/ \E d \in Deliveries : Enqueue(d) \/ DeleteRun(d) \/ BackoffElapses(d)
  \/ \E w \in Workers :
       LoopStep(w) \/ Crash(w) \/ \E d \in Deliveries : UpdateFails(w, d)

Spec == Init /\ [][Next]_vars

\* The ticker of every worker fires, the HTTP client has a timeout, time passes.
FairSpec ==
  /\ Spec
  /\ \A w \in Workers : WF_vars(LoopStep(w))
  /\ \A d \in Deliveries : WF_vars(BackoffElapses(d))

-----------------------------------------------------------------------------
(* Properties.                                                             *)

\* attempts never counts a request that was not made, though it is written from
\* a value read before the request, by several workers, over each other.
AttemptsWereMade == \A d \in Deliveries : attempts[d] <= posts[d]

\* A delivery is given up only after MaxAttempts requests, and called a success
\* only if the receiver accepted one.
OutcomeIsEarned ==
  \A d \in Deliveries :
    /\ status[d] = "dead_letter" => posts[d] >= MaxAttempts
    /\ status[d] = "success" => acks[d] >= 1

\* A receiver that accepted a delivery gets it again only if two workers had it
\* in their batches at the same time, or a crash or a failed UPDATE lost an
\* acceptance of this very delivery.
SecondAckNeedsOverlap ==
  \A d \in Deliveries : acks[d] > 1 => d \in overlap \cup lost

\* Every delivery whose URL is one is settled for good in the end: older rows in
\* backoff fill the LIMIT, and workers overwrite each other's outcomes, but only for
\* so long.  The rows whose URL is none stay pending and take their places in every
\* batch: as many of them as the LIMIT, and nothing younger is delivered any more.
DeliveriesSettle ==
  Cardinality(Unusable) < BatchLimit =>
    \A d \in Deliveries \ Unusable : status[d] = "pending" ~> [](status[d] \in Settled)
=============================================================================
