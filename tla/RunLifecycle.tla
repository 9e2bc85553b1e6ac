---------------------------- MODULE RunLifecycle ----------------------------
(***************************************************************************)
(* The life of a run in the production configuration (Postgres and Redis): *)
(* API-server handlers create, cancel and delete runs, workers claim and   *)
(* execute them, the cron loop submits runs of its own.                    *)
(*                                                                         *)
(* A step is one Postgres transaction or one Redis command: that is the    *)
(* granularity at which handlers and workers of different processes        *)
(* interleave.  The exception is createRun's transaction, which runs at    *)
(* READ COMMITTED and reads the active run of the thread before it acts on *)
(* it: the read and the commit are two steps.                              *)
(***************************************************************************)
EXTENDS Naturals, FiniteSetsExt

CONSTANTS
  Clients,        \* concurrent requests to the API server
  Workers,        \* worker processes; each executes one run at a time
  Threads,        \* thread ids clients use
  NoThread,       \* NULL thread_id of stateless and cron runs
  Strategies,     \* multitask strategies clients use
  CancelActions,  \* cancel actions clients use
  Hooks,          \* whether requests name a webhook: a set of BOOLEANs
  Outcomes,       \* statuses the runtime runner replies with, active ones too
  CronRuns,       \* TRUE when cron jobs are defined
  Faults,         \* what may fail: "store" statements on runs and cron executions,
                  \* "key" commands on the cancel key, "hook" enqueueWebhookForRun
  KeyExpiry,      \* TRUE when an execution may outlive the cancel key's TTL
  MaxRuns,        \* bound: rows ever inserted in runs
  MaxRequests,    \* bound: cancel and delete requests
  MaxWakes,       \* bound: sentinels in the wake-up list
  MaxCrashes,     \* bound: worker crashes
  MaxRequeues     \* bound: replies "pending" that are written

NoRun == 0
RunIds == 1..MaxRuns
Active == {"pending", "running"}
Terminal == {"success", "error", "timeout", "interrupted"}
NoRow == {"absent", "deleted"}

\* A runner's reply is none of the names that stand here for a missing row.
ASSUME RunLifecycleAssumption ==
  /\ NoThread \notin Threads
  /\ Strategies \subseteq {"reject", "interrupt", "rollback", "enqueue"}
  /\ CancelActions \subseteq {"interrupt", "rollback"}
  /\ Outcomes \subseteq STRING \ (NoRow \cup {"none"})
  /\ Faults \subseteq {"store", "key", "hook"}
  /\ {CronRuns, KeyExpiry} \subseteq BOOLEAN
  /\ Hooks \subseteq BOOLEAN
  /\ {MaxRuns, MaxRequests, MaxWakes, MaxCrashes, MaxRequeues} \subseteq Nat

Statuses == NoRow \cup Active \cup Terminal \cup Outcomes

VARIABLES
  \* Postgres
  threads,     \* ids in table threads
  status,      \* runs.status; "absent" before the insert, "deleted" after the delete
  thread,      \* runs.thread_id
  hook,        \* runs.webhook_url is set
  cronExec,    \* status of the cron_executions row that references the run
  deliveries,  \* number of webhook_deliveries rows of the run
  nextRun,     \* ids are handed out in created_at order
  \* Redis
  queue,       \* length of the wake-up list
  cancelKey,   \* cancel:<run> string
  \* API-server handlers in flight
  apc, areq, arun,
  \* workers: program counter, run in hand, status to write
  wpc, wrun, wres,
  \* history and bounds
  claims,      \* how many times a run was handed to a worker
  unwritten,   \* runs whose early failure could not be written
  abandoned,   \* runs left without an end: crash, failed UPDATE or DELETE
  unread,      \* runs whose last look at the cancel key failed
  unannounced, \* runs whose webhook could not be looked up or recorded
  requeued,    \* how many executions of a run were recorded as "pending"
  unended,     \* runs of which an execution was recorded as "running"
  requests, crashes

pgVars == <<threads, status, thread, hook, cronExec, deliveries, nextRun>>
redisVars == <<queue, cancelKey>>
apiVars == <<apc, areq, arun>>
workerVars == <<wpc, wrun, wres>>
replyVars == <<requeued, unended>>
lookVars == <<unread, unannounced>>
faultVars == <<crashes, unwritten, abandoned, replyVars, lookVars>>
boundVars == <<requests, faultVars>>
vars == <<pgVars, redisVars, apiVars, workerVars, claims, boundVars>>

CancelRequest(a) == [thread |-> NoThread, how |-> a, hook |-> FALSE, newThread |-> FALSE]
NoRequest == CancelRequest("none")
Requests == [thread : Threads \cup {NoThread},
             how : Strategies \cup CancelActions \cup {"none"},
             hook : BOOLEAN, newThread : BOOLEAN]
ApiSteps == {"idle", "insert", "wake", "persist", "cancel"}
WorkerSteps == {"idle", "start", "fail", "exec", "check", "rollback", "finish", "cron",
                 "hookread", "hookinsert", "release"}

TypeOK ==
  /\ threads \subseteq Threads
  /\ status \in [RunIds -> Statuses]
  /\ thread \in [RunIds -> Threads \cup {NoThread}]
  /\ hook \in [RunIds -> BOOLEAN]
  /\ cronExec \in [RunIds -> {"none", "queued", "rolled_back"} \cup Statuses]
  /\ deliveries \in [RunIds -> Nat]
  /\ nextRun \in 1..MaxRuns + 1
  /\ queue \in Nat
  /\ cancelKey \in [RunIds -> {"none"} \cup CancelActions]
  /\ apc \in [Clients -> ApiSteps]
  /\ areq \in [Clients -> Requests]
  /\ arun \in [Clients -> RunIds \cup {NoRun}]
  /\ wpc \in [Workers -> WorkerSteps]
  /\ wrun \in [Workers -> RunIds \cup {NoRun}]
  /\ wres \in [Workers -> {"none"} \cup Statuses]
  /\ claims \in [RunIds -> Nat]
  /\ unwritten \subseteq RunIds
  /\ abandoned \subseteq RunIds
  /\ unread \subseteq RunIds
  /\ unannounced \subseteq RunIds
  /\ requeued \in [RunIds -> Nat]
  /\ unended \subseteq RunIds
  /\ requests \in Nat
  /\ crashes \in Nat

Init ==
  /\ threads = {}
  /\ status = [r \in RunIds |-> "absent"]
  /\ thread = [r \in RunIds |-> NoThread]
  /\ hook = [r \in RunIds |-> FALSE]
  /\ cronExec = [r \in RunIds |-> "none"]
  /\ deliveries = [r \in RunIds |-> 0]
  /\ nextRun = 1
  /\ queue = 0
  /\ cancelKey = [r \in RunIds |-> "none"]
  /\ apc = [c \in Clients |-> "idle"]
  /\ areq = [c \in Clients |-> NoRequest]
  /\ arun = [c \in Clients |-> NoRun]
  /\ wpc = [w \in Workers |-> "idle"]
  /\ wrun = [w \in Workers |-> NoRun]
  /\ wres = [w \in Workers |-> "none"]
  /\ claims = [r \in RunIds |-> 0]
  /\ unwritten = {}
  /\ abandoned = {}
  /\ unread = {}
  /\ unannounced = {}
  /\ requeued = [r \in RunIds |-> 0]
  /\ unended = {}
  /\ requests = 0
  /\ crashes = 0

-----------------------------------------------------------------------------
(* Rows and foreign keys.                                                  *)

Exists(r) == status[r] \notin NoRow

\* Mutant: a schema without the foreign key of webhook_deliveries.
MutantDeletable(r) == cronExec[r] = "none"

\* webhook_deliveries.run_id and cron_executions.run_id reference runs
\* without ON DELETE: the row cannot go while one of them points at it.
Deletable(r) == deliveries[r] = 0 /\ cronExec[r] = "none"

\* Mutant: an upsert in place of the UPDATE.
MutantSetStatus(r, s) == status' = [status EXCEPT ![r] = s]

\* UPDATE runs SET status=... WHERE id=r: no guard on the old status, and no
\* error when the row is gone.
SetStatus(r, s) == status' = [status EXCEPT ![r] = IF Exists(r) THEN s ELSE @]

\* DELETE FROM runs WHERE id=r
RemoveRow(r) == status' = [status EXCEPT ![r] = IF Exists(r) THEN "deleted" ELSE @]

\* The oldest active run of a thread, as createRunInPostgres selects it.
ActiveRuns(t) == {r \in RunIds : thread[r] = t /\ status[r] \in Active}
IsOldestActive(r, t) ==
  \/ r = NoRun /\ ActiveRuns(t) = {}
  \/ r \in ActiveRuns(t) /\ \A q \in ActiveRuns(t) : r <= q

InsertRow(r, t, h) ==
  /\ thread' = [thread EXCEPT ![r] = t]
  /\ hook' = [hook EXCEPT ![r] = h]
  /\ nextRun' = nextRun + 1

-----------------------------------------------------------------------------
(* API server.  A handler is idle, or between two of its transactions.     *)

\* The handler of c is done: it answers and forgets the request.
Respond(c) ==
  /\ apc' = [apc EXCEPT ![c] = "idle"]
  /\ areq' = [areq EXCEPT ![c] = NoRequest]
  /\ arun' = [arun EXCEPT ![c] = NoRun]

\* createRunInPostgres, up to the SELECT of the active run: the thread is
\* inserted when missing, and strategy reject ends in 409 with nothing written.
CreateRunSelect(c, t, s, h) ==
  /\ apc[c] = "idle"
  /\ nextRun \in RunIds
  /\ \E r \in RunIds \cup {NoRun} :
       /\ IsOldestActive(r, t)
       /\ s = "reject" => r = NoRun
       /\ arun' = [arun EXCEPT ![c] = r]
  /\ areq' = [areq EXCEPT ![c] = [thread |-> t, how |-> s, hook |-> h,
                                  newThread |-> t \notin threads]]
  /\ apc' = [apc EXCEPT ![c] = "insert"]
  /\ UNCHANGED <<pgVars, redisVars, workerVars, claims, boundVars>>

\* What the strategy does to the run it selected, whatever has become of it.
Replaced(c) ==
  IF ~Exists(arun[c])                    THEN status[arun[c]]
  ELSE IF areq[c].how = "interrupt"      THEN "interrupted"
  ELSE IF areq[c].how = "rollback"       THEN "deleted"
  ELSE status[arun[c]]

\* A concurrent insert of the same thread, a concurrent delete of it (foreign
\* key of runs) or rows that reference the run to roll back abort the transaction.
CreateRunAborts(c) ==
  \/ areq[c].newThread <=> areq[c].thread \in threads
  \/ areq[c].how = "rollback" /\ arun[c] # NoRun /\ ~Deletable(arun[c])
  \/ nextRun \notin RunIds
  \/ "store" \in Faults

\* createRunInPostgres, from the strategy to the commit.
CreateRunCommit(c) ==
  /\ apc[c] = "insert"
  /\ ~(areq[c].newThread <=> areq[c].thread \in threads)
  /\ areq[c].how = "rollback" /\ arun[c] # NoRun => Deletable(arun[c])
  /\ nextRun \in RunIds
  /\ threads' = threads \cup {areq[c].thread}
  /\ status' = [r \in RunIds |-> IF r = nextRun      THEN "pending"
                                ELSE IF r = arun[c] THEN Replaced(c)
                                ELSE status[r]]
  /\ InsertRow(nextRun, areq[c].thread, areq[c].hook)
  /\ arun' = [arun EXCEPT ![c] = nextRun]
  /\ apc' = [apc EXCEPT ![c] = "wake"]
  /\ areq' = [areq EXCEPT ![c] = NoRequest]
  /\ UNCHANGED <<cronExec, deliveries, redisVars, workerVars, claims, boundVars>>

CreateRunAbort(c) ==
  /\ apc[c] = "insert"
  /\ CreateRunAborts(c)
  /\ Respond(c)
  /\ UNCHANGED <<pgVars, redisVars, workerVars, claims, boundVars>>

\* createStatelessRunInPostgres: one INSERT, no thread, no strategy.
CreateStatelessRun(c, h) ==
  /\ apc[c] = "idle"
  /\ nextRun \in RunIds
  /\ status' = [status EXCEPT ![nextRun] = "pending"]
  /\ InsertRow(nextRun, NoThread, h)
  /\ arun' = [arun EXCEPT ![c] = nextRun]
  /\ apc' = [apc EXCEPT ![c] = "wake"]
  /\ UNCHANGED <<threads, cronExec, deliveries, areq, redisVars, workerVars, claims, boundVars>>

\* LPUSH of the sentinel; its error is dropped, so the signal may be lost.
PushWake(c) ==
  /\ apc[c] = "wake"
  /\ queue' \in {n \in queue..queue + 1 : n <= MaxWakes}
  /\ apc' = [apc EXCEPT ![c] = "persist"]
  /\ UNCHANGED <<pgVars, cancelKey, areq, arun, workerVars, claims, boundVars>>

\* persistRunRequestInPostgres: a separate UPDATE of columns (input, metadata)
\* that nothing below depends on, failing or not; it locks the row.
PersistRequest(c) ==
  /\ apc[c] = "persist"
  /\ Respond(c)
  /\ UNCHANGED <<pgVars, redisVars, workerVars, claims, boundVars>>

\* cancelRun, first half: the key is set before anything is looked up; the
\* error of the SET is dropped.
CancelSignal(c, r, a) ==
  /\ apc[c] = "idle"
  /\ requests < MaxRequests
  /\ r < nextRun
  /\ \/ cancelKey' = [cancelKey EXCEPT ![r] = a]
     \/ "key" \in Faults /\ UNCHANGED cancelKey
  /\ areq' = [areq EXCEPT ![c] = CancelRequest(a)]
  /\ arun' = [arun EXCEPT ![c] = r]
  /\ apc' = [apc EXCEPT ![c] = "cancel"]
  /\ requests' = requests + 1
  /\ UNCHANGED <<pgVars, queue, workerVars, claims, faultVars>>

\* cancelRun, second half: cancelRunInPostgres.  A missing run is a 404, a
\* foreign key that holds the row is a 500; both leave the tables alone.
CancelTx(c) ==
  LET r == arun[c] IN
  /\ apc[c] = "cancel"
  /\ \/ areq[c].how = "interrupt" /\ SetStatus(r, "interrupted")
     \/ areq[c].how = "rollback" /\ Deletable(r) /\ RemoveRow(r)
     \/ /\ "store" \in Faults \/ (areq[c].how = "rollback" /\ ~Deletable(r))
        /\ UNCHANGED status
  /\ Respond(c)
  /\ UNCHANGED <<threads, thread, hook, cronExec, deliveries, nextRun,
                 redisVars, workerVars, claims, boundVars>>

\* deleteRunFromPostgres removes the deliveries first; a cron execution still
\* holds the row and turns the request into a 500.
DeleteRun(r) ==
  /\ requests < MaxRequests
  /\ Exists(r)
  /\ cronExec[r] = "none"
  /\ status' = [status EXCEPT ![r] = "deleted"]
  /\ deliveries' = [deliveries EXCEPT ![r] = 0]
  /\ requests' = requests + 1
  /\ UNCHANGED <<threads, thread, hook, cronExec, nextRun, redisVars,
                 apiVars, workerVars, claims, faultVars>>

\* deleteThreadFromPostgres: deliveries, runs and the thread in one transaction.
DeleteThread(t) ==
  /\ requests < MaxRequests
  /\ t \in threads
  /\ threads' = threads \ {t}
  /\ status' = [r \in RunIds |-> IF thread[r] = t /\ Exists(r) THEN "deleted" ELSE status[r]]
  /\ deliveries' = [r \in RunIds |-> IF thread[r] = t THEN 0 ELSE deliveries[r]]
  /\ requests' = requests + 1
  /\ UNCHANGED <<thread, hook, cronExec, nextRun, redisVars, apiVars,
                 workerVars, claims, faultVars>>

-----------------------------------------------------------------------------
(* Workers.                                                                *)

\* createRunForCron on some worker's cron loop: run and execution row commit
\* together.
CronSubmit ==
  /\ CronRuns
  /\ nextRun \in RunIds
  /\ status' = [status EXCEPT ![nextRun] = "pending"]
  /\ InsertRow(nextRun, NoThread, FALSE)
  /\ cronExec' = [cronExec EXCEPT ![nextRun] = "queued"]
  /\ queue' \in {n \in queue..queue + 1 : n <= MaxWakes}
  /\ UNCHANGED <<threads, deliveries, cancelKey, apiVars, workerVars, claims, boundVars>>

\* The fetch of w may find r locked.  A transaction in flight locks the run it is
\* about to write.  FOR UPDATE locks the joined assistant and deployment as well:
\* another fetch, or an INSERT that references the assistant, keeps w from any
\* run of theirs meanwhile.
Locked(w, r) ==
  \/ \E c \in Clients : arun[c] = r /\ apc[c] \in {"persist", "cancel"}
  \/ \E c \in Clients : apc[c] = "insert"
  \/ \E v \in Workers \ {w} : wpc[v] = "idle"

\* Mutant: the claim commits without marking the row.
MutantClaim(w, r) ==
  /\ status[r] = "pending"
  /\ claims' = [claims EXCEPT ![r] = @ + 1]
  /\ wrun' = [wrun EXCEPT ![w] = r]
  /\ wpc' = [wpc EXCEPT ![w] = "start"]
  /\ UNCHANGED <<pgVars, cancelKey, apiVars, wres, boundVars>>

\* fetchNextPendingRun: FOR UPDATE SKIP LOCKED takes the oldest pending row
\* whose lock is free, or a locked one if the lock is released in time.
Claim(w, r) ==
  /\ status[r] = "pending"
  /\ \A q \in RunIds : q < r /\ status[q] = "pending" => Locked(w, q)
  /\ status' = [status EXCEPT ![r] = "running"]
  /\ claims' = [claims EXCEPT ![r] = @ + 1]
  /\ wrun' = [wrun EXCEPT ![w] = r]
  /\ wpc' = [wpc EXCEPT ![w] = "start"]
  /\ UNCHANGED <<threads, thread, hook, cronExec, deliveries, nextRun,
                 cancelKey, apiVars, wres, boundVars>>

\* runWakeupLoop: BLPOP returns a sentinel, then one run is fetched.
ClaimOnWake(w, r) ==
  /\ wpc[w] = "idle"
  /\ queue > 0
  /\ queue' = queue - 1
  /\ Claim(w, r)

\* Mutant: no fallback poll.
MutantClaimOnTimeout(w, r) == FALSE /\ UNCHANGED vars

\* runWakeupLoop: BLPOP timed out on an empty list; the fallback poll.
ClaimOnTimeout(w, r) ==
  /\ wpc[w] = "idle"
  /\ queue = 0
  /\ UNCHANGED queue
  /\ Claim(w, r)

\* A sentinel whose run is gone, taken already or locked: the fetch finds no row.
\* It may also fail; the sentinel is spent all the same.
WakeForNothing(w) ==
  /\ wpc[w] = "idle"
  /\ queue > 0
  /\ "store" \in Faults \/ \A r \in RunIds : status[r] = "pending" => Locked(w, r)
  /\ queue' = queue - 1
  /\ UNCHANGED <<pgVars, cancelKey, apiVars, workerVars, claims, boundVars>>

\* Worker w moves to step s; the helper of executeRun's steps below.
GoTo(w, s) == wpc' = [wpc EXCEPT ![w] = s]
Result(w, s) == wres' = [wres EXCEPT ![w] = s]
OnlyWorker == UNCHANGED <<pgVars, redisVars, apiVars, wrun, claims, requests, crashes,
                          unwritten, abandoned, replyVars>>
OnlyStatus == UNCHANGED <<threads, thread, hook, cronExec, deliveries, nextRun,
                          redisVars, apiVars, wrun, wres, claims, requests, crashes, lookVars>>

\* The run in the hand of w.
Held(w) == {r \in RunIds : wrun[w] = r}

\* updateCronExecutionStatus changes nothing for the run of a client.
AfterResult(r) == IF cronExec[r] = "none" THEN "hookread" ELSE "cron"

\* Mutant: the failure path returns without enqueueing the webhook.
MutantFailEarly(w) ==
  /\ wpc[w] = "fail"
  /\ SetStatus(wrun[w], wres[w])
  /\ GoTo(w, "release")
  /\ UNCHANGED <<unwritten, abandoned, replyVars>>
  /\ OnlyStatus

\* updateRunResult on that path: its error is dropped and the path goes on.
FailEarly(w) ==
  /\ wpc[w] = "fail"
  /\ \/ SetStatus(wrun[w], wres[w]) /\ UNCHANGED unwritten
     \/ "store" \in Faults /\ UNCHANGED status /\ unwritten' = unwritten \cup Held(w)
  /\ GoTo(w, AfterResult(wrun[w]))
  /\ UNCHANGED <<abandoned, replyVars>>
  /\ OnlyStatus

\* currentCancelAction: a GET that fails reads as a key that is not there.
KeyRead(w) == {cancelKey[wrun[w]]} \cup (IF "key" \in Faults THEN {"none"} ELSE {})

\* Where the key it read takes the worker, else "next".
OnCancelKey(w, key, next) ==
  /\ GoTo(w, CASE key = "rollback"  -> "rollback"
               [] key = "interrupt" -> "finish"
               [] OTHER             -> next)
  /\ IF key = "interrupt" THEN Result(w, "interrupted") ELSE UNCHANGED wres

\* Start of executeRun.  Sandbox allocation or decryption of the deployment's
\* environment may fail before the cancel key is looked at for the first time.
Begin(w) ==
  /\ wpc[w] = "start"
  /\ \/ GoTo(w, "fail") /\ Result(w, "error")
     \/ \E key \in KeyRead(w) : OnCancelKey(w, key, "exec")
  /\ UNCHANGED lookVars
  /\ OnlyWorker

\* Mutant: an empty status in the reply is not replaced.
MutantExecute(w) ==
  /\ wpc[w] = "exec"
  /\ \E s \in Outcomes \cup {"error", ""} : Result(w, s)
  /\ GoTo(w, "check")
  /\ UNCHANGED lookVars
  /\ OnlyWorker

\* executor.Execute: the runner's status as it came, whichever the graph has
\* returned, and "error" on a failed call.
Execute(w) ==
  /\ wpc[w] = "exec"
  /\ \E s \in Outcomes \cup {"error"} :
       /\ s = "pending" => MapThenSumSet(LAMBDA r : requeued[r], RunIds) < MaxRequeues
       /\ Result(w, s)
  /\ GoTo(w, "check")
  /\ UNCHANGED lookVars
  /\ OnlyWorker

\* Mutant: the cancel key is not looked at again.
MutantCheckAfter(w) ==
  /\ wpc[w] = "check"
  /\ GoTo(w, "finish")
  /\ UNCHANGED <<wres, lookVars>>
  /\ OnlyWorker

\* The second and last look at the cancel key, after the execution.
CheckAfter(w) ==
  /\ wpc[w] = "check"
  /\ \E key \in KeyRead(w) :
       /\ OnCancelKey(w, key, "finish")
       /\ unread' = IF key = cancelKey[wrun[w]] THEN unread ELSE unread \cup Held(w)
  /\ UNCHANGED unannounced
  /\ OnlyWorker

\* Mutant: the transaction is never committed.
MutantRollbackRun(w) ==
  /\ wpc[w] = "rollback"
  /\ GoTo(w, "release")
  /\ UNCHANGED <<status, unwritten, abandoned, replyVars>>
  /\ OnlyStatus

\* rollbackRun; when it fails executeRun returns at once.  When it succeeds no
\* execution row references the run, so the status update that follows is void.
\* A delivery that is in its way is of an earlier execution.
RollbackRun(w) ==
  /\ wpc[w] = "rollback"
  /\ \/ Deletable(wrun[w]) /\ RemoveRow(wrun[w]) /\ UNCHANGED abandoned
     \/ /\ ~Deletable(wrun[w])
        /\ UNCHANGED status
        /\ abandoned' = abandoned \cup {r \in Held(w) : cronExec[r] # "none" \/ requeued[r] > 0}
     \/ "store" \in Faults /\ UNCHANGED status /\ abandoned' = abandoned \cup Held(w)
  /\ GoTo(w, "release")
  /\ UNCHANGED <<unwritten, replyVars>>
  /\ OnlyStatus

\* History of a result that leaves the run active.
RecordReply(w) ==
  /\ requeued' = [r \in RunIds |->
       requeued[r] + IF r \in Held(w) /\ Exists(r) /\ wres[w] = "pending" THEN 1 ELSE 0]
  /\ unended' = unended \cup {r \in Held(w) : wres[w] = "running"}

\* Mutant: the error of updateRunResult is dropped.
MutantFinish(w) ==
  /\ wpc[w] = "finish"
  /\ \/ SetStatus(wrun[w], wres[w]) /\ RecordReply(w) /\ UNCHANGED abandoned
     \/ /\ "store" \in Faults
        /\ UNCHANGED <<status, replyVars>>
        /\ abandoned' = abandoned \cup Held(w)
  /\ GoTo(w, AfterResult(wrun[w]))
  /\ UNCHANGED unwritten
  /\ OnlyStatus

\* updateRunResult at the end of an execution: the status goes into the row as it
\* is, an active one too; an error skips all that follows.
Finish(w) ==
  /\ wpc[w] = "finish"
  /\ \/ /\ SetStatus(wrun[w], wres[w])
        /\ RecordReply(w)
        /\ GoTo(w, AfterResult(wrun[w]))
        /\ UNCHANGED abandoned
     \/ /\ "store" \in Faults
        /\ UNCHANGED <<status, replyVars>>
        /\ GoTo(w, "release")
        /\ abandoned' = abandoned \cup Held(w)
  /\ UNCHANGED unwritten
  /\ OnlyStatus

\* updateCronExecutionStatus
UpdateCronExecution(w) ==
  LET r == wrun[w] IN
  /\ wpc[w] = "cron"
  /\ \/ cronExec' = [cronExec EXCEPT ![r] = wres[w]]
     \/ "store" \in Faults /\ UNCHANGED cronExec
  /\ GoTo(w, "hookread")
  /\ UNCHANGED <<threads, status, thread, hook, deliveries, nextRun,
                 redisVars, apiVars, wrun, wres, claims, boundVars>>

\* enqueueWebhookForRun reads the row, then looks for a delivery.
ReadWebhook(w) ==
  LET r == wrun[w] IN
  /\ wpc[w] = "hookread"
  /\ \/ /\ GoTo(w, IF Exists(r) /\ hook[r] /\ deliveries[r] = 0 THEN "hookinsert" ELSE "release")
        /\ UNCHANGED unannounced
     \/ /\ "hook" \in Faults
        /\ GoTo(w, "release")
        /\ unannounced' = unannounced \cup Held(w)
  /\ UNCHANGED <<wres, unread>>
  /\ OnlyWorker

\* Its INSERT fails when the row is gone by now (foreign key).
InsertDelivery(w) ==
  LET r == wrun[w] IN
  /\ wpc[w] = "hookinsert"
  /\ \/ /\ deliveries' = [deliveries EXCEPT ![r] = IF Exists(r) THEN @ + 1 ELSE @]
        /\ UNCHANGED unannounced
     \/ /\ "hook" \in Faults
        /\ UNCHANGED deliveries
        /\ unannounced' = unannounced \cup Held(w)
  /\ GoTo(w, "release")
  /\ UNCHANGED <<threads, status, thread, hook, cronExec, nextRun,
                 redisVars, apiVars, wrun, wres, claims, requests, crashes,
                 unwritten, abandoned, replyVars, unread>>

\* The deferred DEL of the cancel key, its error dropped; the worker is free.
Release(w) ==
  /\ wpc[w] = "release"
  /\ \/ cancelKey' = [cancelKey EXCEPT ![wrun[w]] = "none"]
     \/ "key" \in Faults /\ UNCHANGED cancelKey
  /\ wrun' = [wrun EXCEPT ![w] = NoRun]
  /\ Result(w, "none")
  /\ GoTo(w, "idle")
  /\ UNCHANGED <<pgVars, queue, apiVars, claims, boundVars>>

\* The process dies and comes back; nothing records what it was executing.
Crash(w) ==
  /\ crashes < MaxCrashes
  /\ wpc[w] # "idle"
  /\ crashes' = crashes + 1
  /\ abandoned' = abandoned \cup Held(w)
  /\ wrun' = [wrun EXCEPT ![w] = NoRun]
  /\ Result(w, "none")
  /\ GoTo(w, "idle")
  /\ UNCHANGED <<pgVars, redisVars, apiVars, claims, requests, unwritten, replyVars, lookVars>>

\* The cancel key's TTL (10 minutes) runs out during an execution, the one step
\* that may take longer: the executor's own timeout is 15 minutes.
ExpireCancelKey(r) ==
  /\ KeyExpiry
  /\ \E w \in Workers : wrun[w] = r /\ wpc[w] = "exec"
  /\ cancelKey[r] # "none"
  /\ cancelKey' = [cancelKey EXCEPT ![r] = "none"]
  /\ UNCHANGED <<pgVars, queue, apiVars, workerVars, claims, boundVars>>

-----------------------------------------------------------------------------
\* A handler that has started runs to its end.
HandlerStep(c) == \/ CreateRunCommit(c) \/ CreateRunAbort(c)
                  \/ PushWake(c) \/ PersistRequest(c) \/ CancelTx(c)

Request(c) ==
  \/ \E t \in Threads, s \in Strategies, h \in Hooks : CreateRunSelect(c, t, s, h)
  \/ \E h \in Hooks : CreateStatelessRun(c, h)
  \/ \E r \in RunIds, a \in CancelActions : CancelSignal(c, r, a)

Fetch(w) == \/ \E r \in RunIds : ClaimOnWake(w, r) \/ ClaimOnTimeout(w, r)
            \/ WakeForNothing(w)

\* A worker with a run in hand executes executeRun to its end.
ExecuteStep(w) ==
  \/ Begin(w) \/ FailEarly(w) \/ Execute(w) \/ CheckAfter(w)
  \/ RollbackRun(w) \/ Finish(w) \/ UpdateCronExecution(w)
  \/ ReadWebhook(w) \/ InsertDelivery(w) \/ Release(w)

Next ==
  \/ \E c \in Clients : Request(c) \/ HandlerStep(c)
  \/ \E r \in RunIds : DeleteRun(r) \/ ExpireCancelKey(r)
  \/ \E t \in Threads : DeleteThread(t)
  \/ CronSubmit
  \/ \E w \in Workers : Fetch(w) \/ ExecuteStep(w) \/ Crash(w)

Spec == Init /\ [][Next]_vars

\* Go schedules every goroutine and the executor call has a timeout; nothing
\* obliges clients to send requests, cron to be due or a worker to crash.
Fairness ==
  /\ \A c \in Clients : WF_vars(HandlerStep(c))
  /\ \A w \in Workers : WF_vars(Fetch(w)) /\ WF_vars(ExecuteStep(w))

FairSpec == Spec /\ Fairness

-----------------------------------------------------------------------------
(* Properties: what holds.                                                 *)

\* The run in the hand of w is being executed: its result is not recorded yet.
Executing(w) == wpc[w] \in {"start", "fail", "exec", "check", "rollback", "finish"}

\* No two workers ever execute the same run at the same time, and a run is handed
\* out once, and once more for every execution that was recorded as "pending",
\* however wake-ups are lost, doubled or raced (fetchNextPendingRun is the only
\* mutual exclusion between workers).
AtMostOnceExecution ==
  /\ \A r \in RunIds : claims[r] <= 1 + requeued[r]
  /\ \A v, w \in Workers : Executing(v) /\ Executing(w) /\ wrun[v] = wrun[w] => v = w

\* One finished run gets at most one webhook delivery row, although the
\* existence check and the INSERT of enqueueWebhookForRun are two statements;
\* of a run recorded as "pending" two workers may be at that place at once.
OneDeliveryPerRun == \A r \in RunIds : deliveries[r] <= 1 \/ requeued[r] > 0

\* No delivery row announces a run that is still pending or running, whatever
\* fails elsewhere, but for a run whose own runner replied so, and one whose own
\* early failure could not be written: executeRun drops that one error and goes
\* on to the delivery.
DeliveryMeansFinished ==
  \A r \in RunIds : deliveries[r] > 0 =>
    \/ status[r] \notin Active
    \/ r \in unwritten \cup unended \/ requeued[r] > 0

\* Deliveries and cron executions always reference an existing run, whichever
\* of the five ways to remove a run was taken.
ReferencesResolve ==
  \A r \in RunIds : deliveries[r] > 0 \/ cronExec[r] # "none" => Exists(r)

\* A running row has a worker that is executing it, unless that run's own worker
\* died with it, could not write its end, was refused its rollback (a cron run,
\* or one with a delivery of an earlier execution), or was told "running" by the
\* runner: no interleaving of requests, and no fault of another run, leaves it
\* behind.
RunningHasWorker ==
  \A r \in RunIds : status[r] = "running" =>
    \/ \E w \in Workers : wrun[w] = r /\ Executing(w)
    \/ r \in unwritten \cup abandoned \cup unended

\* The runs table implements the abstract life of a run.
Abstract == INSTANCE RunSpec WITH
  Outcomes <- Outcomes \cup {"error", "interrupted"},
  state <- status, starts <- claims, returns <- requeued
ImplementsRunSpec == Abstract!Spec

\* A pending run is always picked up or removed, even if every wake-up is lost:
\* the fallback poll of runWakeupLoop keeps execution progressing.
PendingIsTaken == \A r \in RunIds : status[r] = "pending" ~> status[r] # "pending"

\* A run whose request named a webhook and that was handed to a worker ends
\* with a delivery row, also if its early failure could not be written, unless
\* it is removed, its worker dies with it or cannot write its end, or the very
\* statements of enqueueWebhookForRun fail (on every path of executeRun).
WebhookIsRecorded ==
  \A r \in RunIds : hook[r] /\ status[r] = "running"
                       ~> deliveries[r] > 0 \/ ~Exists(r) \/ r \in abandoned \cup unannounced

\* A cancel whose key is set while the worker has not yet passed its last look
\* at it is honoured: the run never ends as a success, unless that last look
\* failed.  The first look may fail, the second makes up for it.  (A run that was
\* recorded as "pending" and handed out again may have its key removed by the
\* worker that had it before.)
BeforeLastCheck == {"start", "exec", "check"}
CancelIsHonoured ==
  \A r \in RunIds, w \in Workers :
    wrun[w] = r /\ wpc[w] \in BeforeLastCheck /\ cancelKey[r] # "none"
      ~> [](status[r] # "success") \/ r \in unread \/ requeued[r] > 0

-----------------------------------------------------------------------------
(* Properties: what the documents promise and the code does not keep.      *)

\* prd.md 11.5: the worker enforces per-thread single concurrency.
PerThreadSingleConcurrency ==
  \A t \in Threads : Cardinality({r \in RunIds : thread[r] = t /\ status[r] = "running"}) <= 1
=============================================================================
