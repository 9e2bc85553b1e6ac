# TLA+ models and proofs for langopen

langopen is a self-hosted platform for LangGraph agents: an API server and a
control plane in Go over Postgres and Redis, workers that execute runs, a
builder, a Kubernetes operator, and a Python process that executes the graphs.
This directory holds TLA+ modules of the parts where processes meet over shared
state, TLC configurations that check them on small instances, and TLAPS proofs
of the results that matter most, for every value of the constants. Definitions
keep the names of the functions they model; `PROJECT.json` maps each of them to
its lines.

    tlc -workers 2 -config run_safety.cfg MCRunLifecycle
    tlapm RunLifecycleProofs.tla

## 1. The system

| component | source | state it keeps | operations that change it |
|---|---|---|---|
| API server: runs | `services/api-server/internal/server/server.go` | `runs`, `threads` (Postgres); `cancel:<run>` keys, wake-up list (Redis) | create, stream, wait, stateless and batch create; cancel; delete run; delete thread |
| API server: streams | same | PubSub channel and replay buffer per run (Redis); events in memory; connections | create with stream, join, resume, load, forward, close |
| API server: the rest | same | `assistants`, `threads`, thread state, `store_items`, `cron_jobs` | CRUD; A2A and MCP endpoints over the run functions |
| worker: queue | `services/worker/internal/engine/engine.go` | the run in hand | wake-up or fallback poll, claim, execute, cancel look-ups, rollback, result, webhook enqueue |
| worker: webhook loop | same | `webhook_deliveries` | batch, POST, outcome, backoff |
| worker: cron loop | same | `cron_executions`, `runs` | list due jobs, catch up, submit a run |
| runtime runner | `services/runtime-runner/app.py` | graph cache, process environment | execute a graph, return status, output and events |
| control plane | `services/control-plane/internal/httpapi/httpapi.go` | `deployments`, `deployment_revisions`, `builds`, keys, secrets, variables, audit log; the `AgentDeployment` resource | create, update, roll back, set policy, delete, build |
| builder | `services/builder/internal/api/api.go`, `.../langgraph` | builds in memory and in table `builds`; Kubernetes jobs | validate, trigger, refresh, logs |
| operator | `services/operator/internal/controllers` | Deployments, Services, policies, sandbox resources of the cluster | reconcile |
| portal, Helm chart, tests | `portal`, `deploy`, `tests` | none the system depends on | |

**How they interact.** The API server commits a run as `pending`, pushes a
sentinel on a Redis list and stores the request's input in a later statement.
Several workers (the chart runs two) pop sentinels, or poll when none comes, and
claim the oldest pending row with `FOR UPDATE SKIP LOCKED`. The worker posts the
run to the runner, publishes its events on a Redis channel, appends them to a
list if the stream is resumable, writes the result by id and inserts a webhook
delivery. Cancel sets a Redis key, which the worker looks at before and after
the execution, and then updates or deletes the row. Rows are removed by five
handlers while workers hold their ids. Every worker also runs a webhook loop and
a cron loop over the same tables with no lock between them. The control plane
writes a deployment row and then the custom resource from the handler's copy of
it; the operator makes the cluster match the resource.

**What makes it hard.** Nearly every step is a separate SQL statement or Redis
command; what a process read is used after others have written. The only mutual
exclusion between workers is the claim. Redis is best effort. Processes die and
leave no record of what they were doing. Outcomes are written by id, without a
guard on what the row holds by then. Foreign keys turn some requests into
errors halfway. `PROJECT.json` lists these as hazards, each at its line, with the
property that would catch it going wrong or the reason none does.

**What makes each part correct.**

* runs: no two workers execute a run at once, and it is handed out once, unless the
  graph itself reports it pending again; its row moves only along the run's life;
  references from deliveries and cron executions resolve; a run that is pending is
  taken, a cancel set in time is honoured if its key can be read, a webhook recorded.
* streams: a client gets no event twice or out of order over all its connections, of a
  run it has not created with its stream (`createRunStream` numbers an event itself, and
  the worker may give that number again); the buffer is what was emitted, until it expires
  after the end; the end reaches who listens.
* outbox: attempts are requests made; given up only after the last attempt; a
  second acceptance needs a race or a fault; every delivery to a usable URL settles, as
  long as the unusable ones do not fill the LIMIT.
* cron: a slot is dispatched once but for a race; slots are not skipped; a
  deleted job has no execution; a backlog is worked off, if the schedule parses and stays.
* control plane: a request that is alone leaves the custom resource as the row wants
  it, whatever overlapping or failing requests had left; a revision holds an image the
  deployment has had; an older copy of the row does not bring an older image back.
* operator: nothing is forgotten, when it has nothing left to look at the cluster matches
  the resource and the status says so; the cluster gets there.
* builder: the row of a build holds what memory does, a success once shown stays, gauges
  count builds, as far as reads do not overlap and no statement is lost; a source is
  accepted if and only if walking the tree from its repository finds what it names inside;
  which dependencies pip takes from its index instead is known exactly.
* ownership: a deletion finds all that refers to what it deletes; a run and its thread
  are of one project; a thread has one active run unless clients overlap or enqueue, or a graph
  reports an active status for a run that was replaced.

## 2. Modules

| module | models | its state in the code |
|---|---|---|
| `RunSpec` | what the platform promises about one row of `runs` | status column; whether an execution was started |
| `RunLifecycle` | run handlers, claim, `executeRun`, cron submission, crash | the tables, the wake-up list, cancel keys, one program counter per request and worker |
| `EventStream` | `emitStreamEvent`, `createRunStream`, `joinRunStream`, `streamSSEWithPubSub` of one run | Redis buffer and channel (an inbox per connection), `lastSent` and `from` of each connection |
| `WebhookOutbox` | `processWebhookOutbox`, `deliverWebhook` | `webhook_deliveries`, batch and stale attempts of each worker |
| `CronDispatch` | `dispatchDueCrons`, `dispatchCronJob`, `createRunForCron`, update and delete of the job | `cron_jobs`, `cron_executions`, baseline and catch-up counter of each worker |
| `Deployments` | create, update, policy, rollback, build and delete of one deployment; `syncAgentDeploymentRecord`, `deleteAgentDeployment` | the row, its revisions, the `AgentDeployment` and who has its current version, the record each handler holds |
| `Operator` | `Reconcile` over one `AgentDeployment`: what it writes, the status, missing CRDs, requeues | the resource, what each object was made from, informer copies and which are out of date, the work queue |
| `LangGraph` | `Validate`, `normalizeDependency`, `isPathWithinRoot`, the context path of a BuildKit job, as operators over a file tree; a walk of the tree as reference | none |
| `Builder` | trigger, submission, status refresh, logs, and the control plane's calls of them | jobs in Kubernetes, table `builds`, records and gauges in memory, the copy each request holds |
| `Ownership` | creating and deleting what deployments, assistants, threads, runs and cron jobs own, with foreign keys and row locks | the rows and what they refer to, what each transaction has inserted and deleted |
| `RunLifecycleProofs`, `EventStreamProofs`, `WebhookOutboxProofs`, `CronDispatchProofs`, `DeploymentsProofs`, `OperatorProofs`, `BuilderProofs`, `OwnershipProofs` | theorems about the module each is named after, and their proofs | |
| `MC*` | values for constants, symmetry | |

`RunLifecycle` implements `RunSpec` (`ImplementsRunSpec`: `state` is the status
column, `starts` the number of claims of a run, `returns` the number of its executions
that were recorded as `pending`). A transaction of the
code may move two runs at once (create with strategy rollback), so a step of
`RunSpec` moves every run by its own transition. The other modules take from
`RunLifecycle` what they need as environment: `Enqueue` of the outbox happens once
per run (`OneDeliveryPerRun`), `CronDispatch` ends where `CronSubmit` begins. `Builder`
uses `LangGraph` to judge the source of a build. `Ownership` has every table of the
platform's data but only what references, locks and the active run need of each row;
the life of a run is `RunLifecycle`'s.

**Grain.** A step is one Postgres transaction or one Redis command, and whatever
the process does next in its own memory. `createRun` is the exception that
matters: its transaction runs at READ COMMITTED and reads the active run before
acting on it, so read and commit are two steps (`CreateRunSelect`,
`CreateRunCommit`) and anything may happen in between. A row a transaction in
flight is about to write may be locked (`Locked`), so the claim may skip it; so may all
runs of the assistant and deployment whose rows another fetch or a create has locked, as
the claim's `FOR UPDATE` takes the joined rows too.

**From code to actions, `RunLifecycle`.** `createRun` is `CreateRunSelect`,
`CreateRunCommit` or `CreateRunAbort`, `PushWake`, `PersistRequest`; `cancelRun`
is `CancelSignal`, `CancelTx`. A worker fetches (`ClaimOnWake`, `ClaimOnTimeout`,
`WakeForNothing`) and then runs `executeRun` step by step: `Begin` (sandbox claim,
decryption, first look at the cancel key), `Execute`, `CheckAfter` (second look),
`Finish` or `RollbackRun` or `FailEarly`, `UpdateCronExecution`, `ReadWebhook`,
`InsertDelivery`, `Release` (the deferred DEL). Inputs, outputs and metadata are
abstracted to whether the request's input is stored; the runner's reply to a
status from `Outcomes`, which may be an active one: the runner passes on what the graph
returned (`app.py:970`) and the worker writes it as it is. `Faults` says what may fail:
statements on runs and cron executions, commands on the cancel key (a GET that fails
reads as a key that is not there, `KeyRead`), the statements of `enqueueWebhookForRun`.
History are the runs struck by one: `unwritten`, whose early failure could not be written;
`abandoned`, left without an end by a crash, a failed statement or a refused rollback;
`unread`, whose last look at the cancel key failed; `unannounced`, whose webhook could not
be looked up or recorded; and what the runner replied: `requeued` counts the executions of
a run recorded as `pending`, `unended` has the runs recorded as `running` (`Held` is the
run in a worker's hand). So a fault or a reply excuses the run it struck and no other.

**`EventStream`.** An event is its id, its place in the worker's emission and its
name; payloads are left out. `Subscribe` of the Redis client does not wait for
the server, so a subscription may take effect late (`SubscriptionTakesEffect`). The
client library's channel buffer is unbounded in the model. A resuming client
names the last id it got, or asks for a replay. The API server that handles the join
may be another replica than the one that created the run: it then remembers no event.
`torn` is history: the clients that were joining when a rollback request deleted the
buffer. Ids start over then, and such a client may get older events after newer ones,
so `InOrderOnce` is about the others. Each RPUSH starts the TTL of the buffer anew (an hour
unless configured); `ExpireBuffer` lets it run out at any time after the worker has stopped,
and, where `Faults` has `"ttl"`, during a silence of the worker that is longer. `failed`
holds what has gone wrong with the emission so far: a lost PUBLISH or RPUSH (`"lost"`), an
LLEN for which the clock numbered the event (`"clock"`), a buffer that expired under way
(`"expired"`) or after the end (`"lapsed"`). An LRANGE may fail too (`"read"`); the handler then
uses what it remembers. One execution's emission is modelled: a run that its graph made
`pending` and that is executed again is not. `OneNumbering` says that ids so far are lengths
of one buffer; runs created with their stream are outside it from the start.

**`WebhookOutbox`.** Time is abstract: `BackoffElapses` may happen at any time
after a failure. The request may be answered or not, in any way (`ok`). The body
and the run's status in it are left out. `overlap` and `lost` are history: the deliveries
that were in two batches at once, and those with an acceptance that a crash or a failed
UPDATE kept from the table. `Unusable` are the rows whose URL cannot be parsed, which no
handler checks: `deliverWebhook` returns before the POST and before the UPDATE (`NoRequest`),
so such a row stays pending and comes back in every batch. `DeliveriesSettle` is about the
others and about fewer unusable rows than the LIMIT; with as many, younger rows starve.

**`CronDispatch`.** One job, time in units of its schedule; `Lag` is the hour a job
without executions starts back from, `CatchUp` the twelve rounds of a tick. A schedule is the
set of times it names, and `UpdateCron` may change it to any text: also to one that does not
parse (`Unparsable`; the tick ends, `ScheduleFails`) or to one that names no time, of which
`spec.Next` gives Go's zero time: slot 0, long before and so due. A tick works with the text it
read (`plan`). `kept` is history: the times that every schedule of the job so far names.

**`Deployments`.** A request is read (`ReadDeployment`), the UPDATE of its own columns
(`WriteDeployment`, `WriteBuild`, `DeleteDeployment`), the revision (`RecordRevision`)
and the sync: `GetResource`, then `CreateResource`, `UpdateResource` or
`DeleteResource`. Kubernetes refuses an update whose copy is not current (`fresh`);
the operator's write of the status makes copies stale too. Every error of the sync is
logged and the request answered (`SyncFails`), as `strictAgentSync` is off by default.
Repository, ref and path are left out, they only reach builds; profile and mode are
one column. The builder's digest is computed from image name and commit, so a build
that is accepted always has one. The mode without Postgres is left out.

`LoneRequestHeals` needs to know which request was alone: `solo` is the request that
began with no other in flight, until another begins or something is lost, `trusted`
whether the last such request went through and none has overlapped or failed since.
Overlapping requests do leave row and resource apart, for as long as nobody makes
another request: nothing compares them.

**`Operator`.** An object is the specification it was made from, and two specifications
make the same object if the fields that reach it are the same (`Rendered`). The two
Deployments are one kind, Service and NetworkPolicy another: they are written one after
the other in the same way. The manager's client reads typed objects from informers, so
the Get before a write may find what was there earlier (`lagging`): a Create or Update
then fails, a Delete may be left out. Sandbox resources are read live, have no owner and
are not watched. `ChangeSpec` and `DeleteResource` stand for the control plane, whose
requests `Deployments` has in detail; there `OperatorWritesStatus` stands for `SetStatus`.
Of the specification the image (the template's, and the workload's unless a rollback image is
set), the runtime with its replicas, mode, host of the ingress, egress and size of the warm
pool are kept. A template of another name is left out: nobody removes the one before.

**`LangGraph`.** A path is a sequence of parts, with empty parts, `.` and `..` as a client
may write them; `Clean`, `Join` and `Rel` are Go's `filepath`; `Clean` reads a text from
the left, one part at a time (`Cleaned`). `Parts` is what a part may be, `Names` what is
left without the empty part and the dots. A configuration is a set of targets and of
dependencies. The command for a dependency is its argument and whether `-r` comes before
it (`Install`); its text is relative to the repository, as the code writes it. What pip
makes of it is external (`FromIndex`): after `-r` a file, else a path if the text has a
slash or begins with a dot, else a package of its index. Wording of errors is left out.
The reference walks the tree part by part and never compares texts.

**`Builder`.** `triggerBuild` is `TriggerBuild` (memory and gauges), `SubmitBuildJob` or
`SubmitFails`, `InsertBuild` or `InsertFails`; reads are `GetBuild` or `GetBuildLogs`, then
`LookupJobStatus`, `Refresh`, `UpdateRow`, each from the copy the read began with, `Settle`
and `FetchJobLogs`. `ReadRow` and `ListBuilds` are the control plane's reads of the table
alone, for clients with a project; a read of logs keeps whether memory had a text when it came
(kind `"text"`); `CallFails` and `InsertPlaceholder` what it does when
the builder does not answer. `JobProgresses` and `JobIsRemoved` stand for Kubernetes.
`RowFollowsMemory` and `SuccessStaysShown` leave out builds that two requests were at work
on at once (`shared`) or a statement for which was lost (`lost`): for those they do not hold.

**`Ownership`.** A request is a sequence of statements at READ COMMITTED. `step` is the
next one, `added` and `gone` what the transaction has written, which others do not see but
wait for (`InsertWaits`, `DeleteWaits`). A create is a scope check and an INSERT;
`createRun` is `CheckAssistant`, `CheckThread`, `CheckThreadGlobal`, `InsertThread`,
`SelectActiveRun`, `CommitRun`. `UpdateRunResult` writes any status of `Outcomes`,
whatever the row says; `ended` are the runs it was called for, whose webhook is next. A
deletion is a scope check and its `Plan`, one set of rows per statement; a statement a
foreign key refuses ends it, as Postgres takes none after it. Nothing inserts into
`checkpoints`, so their deletion is left out; revisions, bindings and variables of a
deployment are deleted like its builds. Every API key belongs to a project. `alone`,
`crowded` and `reborn` are history: which request had no other beside it, on which thread
creates overlapped or asked to be enqueued or a run became active again by its own result,
which identifiers were used again.

## 3. Runs

All constants are sets or bounds; every bound is a guard named in its module.

| run | instance | shows |
|---|---|---|
| `run_safety` | 2 requests in flight, 2 workers, 1 thread, 2 runs, 1 cancel or delete, all strategies and cancel actions, expiring keys, one reply `pending` | exclusive execution, types |
| `run_faults` | 1 request in flight, 2 workers, 2 runs, a crash, failing statements on runs, lost wake-ups, cron runs, replies `running` and one `pending` | one delivery per run and only after its end, no running row without its worker or a fault of its own, references, refinement of `RunSpec` |
| `run_live` | 1 request in flight, 1 worker, 2 runs, a crash, lost wake-ups, failing statements and commands of every kind | pending runs are taken, webhooks recorded, cancels honoured |
| `stream` | 1 client that creates and joins up to twice, 3 events, resumable or not, lost pushes, failing loads, rollback request, dying worker, expiry after the end | order, no duplicates, buffer, nothing withheld, the end arrives |
| `outbox` | 2 workers, 3 rows, the first with an unusable URL, LIMIT 2, 2 attempts, 1 fault | attempts, outcomes, second acceptance of a delivery, settling |
| `cron` | 2 workers, clock to 3, 1 change between schedules {1,2,3}, {2,3}, {} and a text that is none, lag 1, catch-up 2, 1 fault | slots, skips, orphans, catching up |
| `deployments` | 2 requests in flight, 3 requests after the creation, 2 modes, 2 images, failing statements and calls, a restart | the resource after a request that is alone, revisions, images |
| `operator` | 1 operator, 2 specifications that differ in every field (mode_a with ingress; mode_b with a rollback image), 1 change, a deletion, 2 faults, CRDs there or not | nothing is forgotten, convergence |
| `builder` | 2 requests in flight, 2 builds, 2 reads, a failing call or statement, a restart, a deletion of the deployment, jobs that fail, are retried and removed; a tree of a repository and its neighbours, paths of up to 3 parts | rows, gauges, successes shown, sources |
| `ownership` | 2 requests in flight, 3 requests, 3 steps of workers, 2 projects, 3 deployments, 3 assistants, 1 thread, 2 runs, all strategies, results of every status | what a deletion is refused for, projects of runs, active runs of a thread |
| `find_*` | the smallest instance that shows the disagreement | section 6 |

**Why the bounds are enough.** Two workers and two runs give every pairwise race of the
claim; a second request in flight gives the race of a create with its own thread's cancel,
delete and create; the strategies act on one other run. `run_safety` and `run_faults` keep
the wake-up list empty (polls find the same rows, and every wake-up may be lost),
`run_live` has it. One reply `pending` (`MaxRequeues`) executes a run twice. One retry
reaches both "retry" and "dead_letter"; one unusable row takes a place of every batch, and
the LIMIT leaves one for the other two, so that one waits for another. The schedules have
a backlog above the catch-up limit, times before the lag, and a slot that one names and
the other does not; one change goes between any two of them. Two handlers give every order
of two read-modify-write requests; a third request comes after them, alone. One change of
specification reaches every interleaving of an old copy with new writes; two faults, a
restart during the repair of a drift. Two reads of one build are every order of two
refreshes; a restart with an empty memory gives the reads that find only a row. Of three
requests to `ownership` two overlap and one is before or after them: a thread deleted and
its identifier used again under a createRun in flight needs all three, as does a run
across assistants and a deletion after it; three worker steps take a run to its delivery,
or make it active again. The outbox counts requests up to the maximum and acceptances up
to two, which is all its properties tell apart. The proved properties do not depend on
bounds at all; what only the proofs cover are ids from the clock and a buffer that expires
under way (`"clock"` and `"ttl"` in `Faults` of `EventStream`) and more than one operator.

**Deadlock** is not checked: runs, requests, events, rows and the clock are bounded,
and a program whose requests have been served has nothing more to do.

**Fairness.** Go schedules every goroutine, the executor call and the webhook POST
have timeouts, tickers fire: handlers that have started, fetching, executing and
the loops are weakly fair, per process. Backoff and time pass.
Each informer delivers, Kubernetes collects garbage. Requests, crashes,
failing statements, deletes, cron submissions, joins and hang-ups are not fair:
nothing obliges them to happen or to stop happening.

**Mutants.** Beside a definition stands, where a property needs one, a `Mutant...`
operator with a plausible bug (a guard dropped, a look-up forgotten, an error ignored,
a counter off by one); `PROJECT.json` says which property must then fail in which run.

## 4. Proofs

`RunLifecycleProofs`, for any number of runs, requests, workers and threads, all
strategies, with crashes, failing statements, lost wake-ups and expiring keys:

* `TypeCorrect`: `Spec => []TypeOK`, by `TypeInv` (also: a result in hand is one a
  worker may write; a create between its two steps names a thread).
* `AtMostOnce`: `Spec => []AtMostOnceExecution`. The property is not inductive; the
  invariant `ExecInv` adds `FreshInv` (rows beyond the last id are absent), `ClaimInv`
  (of the executions of a run all but one have made it pending again, and all of them as
  long as it is absent or pending) and `HoldInv` (a run in a worker's hand was claimed, and
  the worker that executes it is the only one to do so). The claim is the only step that
  adds to `claims`; every other step is shown to be quiet: it makes no row pending except a
  fresh one, or the one whose execution it ends, and puts no run in a worker's hand.
* `ImplementsAbstractLife`: `Spec => ImplementsRunSpec`, step by step from the same lemma.

* `OneDelivery`: `Spec => []OneDeliveryPerRun`, by `OnceInv`: no delivery before the run
  was claimed, nor while its worker has not come to the end, unless it was made pending
  again. `enqueueWebhookForRun` looks for a delivery in one statement and inserts in another;
  what it saw is still true because no other worker has had the run (`ExecInv`).
* `NoDanglingReference`: `Spec => []ReferencesResolve`, by `RefInv`. Deleting a run or a
  thread deletes the deliveries with it, a rollback is refused if there is one; the
  runs of the cron loop have no thread (`CronThread`), so their executions stand in the
  way of every deletion; a worker inserts a delivery for a run it once held, which the
  foreign key refuses if the run has gone meanwhile (`WorkerHolds`).
* `DeliveredIsFinished` and `NoAbandonedRun`: `DeliveryMeansFinished` and
  `RunningHasWorker`, by `FinishInv`: past the record of the result the row is not active
  again, or the run is excused by its own early failure or its own runner's reply
  (`AfterRecord`). Neither asks for a system without faults: a worker lets go of a run that
  is still running only in the step that puts this run into `abandoned` or `unended`
  (`NextRunning`), and what is there stays (`HistoryGrows`).

Nothing is assumed of the runner's replies. The worker writes the status as it comes, the
runner takes it from the graph (`app.py:970`), and a graph that reports `pending` has its run
executed again; the properties say what then still holds, run by run. The module's
assumption on `Outcomes` only keeps them apart from the marks of a row that is not there.

`EventStreamProofs`, for any number of clients, joins and events, with lost commands, failed
loads, ids from the clock and a buffer that expires at any time:

* `TypeCorrect`; the worker stops in time (`Bounded`).
* `InOrder`: `Spec => []InOrderOnce`, as long as all ids are lengths of one buffer
  (`OneNumbering`, which once lost is lost: `NumberingStays`), by `NumberInv` (until a
  rollback request deletes the buffer, ids grow with the emission, though an event that
  was not stored shares its id with the next) and `ClientInv` (a connection that is live
  forwards only what is newer than all the client has). After that deletion ids start
  over, and what a client had subscribed to before is older than what it may get: hence
  `torn`.
* `BufferHolds`: `Spec => []BufferIsTheEmission`, by `BufferInv`, `EmissionInv`, `RowInv`:
  until the last event the buffer is there, afterwards it may only go as a whole
  (`ExpireEffect`).
* `NothingLost`: `Spec => []ResumableWithholdsNothing`, by `ChannelInv`: what is in the
  inbox of a connection is in the buffer or will be, and what is skipped was loaded.

What `FilterEventsFrom` does to a list is proved by its least wrong position, without
induction.

`WebhookOutboxProofs`, for any number of workers, rows, attempts and faults:

* `TypeCorrect`, `AttemptsAreRequests`, `OutcomesAreEarned`, by `OutboxInv`: besides
  types, attempts of a row are covered by requests made, an open row has attempts to
  spare (`TableInv`), what a worker read is covered by requests made (`ReadInv`), and one
  that is about to write has just made one more (`UpdateInv`), with an acceptance if it
  has a success to write. The point is that the write comes from a stale read over other
  workers' writes and still never claims a request that was not made.
* `AcceptedOnce`: `Spec => []SecondAckNeedsOverlap`, by `AckInv`, row by row: a row in no
  overlap is in one batch at most (`Lone`), and one that was accepted, with no acceptance
  lost, is settled, or in the hand of the one worker that is about to write so
  (`Accepted`). A crash or a failed UPDATE takes rows out of one batch and loses the one
  acceptance its worker had still to write (`AckFault`); other rows do not notice.

`CronDispatchProofs`, for any finite set of workers, schedules and changes between them, lag,
catch-up and clock:

* `TypeCorrect`; `NoOrphan`: `Spec => []NoOrphanExecution`, as the insertion names the job.
* `BoundedDispatch`: `Spec => []DispatchesPerSlot`, by `CountInv`: the executions of a slot
  and the workers that have found it free are together no more than the workers, and
  one at most if the slot was never raced for.
* `SkipsAreBlind`: `Spec => []SkipsNeedABlindRace`, by `SkipInv`: with one worker blind at
  most the dispatched slots have no gap that every schedule so far names (`Convex`), and
  whoever is at work continues from a dispatched slot, or is the blind one (`Continues`);
  the schedule it works by was one of the job's (`PlanInv`).

`DeploymentsProofs`, for any number of handlers, modes, images, requests and restarts:

* `TypeCorrect`, by `TypeInv`: besides types, a request in flight has a legal record in
  hand, and nothing is in flight before the deployment exists.
* `LoneRequestRepairs`: `Spec => []LoneRequestHeals`, by `LoneInv`. `AloneInv`: the
  request in `solo` is the only one in flight, and there is one as long as the resource
  is trusted. `CopyInv`: its copy is the row as it will write it, and later the row
  itself. `TrustInv`: trust means agreement until the row is written. The last call then
  writes what the row wants, and every way of not getting there ends trust.
* `RevisionsHold`, by `RevisionInv`: what is recorded is a copy read earlier, so copies
  must hold images the deployment has had (`ImagesInv`).
* `StaleCopiesKeepImage`: an action property; only rollbacks and builds write the image.

`OperatorProofs`, for any number of operators (a rolling update runs two), specifications,
changes and faults:

* `TypeCorrect`, by `TypeInv`: besides types, the generation counts the specifications and
  Reconcile works with a copy of a resource.
* `NothingForgotten`: `Spec => []IdleMeansReconciled`. The invariant `WorkInv` says that
  what differs from the resource, an object or the status, is what some operator is going
  to reach: it is still to be told of something, its queue holds the resource, or it is in
  Reconcile and either not yet past the place or, its copy being old, bound to conflict
  at the status and start again. The last case is what makes two operators safe: the one
  that writes old objects cannot finish. `CopyInv` says that copies marked current are.

`BuilderProofs`, for any number of requests, builds, reads, faults and restarts:

* `TypeCorrect`, by `TypeInv`: besides types, who is at work has a build, a refresh a status.
* `RowsFollow`: `Spec => []RowFollowsMemory`, and `SuccessStays`: `Spec =>
  []SuccessStaysShown`, by `RecordInv`. `WorkInv`: a build that is not shared has one
  request. `AgreeInv`: what that request holds, memory and row agree at each step but for
  the row between the two writes of a refresh. `JobInv`: what a record says of a job is
  true and stays so (`Fits`): a job that has succeeded stays so until it is removed, one
  that has failed may only succeed, and a removed job is not asked about again; so no
  refresh takes a success back. `ShownInv` follows what was shown through all copies.
* `GaugesCount`: `Spec => []GaugesCountBuilds`, by `MemoryInv` (until a restart, and while
  no two requests have met, memory knows every build whose row names a job, with the
  status last counted, and whoever is at work on it has its record) and `GaugeInv` (each
  gauge is the number of builds last counted so, failures are no more than builds that
  have ended).
* `SourcesAreExact`: `Spec => []SourceIsExact`, for every tree of files, every
  `langgraph.json` and every text of any length: what `Validate` accepts by cleaning and
  comparing texts is what a walk of the tree finds inside the repository. A text is
  followed part by part (`TripFollows`; two ways of following it agree, `TripsAgree`), by
  the code's `Clean` and by the reference's `Walk`. From the place of the repository, a
  sequence of names, both come to the same place (`WalkClean`, `JoinIsWalk`): the leading
  `..` that `Clean` keeps of a relative text are steps out of it. `Rel` starts with no `..`
  exactly if the repository's place is a prefix (`LongestCommon`, `WithinIsPrefix`). So
  accepted is runnable (`AcceptedIsRunnable`), installed is installable
  (`InstallIsInstallable`), and BuildKit gets the directory meant (`ContextIsKept`). The text
  of a command, walked from the repository, leads to the place it was computed from
  (`RelTextLeads`, `CommandLeads`), and pip looks for it in the index exactly if that place
  is a project one undotted name below the root.
  Assumed is what `LangGraphAssumption` and `BuilderAssumption` say: texts are nonempty
  sequences of `Parts`, as splitting at slashes gives them; the dots and no empty part begin
  with a dot; the root is a directory and a
  sequence of names, as `filepath.Clean` leaves an absolute path; no file is a directory.

`OwnershipProofs`, for any number of handlers, projects and rows of each table. The
assumption on the constants says that tables have rows of their own and that the rows
there at first refer to one another as the schema has it:

* `TypeCorrect`: rows refer to rows that are there and of the right table, by `Sound`: with
  `RequestInv` (what a request has written is its own, of the kind its step says) and
  `LockInv` (no row that stays refers to one a transaction has deleted).
* `RunsInProject`: `Spec => []OneProject`, by `ProjectInv`: what a create in flight has
  checked of its thread still holds when it inserts, or the identifier was used again.
* `OneActiveRun`: `Spec => []SecondActiveNeedsOverlap`, by `OverlapInv`: a create on a
  thread without overlap commits on what it read, and a worker's result adds no active run
  to the thread unless the run was replaced and reports itself active.
* `DeletionSucceeds`: `Spec => []LoneDeletionSucceeds`, by `LoneInv`: what the statements of
  a deletion that is alone have emptied so far (`Emptied`) stays empty; `ExecutionInv`:
  the run of a cron execution has the owner of its job.

Only model-checked: the liveness properties (`PendingIsTaken`, `WebhookIsRecorded`,
`CancelIsHonoured`, `EndReachesListeners`, `DeliveriesSettle`, `CatchesUp`, `Converges`),
as fairness and `ENABLED` are beyond the prover. Every other property of a passing run is
a theorem. Left to the proofs are `TypeOK` of the outbox and `ImplementsRunSpec` with two
requests in flight.

**Induction over data.** The library's induction theorems have an operator as parameter,
which the provers cannot instantiate. `Upwards` in `BuilderProofs` does without: it speaks
of a set of numbers and follows from the least-number principle (`WFMin` for the order of
the naturals). A recursive function along a text exists because the functions that follow
the text up to a length do (`TripExists`).

## 5. Plan

Done: 1. `RunSpec`, `RunLifecycle`. 2. `EventStream`. 3. `WebhookOutbox`. 4. `CronDispatch`.
5. `Deployments`. 6. `Operator`. 7. `LangGraph`, `Builder`. 8. `Ownership`. 9. Theorems for the
safety properties of each. 10. Faults counted per run and per delivery, so that a fault
excuses only what it struck.

Next, in this order:

11. `Rollout`: `Deployments` and `Operator` over one resource, from row to cluster.
12. `MemoryRuns`: the API server without Postgres (locks, waiting handlers, A2A cancel).
13. `Runner`: the runner's locks around environment, path and graph cache.

## 6. Where documents and code disagree

Each has a run that TLC ends with a counterexample.

| run | document | code |
|---|---|---|
| `find_two_on_thread` | per-thread single concurrency (`prd.md:325`) | the claim does not look at the thread |
| `find_stream_silent` | the channel is forwarded; events are not persisted unless resumable (`prd.md:133`) | ids come from the length of a buffer that is then empty; later events are skipped as old |

Met while modelling, without a run: input, metadata and checkpoint of a run are stored
after its wake-up, so a fast worker starts it with the default input; strategy `interrupt`
only writes a status, which the worker that executes the run overwrites; a failed or
conflicting sync of the custom resource is logged and never repeated; a handler in flight
may create the resource of a deleted deployment anew; the result of a build's UPDATE is
ignored, and the digest it writes is a hash of image name and commit, not of the image
built; two concurrent creates with strategy `reject` both succeed; the cancel key's 10
minutes are less than the executor's 15; a look at it that fails reads as no cancel; a
graph may use the name of a terminal event and end a stream early; after a rollback
request numbering starts over, and a client that has subscribed but not loaded by then may
get older events after newer ones; the same after a silence of the worker longer than the
buffer's TTL, which is an hour and configurable; an hour after its end the stream of a run
cannot be replayed; while Redis is down the fallback poll does not happen; a cron job that
ever fired cannot be deleted, a new one also fills slots of the hour before it, and one
that is enabled again fills the slots of the time it was disabled; the cron status
`rolled_back` cannot be reached; sandbox claims are not deleted. Rollback is to delete a
run (`prd.md:125`), but the execution of a cron run holds it by foreign key and the row
stays `running`. An event is published before it is stored, so a client that joins in
between misses it. A build's row whose UPDATE was lost is not repaired: memory has the
status by then, and equal statuses are not written; only unscoped reads refresh at all, so
a client with a project may see `queued` for good. Overlapping reads count a build twice
in the gauges, and after a restart they go below zero. A target such as `graph.py` without
a slash is not looked for in the repository. Paths are judged on the builder's own file
system, while BuildKit uses them in its clone. Directories are supported as dependencies
(`prd.md:151`), and they are as long as they have a requirements file or lie deeper than
one level: `./lib` with a `pyproject.toml` or `setup.py` loses its `./`, and `pip install
lib` asks the index for a package of that name. A webhook URL is stored unchecked: one
that cannot be parsed is never posted to, its row stays pending, and fifty of them stop
all deliveries. A cron schedule is stored unchecked too: one that does not parse fails
every tick of its job, one that names no time (31 February) is dispatched once, for Go's
zero time, and when it is corrected the job fills every slot since the year 1, twelve a
tick. A graph may report `pending` or `running`: its run is executed again, or stays
`running` with its webhook sent. When the builder's answer is lost the control plane keeps
a row that is `queued` for good beside a job that may run. An assistant or deployment with
a thread on which another assistant has run cannot be deleted; neither can a run that a
cron job started. `createRun` brings the identifier of a deleted thread back.

## 7. Not modelled

Authentication, roles and project scope (stateless checks), observability, the portal,
bootstrap and migrations (before the handlers), the GitHub proxy and the cipher (pure I/O
and library code), the Helm chart beyond the number of workers. The runtime runner is
external to the run model: any reply in `Outcomes`. Updates of assistants, threads
and store items, secrets, variables and API keys are single statements without a
protocol. The in-memory mode is planned (section 5).
