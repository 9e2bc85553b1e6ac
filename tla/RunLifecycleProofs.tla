------------------------- MODULE RunLifecycleProofs -------------------------
(***************************************************************************)
(* Proofs about RunLifecycle for every number of runs, clients, workers    *)
(* and threads, every strategy, whatever the runner replies, with crashes, *)
(* lost wake-ups, failing statements and expiring cancel keys.             *)
(***************************************************************************)
EXTENDS RunLifecycle, TLAPS

USE DEF RunIds, NoRun

\* What a worker may write as the status of a run.
Recorded == Outcomes \cup {"error", "interrupted"}

\* What is recorded of a run is a status.
LEMMA RecordedIsStatus == Recorded \subseteq Statuses
  BY DEF Recorded, Statuses, Terminal

\* The requests a handler holds are requests.
LEMMA RequestTypes ==
  /\ NoRequest \in Requests
  /\ \A a \in CancelActions : CancelRequest(a) \in Requests
  BY DEF NoRequest, CancelRequest, Requests

\* The fields of a request.
LEMMA RequestFields ==
  \A q \in Requests : q.thread \in Threads \cup {NoThread} /\ q.hook \in BOOLEAN
  BY DEF Requests

\* The two writes to runs.status keep its type, whatever id they are given.
LEMMA SetStatusType ==
  ASSUME status \in [RunIds -> Statuses], NEW r, NEW s \in Statuses, SetStatus(r, s)
  PROVE  status' \in [RunIds -> Statuses]
  BY DEF SetStatus

\* Removing a run keeps the type of its status.
LEMMA RemoveRowType ==
  ASSUME status \in [RunIds -> Statuses], NEW r, RemoveRow(r)
  PROVE  status' \in [RunIds -> Statuses]
  <1>1. "deleted" \in Statuses
    BY DEF Statuses, NoRow
  <1> QED
    BY <1>1 DEF RemoveRow

-----------------------------------------------------------------------------
(* Type correctness.                                                       *)

\* A worker with a result in hand holds one that updateRunResult may write, and
\* on the early path that is "error".
ResultOK == \A w \in Workers :
              /\ wpc[w] \in {"fail", "check", "finish", "cron"} => wres[w] \in Recorded
              /\ wpc[w] = "fail" => wres[w] = "error"

\* A create request between its two steps names a thread.
RequestOK == \A c \in Clients : apc[c] = "insert" => areq[c].thread \in Threads

TypeInv == TypeOK /\ ResultOK /\ RequestOK

\* The types hold at first.
LEMMA InitType == Init => TypeInv
  <1> SUFFICES ASSUME Init PROVE TypeInv
    OBVIOUS
  <1> USE RunLifecycleAssumption DEF RunLifecycleAssumption
  <1>1. TypeOK
    BY RequestTypes DEF Init, TypeOK, Statuses, NoRow, ApiSteps, WorkerSteps
  <1>2. ResultOK
    BY DEF Init, ResultOK
  <1>3. RequestOK
    BY DEF Init, RequestOK
  <1> QED
    BY <1>1, <1>2, <1>3 DEF TypeInv

\* Requests to the API server and the cron loop keep the types.
LEMMA ApiType ==
  ASSUME TypeInv,
         \/ \E c \in Clients : Request(c) \/ HandlerStep(c)
         \/ \E r \in RunIds : DeleteRun(r)
         \/ \E t \in Threads : DeleteThread(t)
         \/ CronSubmit
  PROVE  TypeInv'
  <1> USE RunLifecycleAssumption DEF RunLifecycleAssumption, TypeInv, TypeOK, ResultOK, RequestOK
  <1>1. ASSUME NEW c \in Clients, NEW t \in Threads, NEW s \in Strategies, NEW h \in Hooks,
               CreateRunSelect(c, t, s, h)
        PROVE  TypeInv'
    <2>1. /\ arun' \in [Clients -> RunIds \cup {NoRun}]
          /\ areq' \in [Clients -> Requests]
          /\ apc' \in [Clients -> ApiSteps]
      BY <1>1 DEF CreateRunSelect, IsOldestActive, Requests, ApiSteps
    <2>2. TypeOK'
      BY <1>1, <2>1 DEF CreateRunSelect, pgVars, redisVars, workerVars, boundVars, faultVars, replyVars, lookVars
    <2>3. ResultOK' /\ RequestOK'
      BY <1>1 DEF CreateRunSelect, workerVars
    <2> QED
      BY <2>2, <2>3 DEF TypeInv
  <1>2. ASSUME NEW c \in Clients, NEW h \in Hooks, CreateStatelessRun(c, h)
        PROVE  TypeInv'
    <2>1. /\ status' \in [RunIds -> Statuses]
          /\ thread' \in [RunIds -> Threads \cup {NoThread}]
          /\ hook' \in [RunIds -> BOOLEAN]
          /\ nextRun' \in 1..MaxRuns + 1
      BY <1>2 DEF CreateStatelessRun, InsertRow, Statuses, Active
    <2>2. /\ arun' \in [Clients -> RunIds \cup {NoRun}]
          /\ apc' \in [Clients -> ApiSteps]
      BY <1>2 DEF CreateStatelessRun, ApiSteps
    <2>3. TypeOK'
      BY <1>2, <2>1, <2>2 DEF CreateStatelessRun, redisVars, workerVars, boundVars, faultVars, replyVars, lookVars
    <2>4. ResultOK' /\ RequestOK'
      BY <1>2 DEF CreateStatelessRun, workerVars
    <2> QED
      BY <2>3, <2>4 DEF TypeInv
  <1>3. ASSUME NEW c \in Clients, NEW r \in RunIds, NEW a \in CancelActions, CancelSignal(c, r, a)
        PROVE  TypeInv'
    <2>1. cancelKey' \in [RunIds -> {"none"} \cup CancelActions]
      <3>1. cancelKey' = [cancelKey EXCEPT ![r] = a] \/ cancelKey' = cancelKey
        BY <1>3 DEF CancelSignal
      <3> QED
        BY <3>1
    <2>a. requests' \in Nat
      BY <1>3 DEF CancelSignal
    <2>2. /\ areq' \in [Clients -> Requests]
          /\ arun' \in [Clients -> RunIds \cup {NoRun}]
          /\ apc' \in [Clients -> ApiSteps]
      BY <1>3, RequestTypes DEF CancelSignal, ApiSteps
    <2>3. TypeOK'
      BY <1>3, <2>1, <2>a, <2>2 DEF CancelSignal, pgVars, workerVars, faultVars, replyVars, lookVars
    <2>4. ResultOK' /\ RequestOK'
      BY <1>3 DEF CancelSignal, workerVars
    <2> QED
      BY <2>3, <2>4 DEF TypeInv
  <1>4. ASSUME NEW c \in Clients, CreateRunCommit(c)
        PROVE  TypeInv'
    <2>1. status' \in [RunIds -> Statuses]
      <3>1. {"pending", "interrupted", "deleted"} \subseteq Statuses
        BY DEF Statuses, NoRow, Active, Terminal
      <3>2. arun[c] \in RunIds => Replaced(c) \in Statuses
        BY <3>1 DEF Replaced
      <3>3. status' = [r \in RunIds |-> IF r = nextRun      THEN "pending"
                                       ELSE IF r = arun[c] THEN Replaced(c)
                                       ELSE status[r]]
        BY <1>4 DEF CreateRunCommit
      <3> QED
        BY <3>1, <3>2, <3>3
    <2>2. threads' \subseteq Threads /\ areq[c].thread \in Threads
      BY <1>4 DEF CreateRunCommit, Requests
    <2>3. /\ nextRun \in RunIds
          /\ thread' \in [RunIds -> Threads \cup {NoThread}]
          /\ hook' \in [RunIds -> BOOLEAN]
          /\ nextRun' \in 1..MaxRuns + 1
      <3>1. nextRun \in RunIds /\ InsertRow(nextRun, areq[c].thread, areq[c].hook)
        BY <1>4 DEF CreateRunCommit
      <3>2. areq[c].thread \in Threads /\ areq[c].hook \in BOOLEAN
        BY <2>2, RequestFields
      <3>3. nextRun + 1 \in 1..MaxRuns + 1
        BY <3>1 DEF RunIds
      <3> QED
        BY <3>1, <3>2, <3>3 DEF InsertRow
    <2>4. /\ apc' \in [Clients -> ApiSteps]
          /\ arun' \in [Clients -> RunIds \cup {NoRun}]
          /\ areq' \in [Clients -> Requests]
      BY <1>4, <2>3, RequestTypes DEF CreateRunCommit, ApiSteps
    <2>5. TypeOK'
      BY <1>4, <2>1, <2>2, <2>3, <2>4 DEF CreateRunCommit, redisVars, workerVars, boundVars, faultVars, replyVars, lookVars
    <2>6. ResultOK' /\ RequestOK'
      BY <1>4 DEF CreateRunCommit, workerVars
    <2> QED
      BY <2>5, <2>6 DEF TypeInv
  <1>5. ASSUME NEW c \in Clients, CreateRunAbort(c)
        PROVE  TypeInv'
    BY <1>5, RequestTypes DEF CreateRunAbort, Respond, ApiSteps,
                pgVars, redisVars, workerVars, boundVars, faultVars, replyVars, lookVars
  <1>6. ASSUME NEW c \in Clients, PushWake(c)
        PROVE  TypeInv'
    <2>1. queue' \in Nat /\ apc' \in [Clients -> ApiSteps]
      BY <1>6 DEF PushWake, ApiSteps
    <2>2. TypeOK'
      BY <1>6, <2>1 DEF PushWake, pgVars, workerVars, boundVars, faultVars, replyVars, lookVars
    <2>3. ResultOK' /\ RequestOK'
      BY <1>6 DEF PushWake, workerVars
    <2> QED
      BY <2>2, <2>3 DEF TypeInv
  <1>7. ASSUME NEW c \in Clients, PersistRequest(c)
        PROVE  TypeInv'
    <2>1. /\ apc' \in [Clients -> ApiSteps]
          /\ arun' \in [Clients -> RunIds \cup {NoRun}]
          /\ areq' \in [Clients -> Requests]
      BY <1>7, RequestTypes DEF PersistRequest, Respond, ApiSteps
    <2>2. TypeOK'
      BY <1>7, <2>1 DEF PersistRequest, pgVars, redisVars, workerVars, boundVars, faultVars, replyVars, lookVars
    <2>3. ResultOK' /\ RequestOK'
      BY <1>7 DEF PersistRequest, Respond, workerVars
    <2> QED
      BY <2>2, <2>3 DEF TypeInv
  <1>8. ASSUME NEW c \in Clients, CancelTx(c)
        PROVE  TypeInv'
    <2>1. status' \in [RunIds -> Statuses]
      <3>1. SetStatus(arun[c], "interrupted") \/ RemoveRow(arun[c]) \/ UNCHANGED status
        BY <1>8 DEF CancelTx
      <3> QED
        BY <3>1, SetStatusType, RemoveRowType DEF Statuses, Terminal
    <2>2. /\ apc' \in [Clients -> ApiSteps]
          /\ arun' \in [Clients -> RunIds \cup {NoRun}]
          /\ areq' \in [Clients -> Requests]
      BY <1>8, RequestTypes DEF CancelTx, Respond, ApiSteps
    <2>3. TypeOK'
      BY <1>8, <2>1, <2>2 DEF CancelTx, redisVars, workerVars, boundVars, faultVars, replyVars, lookVars
    <2>4. ResultOK' /\ RequestOK'
      BY <1>8 DEF CancelTx, Respond, workerVars
    <2> QED
      BY <2>3, <2>4 DEF TypeInv
  <1>9. ASSUME NEW r \in RunIds, DeleteRun(r)
        PROVE  TypeInv'
    <2>1. /\ status' \in [RunIds -> Statuses]
          /\ deliveries' \in [RunIds -> Nat]
          /\ requests' \in Nat
      BY <1>9 DEF DeleteRun, Statuses, NoRow
    <2>2. TypeOK'
      BY <1>9, <2>1 DEF DeleteRun, redisVars, apiVars, workerVars, faultVars, replyVars, lookVars
    <2>3. ResultOK' /\ RequestOK'
      BY <1>9 DEF DeleteRun, apiVars, workerVars
    <2> QED
      BY <2>2, <2>3 DEF TypeInv
  <1>10. ASSUME NEW t \in Threads, DeleteThread(t)
         PROVE  TypeInv'
    <2>1. /\ threads' \subseteq Threads
          /\ status' \in [RunIds -> Statuses]
          /\ deliveries' \in [RunIds -> Nat]
          /\ requests' \in Nat
      BY <1>10 DEF DeleteThread, Statuses, NoRow
    <2>2. TypeOK'
      BY <1>10, <2>1 DEF DeleteThread, redisVars, apiVars, workerVars, faultVars, replyVars, lookVars
    <2>3. ResultOK' /\ RequestOK'
      BY <1>10 DEF DeleteThread, apiVars, workerVars
    <2> QED
      BY <2>2, <2>3 DEF TypeInv
  <1>11. ASSUME CronSubmit
         PROVE  TypeInv'
    <2>1. /\ nextRun \in RunIds
          /\ nextRun' \in 1..MaxRuns + 1
          /\ queue' \in Nat
      BY <1>11 DEF CronSubmit, InsertRow
    <2>2. /\ status' \in [RunIds -> Statuses]
          /\ cronExec' \in [RunIds -> {"none", "queued", "rolled_back"} \cup Statuses]
      BY <1>11 DEF CronSubmit, Statuses, Active
    <2>3. /\ thread' \in [RunIds -> Threads \cup {NoThread}]
          /\ hook' \in [RunIds -> BOOLEAN]
      BY <1>11 DEF CronSubmit, InsertRow
    <2>4. TypeOK'
      BY <1>11, <2>1, <2>2, <2>3 DEF CronSubmit, apiVars, workerVars, boundVars, faultVars, replyVars, lookVars
    <2>5. ResultOK' /\ RequestOK'
      BY <1>11 DEF CronSubmit, apiVars, workerVars
    <2> QED
      BY <2>4, <2>5 DEF TypeInv
  <1> QED
    BY <1>1, <1>2, <1>3, <1>4, <1>5, <1>6, <1>7, <1>8, <1>9, <1>10, <1>11
    DEF Request, HandlerStep

\* A write of a result in hand keeps the type of runs.status.
LEMMA ResultWriteType ==
  ASSUME TypeInv, NEW w \in Workers, wpc[w] \in {"fail", "finish"},
         SetStatus(wrun[w], wres[w]) \/ UNCHANGED status
  PROVE  status' \in [RunIds -> Statuses]
  <1>1. wres[w] \in Statuses /\ status \in [RunIds -> Statuses]
    BY RecordedIsStatus DEF TypeInv, TypeOK, ResultOK
  <1> QED
    BY <1>1, SetStatusType

\* A worker step that leaves the handlers alone keeps RequestOK.
LEMMA RequestKept ==
  ASSUME RequestOK, UNCHANGED apiVars
  PROVE  RequestOK'
  BY DEF RequestOK, apiVars

\* Taking a run from the table keeps the types.
LEMMA FetchType ==
  ASSUME TypeInv, NEW w \in Workers, Fetch(w)
  PROVE  TypeInv'
  <1> USE DEF TypeInv, TypeOK, ResultOK
  <1>1. ASSUME NEW r \in RunIds, ClaimOnWake(w, r) \/ ClaimOnTimeout(w, r)
        PROVE  TypeInv'
    <2>1. /\ Claim(w, r)
          /\ queue' \in Nat
      BY <1>1 DEF ClaimOnWake, ClaimOnTimeout
    <2>s. status' \in [RunIds -> Statuses]
      BY <2>1 DEF Claim, Statuses, Active
    <2>a. claims' \in [RunIds -> Nat]
      BY <2>1 DEF Claim
    <2>b. wrun' \in [Workers -> RunIds \cup {NoRun}] /\ wpc' \in [Workers -> WorkerSteps]
      BY <2>1 DEF Claim, WorkerSteps
    <2>2. TypeOK'
      BY <2>1, <2>s, <2>a, <2>b DEF Claim, apiVars, boundVars, faultVars, replyVars, lookVars
    <2>3. ResultOK' /\ RequestOK'
      BY <2>1, RequestKept DEF Claim
    <2> QED
      BY <2>2, <2>3
  <1>2. ASSUME WakeForNothing(w)
        PROVE  TypeInv'
    <2>1. queue' \in Nat
      BY <1>2 DEF WakeForNothing
    <2>2. TypeOK'
      BY <1>2, <2>1 DEF WakeForNothing, pgVars, apiVars, workerVars, boundVars, faultVars, replyVars, lookVars
    <2>3. ResultOK' /\ RequestOK'
      BY <1>2, RequestKept DEF WakeForNothing, workerVars
    <2> QED
      BY <2>2, <2>3
  <1> QED
    BY <1>1, <1>2 DEF Fetch

\* The history of replies keeps its type.
LEMMA ReplyType ==
  ASSUME requeued \in [RunIds -> Nat], unended \subseteq RunIds, NEW w, RecordReply(w)
  PROVE  requeued' \in [RunIds -> Nat] /\ unended' \subseteq RunIds
  <1>1. \A r \in RunIds :
          requeued[r] + (IF r \in Held(w) /\ Exists(r) /\ wres[w] = "pending" THEN 1 ELSE 0) \in Nat
    OBVIOUS
  <1> QED
    BY <1>1 DEF RecordReply, Held

\* The three ways out of a look at the cancel key.
LEMMA CancelKeyWays ==
  ASSUME NEW w, NEW key, NEW next, OnCancelKey(w, key, next)
  PROVE  \/ GoTo(w, "rollback") /\ UNCHANGED wres
         \/ GoTo(w, "finish") /\ Result(w, "interrupted")
         \/ GoTo(w, next) /\ UNCHANGED wres
  BY DEF OnCancelKey

\* executeRun keeps the types.
LEMMA ExecuteType ==
  ASSUME TypeInv, NEW w \in Workers, ExecuteStep(w)
  PROVE  TypeInv'
  <1> USE RunLifecycleAssumption DEF RunLifecycleAssumption, TypeInv, TypeOK, ResultOK
  <1>1. CASE Begin(w) \/ CheckAfter(w)
    <2> DEFINE Way == \/ GoTo(w, "rollback") /\ UNCHANGED wres
                      \/ GoTo(w, "finish") /\ Result(w, "interrupted")
                      \/ GoTo(w, "fail") /\ Result(w, "error")
                      \/ GoTo(w, "exec") /\ UNCHANGED wres
                      \/ GoTo(w, "finish") /\ UNCHANGED wres /\ wpc[w] = "check"
    <2>0. Way
      BY <1>1, CancelKeyWays DEF Begin, CheckAfter
    <2>1. /\ wpc' \in [Workers -> WorkerSteps]
          /\ wres' \in [Workers -> {"none"} \cup Statuses]
      BY <2>0 DEF GoTo, Result, WorkerSteps, Statuses, Terminal
    <2>a. unread' \subseteq RunIds /\ UNCHANGED unannounced
      BY <1>1 DEF Begin, CheckAfter, Held, lookVars
    <2>2. TypeOK'
      BY <1>1, <2>1, <2>a DEF Begin, CheckAfter, OnlyWorker, pgVars, redisVars, apiVars, replyVars
    <2>3. ResultOK'
      BY <2>0 DEF GoTo, Result, Recorded
    <2> QED
      BY <1>1, <2>2, <2>3, RequestKept DEF Begin, CheckAfter, OnlyWorker
  <1>2. CASE Execute(w)
    <2>1. PICK s \in Outcomes \cup {"error"} : Result(w, s)
      BY <1>2 DEF Execute
    <2>2. TypeOK'
      BY <1>2, <2>1 DEF Execute, OnlyWorker, GoTo, Result, WorkerSteps, Statuses, Terminal,
                        pgVars, redisVars, apiVars, boundVars, faultVars, replyVars, lookVars
    <2>3. ResultOK'
      BY <1>2, <2>1 DEF Execute, GoTo, Result, Recorded
    <2> QED
      BY <1>2, <2>2, <2>3, RequestKept DEF Execute, OnlyWorker
  <1>3. CASE FailEarly(w) \/ Finish(w)
    <2>1. status' \in [RunIds -> Statuses] /\ unwritten' \subseteq RunIds /\ abandoned' \subseteq RunIds
      BY <1>3, ResultWriteType DEF FailEarly, Finish, Held
    <2>a. requeued' \in [RunIds -> Nat] /\ unended' \subseteq RunIds
      <3>1. CASE RecordReply(w)
        BY <3>1, ReplyType
      <3>2. RecordReply(w) \/ UNCHANGED replyVars
        BY <1>3 DEF FailEarly, Finish
      <3> QED
        BY <3>1, <3>2 DEF replyVars
    <2>b. wpc' \in [Workers -> WorkerSteps]
      <3>1. PICK s \in {"cron", "hookread", "release"} : GoTo(w, s)
        BY <1>3 DEF FailEarly, Finish, AfterResult
      <3> QED
        BY <3>1 DEF GoTo, WorkerSteps
    <2>2. TypeOK'
      BY <1>3, <2>1, <2>a, <2>b DEF FailEarly, Finish, OnlyStatus, redisVars, apiVars, lookVars
    <2>3. ResultOK'
      BY <1>3 DEF FailEarly, Finish, OnlyStatus, GoTo, AfterResult
    <2> QED
      BY <1>3, <2>2, <2>3, RequestKept DEF FailEarly, Finish, OnlyStatus
  <1>4. CASE RollbackRun(w)
    <2>1. status' \in [RunIds -> Statuses] /\ unwritten' \subseteq RunIds /\ abandoned' \subseteq RunIds
      BY <1>4, RemoveRowType DEF RollbackRun, Held
    <2>2. TypeOK'
      BY <1>4, <2>1 DEF RollbackRun, OnlyStatus, GoTo, WorkerSteps, redisVars, apiVars, replyVars, lookVars
    <2>3. ResultOK'
      BY <1>4 DEF RollbackRun, OnlyStatus, GoTo
    <2> QED
      BY <1>4, <2>2, <2>3, RequestKept DEF RollbackRun, OnlyStatus
  <1>5. CASE UpdateCronExecution(w)
    <2>1. cronExec' \in [RunIds -> {"none", "queued", "rolled_back"} \cup Statuses]
      BY <1>5, RecordedIsStatus DEF UpdateCronExecution
    <2>2. TypeOK'
      BY <1>5, <2>1 DEF UpdateCronExecution, GoTo, WorkerSteps, redisVars, apiVars, boundVars, faultVars, replyVars, lookVars
    <2>3. ResultOK'
      BY <1>5 DEF UpdateCronExecution, GoTo
    <2> QED
      BY <1>5, <2>2, <2>3, RequestKept DEF UpdateCronExecution
  <1>6. CASE ReadWebhook(w)
    <2>a. unannounced' \subseteq RunIds /\ wpc' \in [Workers -> WorkerSteps]
      BY <1>6 DEF ReadWebhook, Held, GoTo, WorkerSteps
    <2>1. TypeOK'
      BY <1>6, <2>a DEF ReadWebhook, OnlyWorker, pgVars, redisVars, apiVars, replyVars
    <2>2. ResultOK'
      BY <1>6 DEF ReadWebhook, GoTo
    <2> QED
      BY <1>6, <2>1, <2>2, RequestKept DEF ReadWebhook, OnlyWorker
  <1>7. CASE InsertDelivery(w)
    <2>1. TypeOK'
      <3>1. deliveries' \in [RunIds -> Nat]
        <4>1. \/ deliveries' = deliveries
              \/ deliveries' = [deliveries EXCEPT ![wrun[w]] = IF Exists(wrun[w]) THEN @ + 1 ELSE @]
          BY <1>7 DEF InsertDelivery
        <4> QED
          BY <4>1
      <3>a. unannounced' \subseteq RunIds
        BY <1>7 DEF InsertDelivery, Held
      <3>2. wpc' \in [Workers -> WorkerSteps]
        BY <1>7 DEF InsertDelivery, GoTo, WorkerSteps
      <3> QED
        BY <1>7, <3>1, <3>a, <3>2 DEF InsertDelivery, redisVars, apiVars, replyVars
    <2>2. ResultOK'
      BY <1>7 DEF InsertDelivery, GoTo
    <2> QED
      BY <1>7, <2>1, <2>2, RequestKept DEF InsertDelivery
  <1>8. CASE Release(w)
    <2>1. TypeOK'
      BY <1>8 DEF Release, GoTo, Result, WorkerSteps, pgVars, apiVars, boundVars, faultVars, replyVars, lookVars
    <2>2. ResultOK'
      BY <1>8 DEF Release, GoTo, Result
    <2> QED
      BY <1>8, <2>1, <2>2, RequestKept DEF Release
  <1> QED
    BY <1>1, <1>2, <1>3, <1>4, <1>5, <1>6, <1>7, <1>8 DEF ExecuteStep

\* Crashes and expiring keys keep the types.
LEMMA FaultType ==
  ASSUME TypeInv,
         (\E w \in Workers : Crash(w)) \/ (\E r \in RunIds : ExpireCancelKey(r))
  PROVE  TypeInv'
  <1> USE RunLifecycleAssumption DEF RunLifecycleAssumption, TypeInv, TypeOK, ResultOK
  <1>1. ASSUME NEW w \in Workers, Crash(w)
        PROVE  TypeInv'
    <2>1. abandoned' \subseteq RunIds
      BY <1>1 DEF Crash, Held
    <2>a. crashes' \in Nat
      BY <1>1 DEF Crash
    <2>2. /\ wpc' \in [Workers -> WorkerSteps]
          /\ wrun' \in [Workers -> RunIds \cup {NoRun}]
          /\ wres' \in [Workers -> {"none"} \cup Statuses]
      BY <1>1 DEF Crash, GoTo, Result, WorkerSteps
    <2>3. TypeOK'
      BY <1>1, <2>1, <2>2, <2>a DEF Crash, pgVars, redisVars, apiVars, replyVars, lookVars
    <2>4. ResultOK'
      BY <1>1 DEF Crash, GoTo, Result
    <2> QED
      BY <1>1, <2>3, <2>4, RequestKept DEF Crash
  <1>2. ASSUME NEW r \in RunIds, ExpireCancelKey(r)
        PROVE  TypeInv'
    BY <1>2, RequestKept DEF ExpireCancelKey, pgVars, apiVars, workerVars, boundVars, faultVars, replyVars, lookVars
  <1> QED
    BY <1>1, <1>2

\* Every step keeps the types.
LEMMA NextType == TypeInv /\ [Next]_vars => TypeInv'
  <1> SUFFICES ASSUME TypeInv, [Next]_vars PROVE TypeInv'
    OBVIOUS
  <1>1. CASE Next
    BY <1>1, ApiType, FetchType, ExecuteType, FaultType DEF Next
  <1>2. CASE UNCHANGED vars
    BY <1>2 DEF vars, pgVars, redisVars, apiVars, workerVars, boundVars, faultVars, replyVars, lookVars,
                TypeInv, TypeOK, ResultOK, RequestOK
  <1> QED
    BY <1>1, <1>2

\* The types hold throughout.
LEMMA TypeInvariance == Spec => []TypeInv
  BY InitType, NextType, PTL DEF Spec

\* Every reachable state has the declared types, whatever the sizes of the
\* instance: in particular runs.status only ever holds a status of the API or
\* one the runtime runner replied with.
THEOREM TypeCorrect == Spec => []TypeOK
  <1>1. TypeInv => TypeOK
    BY DEF TypeInv
  <1> QED
    BY <1>1, TypeInvariance, PTL

-----------------------------------------------------------------------------
(* What a step of the whole system is to the workers.                      *)

\* A step of a request handler, a deletion or the cron loop.
ApiStep ==
  \/ \E c \in Clients : Request(c) \/ HandlerStep(c)
  \/ \E r \in RunIds : DeleteRun(r)
  \/ \E t \in Threads : DeleteThread(t)
  \/ CronSubmit

\* Handlers and the cron loop leave the workers and their histories alone and at
\* most remove deliveries.
LEMMA ApiLeavesWorkers ==
  ASSUME TypeInv, ApiStep
  PROVE  /\ UNCHANGED <<wpc, wrun, wres, claims, unwritten, abandoned, requeued, unended>>
         /\ \A r \in RunIds : deliveries'[r] \in {deliveries[r], 0}
  <1>t. TypeOK
    BY DEF TypeInv
  <1> USE DEF workerVars, boundVars, faultVars, replyVars, lookVars
  <1>1. ASSUME NEW c \in Clients, Request(c) \/ HandlerStep(c)
        PROVE  UNCHANGED <<wpc, wrun, wres, claims, unwritten, abandoned, requeued, unended, deliveries>>
    BY <1>1 DEF Request, HandlerStep, CreateRunSelect, CreateStatelessRun, CancelSignal,
                CreateRunCommit, CreateRunAbort, PushWake, PersistRequest, CancelTx, pgVars
  <1>2. ASSUME NEW q \in RunIds, DeleteRun(q)
        PROVE  /\ UNCHANGED <<wpc, wrun, wres, claims, unwritten, abandoned, requeued, unended>>
               /\ \A r \in RunIds : deliveries'[r] \in {deliveries[r], 0}
    BY <1>2, <1>t DEF DeleteRun, TypeOK
  <1>3. ASSUME NEW t \in Threads, DeleteThread(t)
        PROVE  /\ UNCHANGED <<wpc, wrun, wres, claims, unwritten, abandoned, requeued, unended>>
               /\ \A r \in RunIds : deliveries'[r] \in {deliveries[r], 0}
    BY <1>3 DEF DeleteThread
  <1>4. ASSUME CronSubmit
        PROVE  UNCHANGED <<wpc, wrun, wres, claims, unwritten, abandoned, requeued, unended, deliveries>>
    BY <1>4 DEF CronSubmit
  <1> QED
    BY <1>1, <1>2, <1>3, <1>4 DEF ApiStep

\* A step of executeRun is the worker's own, and claims nothing.
LEMMA ExecuteOwn ==
  ASSUME TypeInv, NEW w \in Workers, ExecuteStep(w)
  PROVE  /\ UNCHANGED claims
         /\ \A v \in Workers \ {w} : wpc'[v] = wpc[v] /\ wrun'[v] = wrun[v]
         /\ wpc[w] # "idle"
         /\ Executing(w)' => Executing(w)
         /\ \/ wpc[w] = "release" /\ wpc'[w] = "idle" /\ wrun'[w] = NoRun
            \/ wpc[w] # "release" /\ wpc'[w] # "idle" /\ wrun' = wrun
  <1>t. wpc \in [Workers -> WorkerSteps] /\ wrun \in [Workers -> RunIds \cup {NoRun}]
    BY DEF TypeInv, TypeOK
  <1> DEFINE Own == /\ UNCHANGED claims
                    /\ \A v \in Workers \ {w} : wpc'[v] = wpc[v] /\ wrun'[v] = wrun[v]
                    /\ wpc[w] # "idle"
                    /\ Executing(w)' => Executing(w)
                    /\ wpc[w] # "release" /\ wpc'[w] # "idle" /\ wrun' = wrun
  <1> USE DEF boundVars, faultVars, replyVars, lookVars
  <1>0. ASSUME NEW s, s # "idle", GoTo(w, s), UNCHANGED <<wrun, claims>>, Executing(w)
        PROVE  Own
    BY <1>0, <1>t DEF GoTo, Executing
  <1>1. ASSUME NEW s \in {"hookread", "hookinsert", "release"}, GoTo(w, s),
               UNCHANGED <<wrun, claims>>, wpc[w] \in {"cron", "hookread", "hookinsert"}
        PROVE  Own
    BY <1>1, <1>t DEF GoTo, Executing
  <1>2. CASE Begin(w) \/ CheckAfter(w)
    <2>1. PICK s \in {"rollback", "finish", "fail", "exec"} : GoTo(w, s)
      BY <1>2, CancelKeyWays DEF Begin, CheckAfter
    <2>2. UNCHANGED <<wrun, claims>> /\ Executing(w)
      BY <1>2 DEF Begin, CheckAfter, OnlyWorker, Executing
    <2> QED
      BY <1>0, <2>1, <2>2
  <1>3. CASE Execute(w)
    BY <1>0, <1>3 DEF Execute, OnlyWorker, Executing
  <1>4. CASE FailEarly(w) \/ Finish(w)
    <2>1. PICK s \in {"cron", "hookread", "release"} : GoTo(w, s)
      BY <1>4 DEF FailEarly, Finish, AfterResult
    <2> QED
      BY <1>0, <1>4, <2>1 DEF FailEarly, Finish, OnlyStatus, Executing
  <1>5. CASE RollbackRun(w)
    BY <1>0, <1>5 DEF RollbackRun, OnlyStatus, Executing
  <1>6. CASE UpdateCronExecution(w)
    BY <1>1, <1>6 DEF UpdateCronExecution
  <1>7. CASE ReadWebhook(w)
    <2>1. PICK s \in {"hookinsert", "release"} : GoTo(w, s)
      BY <1>7 DEF ReadWebhook
    <2> QED
      BY <1>1, <1>7, <2>1 DEF ReadWebhook, OnlyWorker
  <1>8. CASE InsertDelivery(w)
    BY <1>1, <1>8 DEF InsertDelivery
  <1>9. CASE Release(w)
    BY <1>9, <1>t DEF Release, GoTo, Executing
  <1> QED
    BY <1>2, <1>3, <1>4, <1>5, <1>6, <1>7, <1>8, <1>9 DEF ExecuteStep

\* A step that is neither an API step nor executeRun's, seen from the workers.
LEMMA OtherSteps ==
  ASSUME TypeInv, [Next]_vars
  PROVE  \/ ApiStep
         \/ \E w \in Workers : ExecuteStep(w) \/ Crash(w) \/ \E r \in RunIds : wpc[w] = "idle" /\ Claim(w, r)
         \/ UNCHANGED <<pgVars, wpc, wrun, claims, unwritten, abandoned, requeued, unended>>
  <1> USE DEF workerVars, boundVars, faultVars, replyVars, lookVars
  <1>1. ASSUME NEW w \in Workers, Fetch(w)
        PROVE  \/ \E r \in RunIds : wpc[w] = "idle" /\ Claim(w, r)
               \/ UNCHANGED <<pgVars, wpc, wrun, claims, unwritten, abandoned, requeued, unended>>
    BY <1>1 DEF Fetch, ClaimOnWake, ClaimOnTimeout, WakeForNothing
  <1>2. ASSUME NEW r \in RunIds, ExpireCancelKey(r)
        PROVE  UNCHANGED <<pgVars, wpc, wrun, claims, unwritten, abandoned, requeued, unended>>
    BY <1>2 DEF ExpireCancelKey
  <1>3. CASE UNCHANGED vars
    BY <1>3 DEF vars
  <1> QED
    BY <1>1, <1>2, <1>3 DEF Next, ApiStep

\* What a fault has spoilt, and what the runner has replied, stays on record.
LEMMA HistoryGrows ==
  ASSUME TypeInv, [Next]_vars
  PROVE  /\ unwritten \subseteq unwritten' /\ abandoned \subseteq abandoned'
         /\ unended \subseteq unended'
         /\ \A r \in RunIds : requeued'[r] >= requeued[r]
  <1>t. requeued \in [RunIds -> Nat]
    BY DEF TypeInv, TypeOK
  <1> DEFINE Grows == /\ unwritten \subseteq unwritten' /\ abandoned \subseteq abandoned'
                      /\ unended \subseteq unended'
                      /\ \A r \in RunIds : requeued'[r] >= requeued[r]
  <1> USE DEF boundVars, faultVars, replyVars, lookVars
  <1>0. ASSUME unwritten \subseteq unwritten', abandoned \subseteq abandoned', UNCHANGED replyVars
        PROVE  Grows
    BY <1>0, <1>t
  <1>1. ASSUME NEW w \in Workers, FailEarly(w) \/ RollbackRun(w)
        PROVE  Grows
    BY <1>0, <1>1 DEF FailEarly, RollbackRun
  <1>2. ASSUME NEW w \in Workers, Finish(w)
        PROVE  Grows
    <2>1. unwritten' = unwritten /\ abandoned \subseteq abandoned'
      BY <1>2 DEF Finish
    <2>2. CASE RecordReply(w)
      BY <2>1, <2>2, <1>t DEF RecordReply
    <2> QED
      BY <1>0, <1>2, <2>1, <2>2 DEF Finish
  <1>3. ASSUME NEW w \in Workers, ExecuteStep(w)
        PROVE  Grows
    <2>1. CASE Begin(w) \/ Execute(w) \/ CheckAfter(w) \/ ReadWebhook(w)
      BY <1>0, <2>1 DEF Begin, Execute, CheckAfter, ReadWebhook, OnlyWorker
    <2>2. CASE UpdateCronExecution(w) \/ InsertDelivery(w) \/ Release(w)
      BY <1>0, <2>2 DEF UpdateCronExecution, InsertDelivery, Release
    <2> QED
      BY <1>1, <1>2, <1>3, <2>1, <2>2 DEF ExecuteStep
  <1>4. ASSUME NEW w \in Workers, Crash(w) \/ \E r \in RunIds : Claim(w, r)
        PROVE  Grows
    BY <1>0, <1>4 DEF Crash, Claim
  <1> QED
    BY <1>0, <1>3, <1>4, OtherSteps, ApiLeavesWorkers

-----------------------------------------------------------------------------
(* A run is executed by one worker at a time.                              *)

\* Ids not handed out yet have no row.
FreshInv == \A r \in RunIds : r >= nextRun => status[r] = "absent"

\* Of the executions of a run all but one have made it pending again, and while
\* the run is still to be handed out all of them have.
ClaimInv == \A r \in RunIds :
              /\ claims[r] \in {requeued[r], requeued[r] + 1}
              /\ status[r] \in {"absent", "pending"} => claims[r] = requeued[r]

\* A worker holds a run that was handed out, and holds it alone until the run is
\* made pending again; a worker that executes it is the only one to do so.
HoldInv == \A w \in Workers :
             /\ wrun[w] # NoRun =>
                  /\ claims[wrun[w]] >= 1
                  /\ \A v \in Workers : wrun[v] = wrun[w] => v = w \/ requeued[wrun[w]] > 0
             /\ Executing(w) =>
                  /\ wrun[w] \in RunIds
                  /\ claims[wrun[w]] = requeued[wrun[w]] + 1
                  /\ \A v \in Workers : Executing(v) /\ wrun[v] = wrun[w] => v = w

\* The inductive invariant.
ExecInv == TypeInv /\ FreshInv /\ ClaimInv /\ HoldInv

\* What a step of somebody else may do to run r.
CalmMove(r) ==
  \/ status'[r] = status[r]
  \/ r = nextRun /\ nextRun' = nextRun + 1 /\ status[r] = "absent" /\ status'[r] = "pending"
  \/ Exists(r) /\ status'[r] \in {"interrupted", "deleted"}

\* The worker that executes r records a result.
ResultMove(r) ==
  /\ Exists(r)
  /\ \E w \in Workers : Executing(w) /\ wrun[w] = r
  /\ status'[r] \in Recorded \ {"pending"}
  /\ status'[r] = "running" => r \in unended'

\* The worker that executes r makes it pending again.
RequeueMove(r) ==
  /\ Exists(r)
  /\ \E w \in Workers : Executing(w) /\ wrun[w] = r /\ ~Executing(w)'
  /\ "pending" \in Outcomes
  /\ status'[r] = "pending"
  /\ requeued'[r] = requeued[r] + 1

\* What a step that is not a claim may do to run r.
QuietMove(r) ==
  \/ requeued'[r] = requeued[r] /\ (CalmMove(r) \/ ResultMove(r))
  \/ RequeueMove(r)

Quiet ==
  /\ claims' = claims
  /\ nextRun' \in {nextRun, nextRun + 1}
  /\ \A w \in Workers : /\ wrun'[w] \in {wrun[w], NoRun}
                        /\ Executing(w)' => Executing(w) /\ wrun'[w] = wrun[w]
  /\ \A r \in RunIds : QuietMove(r)

\* A step that leaves the runs table alone, and what workers hold, is quiet.
LEMMA QuietStutter ==
  ASSUME UNCHANGED <<status, nextRun, claims, requeued, wrun, wpc>>
  PROVE  Quiet
  BY DEF Quiet, QuietMove, CalmMove, Executing

\* The handlers and the cron loop never claim.
LEMMA ApiQuiet ==
  ASSUME TypeInv, FreshInv, ApiStep
  PROVE  Quiet
  <1>t. TypeOK
    BY DEF TypeInv
  <1>w. UNCHANGED <<wpc, wrun, claims, requeued>>
    BY ApiLeavesWorkers
  <1>q. ASSUME nextRun' \in {nextRun, nextRun + 1}, \A r \in RunIds : CalmMove(r)
        PROVE  Quiet
    BY <1>q, <1>w DEF Quiet, QuietMove, Executing
  <1>s. ASSUME UNCHANGED <<status, nextRun>>
        PROVE  Quiet
    BY <1>s, <1>w, QuietStutter
  <1>1. ASSUME NEW c \in Clients, NEW t \in Threads, NEW s \in Strategies, NEW h \in Hooks,
               CreateRunSelect(c, t, s, h)
        PROVE  Quiet
    BY <1>1, <1>s DEF CreateRunSelect, pgVars
  <1>2. ASSUME status' = [status EXCEPT ![nextRun] = "pending"], nextRun' = nextRun + 1
        PROVE  Quiet
    BY <1>2, <1>q, <1>t DEF CalmMove, FreshInv, TypeOK
  <1>3. ASSUME NEW c \in Clients, NEW h \in Hooks, CreateStatelessRun(c, h)
        PROVE  Quiet
    BY <1>2, <1>3 DEF CreateStatelessRun, InsertRow
  <1>4. ASSUME NEW c \in Clients, NEW r \in RunIds, NEW a \in CancelActions, CancelSignal(c, r, a)
        PROVE  Quiet
    BY <1>4, <1>s DEF CancelSignal, pgVars
  <1>5. ASSUME NEW c \in Clients, CreateRunCommit(c)
        PROVE  Quiet
    <2>1. nextRun \in RunIds /\ nextRun' = nextRun + 1
      BY <1>5 DEF CreateRunCommit, InsertRow
    <2>2. ASSUME NEW r \in RunIds PROVE CalmMove(r)
      <3>1. CASE r = nextRun
        BY <1>5, <2>1, <3>1 DEF CreateRunCommit, CalmMove, FreshInv
      <3>2. CASE r # nextRun /\ r = arun[c]
        <4>1. status'[r] = Replaced(c)
          BY <1>5, <3>2 DEF CreateRunCommit
        <4>2. Replaced(c) \in {status[r], "interrupted", "deleted"}
              /\ (~Exists(r) => Replaced(c) = status[r])
          BY <3>2 DEF Replaced
        <4> QED
          BY <4>1, <4>2 DEF CalmMove
      <3>3. CASE r # nextRun /\ r # arun[c]
        BY <1>5, <3>3 DEF CreateRunCommit, CalmMove
      <3> QED
        BY <3>1, <3>2, <3>3
    <2> QED
      BY <1>q, <2>1, <2>2
  <1>6. ASSUME NEW c \in Clients, CreateRunAbort(c) \/ PushWake(c) \/ PersistRequest(c)
        PROVE  Quiet
    BY <1>6, <1>s DEF CreateRunAbort, PushWake, PersistRequest, pgVars
  <1>7. ASSUME NEW c \in Clients, CancelTx(c)
        PROVE  Quiet
    <2>1. nextRun' = nextRun
      BY <1>7 DEF CancelTx
    <2>2. SetStatus(arun[c], "interrupted") \/ RemoveRow(arun[c]) \/ UNCHANGED status
      BY <1>7 DEF CancelTx
    <2>3. ASSUME NEW r \in RunIds PROVE CalmMove(r)
      BY <2>2, <1>t DEF SetStatus, RemoveRow, CalmMove, TypeOK
    <2> QED
      BY <1>q, <2>1, <2>3
  <1>8. ASSUME NEW r \in RunIds, DeleteRun(r)
        PROVE  Quiet
    BY <1>8, <1>q, <1>t DEF DeleteRun, CalmMove, TypeOK
  <1>9. ASSUME NEW t \in Threads, DeleteThread(t)
        PROVE  Quiet
    BY <1>9, <1>q, <1>t DEF DeleteThread, CalmMove, TypeOK
  <1>10. ASSUME CronSubmit
         PROVE  Quiet
    BY <1>2, <1>10 DEF CronSubmit, InsertRow
  <1> QED
    BY <1>1, <1>3, <1>4, <1>5, <1>6, <1>7, <1>8, <1>9, <1>10 DEF ApiStep, Request, HandlerStep

\* The end of an execution: the result is written as it is, and a reply that
\* leaves the run active is on record.
LEMMA FinishMove ==
  ASSUME TypeInv, NEW w \in Workers, Finish(w), NEW r \in RunIds
  PROVE  QuietMove(r)
  <1>t. /\ status \in [RunIds -> Statuses] /\ requeued \in [RunIds -> Nat]
        /\ wpc \in [Workers -> WorkerSteps] /\ wpc[w] = "finish" /\ wres[w] \in Recorded
    BY DEF TypeInv, TypeOK, ResultOK, Finish
  <1>x. Executing(w) /\ ~Executing(w)'
    BY <1>t DEF Executing, Finish, GoTo, AfterResult
  <1>1. CASE UNCHANGED <<status, replyVars>>
    BY <1>1 DEF QuietMove, CalmMove, replyVars
  <1>2. CASE SetStatus(wrun[w], wres[w]) /\ RecordReply(w)
    <2>1. CASE r # wrun[w] \/ ~Exists(r)
      <3>1. status'[r] = status[r] /\ requeued'[r] = requeued[r]
        BY <1>2, <1>t, <2>1 DEF SetStatus, RecordReply, Held
      <3> QED
        BY <3>1 DEF QuietMove, CalmMove
    <2>2. CASE r = wrun[w] /\ Exists(r) /\ wres[w] # "pending"
      <3>1. /\ status'[r] = wres[w] /\ requeued'[r] = requeued[r]
            /\ wres[w] = "running" => r \in unended'
        BY <1>2, <1>t, <2>2 DEF SetStatus, RecordReply, Held
      <3> QED
        BY <3>1, <2>2, <1>t, <1>x DEF QuietMove, ResultMove
    <2>3. CASE r = wrun[w] /\ Exists(r) /\ wres[w] = "pending"
      <3>1. status'[r] = "pending" /\ requeued'[r] = requeued[r] + 1
        BY <1>2, <1>t, <2>3 DEF SetStatus, RecordReply, Held
      <3>2. "pending" \in Outcomes
        BY <1>t, <2>3 DEF Recorded
      <3> QED
        BY <3>1, <3>2, <2>3, <1>x DEF QuietMove, RequeueMove
    <2> QED
      BY <2>1, <2>2, <2>3
  <1> QED
    BY <1>1, <1>2 DEF Finish

\* executeRun writes results for the run it holds, or removes that run.
LEMMA ExecuteQuiet ==
  ASSUME TypeInv, NEW w \in Workers, ExecuteStep(w)
  PROVE  Quiet
  <1>t. TypeOK /\ ResultOK
    BY DEF TypeInv
  <1>w. /\ claims' = claims
        /\ \A v \in Workers : /\ wrun'[v] \in {wrun[v], NoRun}
                              /\ Executing(v)' => Executing(v) /\ wrun'[v] = wrun[v]
    <2>1. /\ claims' = claims
          /\ \A v \in Workers \ {w} : wpc'[v] = wpc[v] /\ wrun'[v] = wrun[v]
          /\ Executing(w)' => Executing(w)
          /\ \/ wpc'[w] = "idle" /\ wrun'[w] = NoRun
             \/ wrun' = wrun
      BY ExecuteOwn
    <2> QED
      BY <2>1 DEF Executing
  <1>q. ASSUME nextRun' = nextRun, \A r \in RunIds : QuietMove(r)
        PROVE  Quiet
    BY <1>q, <1>w DEF Quiet
  <1>s. ASSUME UNCHANGED <<status, nextRun, requeued>>
        PROVE  Quiet
    BY <1>s, <1>q DEF QuietMove, CalmMove
  <1>1. CASE Begin(w) \/ Execute(w) \/ CheckAfter(w) \/ ReadWebhook(w)
    BY <1>1, <1>s DEF Begin, Execute, CheckAfter, ReadWebhook, OnlyWorker, pgVars, replyVars
  <1>2. CASE FailEarly(w)
    <2>1. UNCHANGED <<nextRun, requeued>>
      BY <1>2 DEF FailEarly, OnlyStatus, replyVars
    <2>2. SetStatus(wrun[w], "error") \/ UNCHANGED status
      BY <1>2, <1>t DEF FailEarly, ResultOK
    <2>3. Executing(w)
      BY <1>2 DEF FailEarly, Executing
    <2>4. ASSUME NEW r \in RunIds PROVE QuietMove(r)
      BY <2>1, <2>2, <2>3, <1>t DEF SetStatus, QuietMove, CalmMove, ResultMove, Recorded, TypeOK
    <2> QED
      BY <2>1, <2>4, <1>q
  <1>3. CASE Finish(w)
    BY <1>3, <1>q, FinishMove DEF Finish, OnlyStatus
  <1>4. CASE RollbackRun(w)
    <2>1. UNCHANGED <<nextRun, requeued>>
      BY <1>4 DEF RollbackRun, OnlyStatus, replyVars
    <2>2. RemoveRow(wrun[w]) \/ UNCHANGED status
      BY <1>4 DEF RollbackRun
    <2>3. ASSUME NEW r \in RunIds PROVE QuietMove(r)
      BY <2>1, <2>2, <1>t DEF RemoveRow, QuietMove, CalmMove, TypeOK
    <2> QED
      BY <2>1, <2>3, <1>q
  <1>5. CASE UpdateCronExecution(w) \/ InsertDelivery(w) \/ Release(w)
    BY <1>5, <1>s DEF UpdateCronExecution, InsertDelivery, Release, pgVars, boundVars, faultVars, replyVars
  <1> QED
    BY <1>1, <1>2, <1>3, <1>4, <1>5 DEF ExecuteStep

\* Every step is quiet, or hands one pending run to one worker.
LEMMA QuietOrClaim ==
  ASSUME TypeInv, FreshInv, [Next]_vars
  PROVE  Quiet \/ \E w \in Workers, r \in RunIds : Claim(w, r)
  <1>t. TypeOK
    BY DEF TypeInv
  <1>1. ASSUME NEW w \in Workers, Crash(w)
        PROVE  Quiet
    BY <1>1, <1>t DEF Crash, GoTo, Executing, Quiet, QuietMove, CalmMove, pgVars, replyVars, TypeOK
  <1> QED
    BY <1>1, ApiQuiet, ExecuteQuiet, QuietStutter, OtherSteps DEF pgVars

\* Nobody holds a run at first.
LEMMA InitExec == Init => ExecInv
  BY InitType DEF Init, ExecInv, FreshInv, ClaimInv, HoldInv, Executing

\* A quiet step keeps who executes what.
LEMMA QuietHold ==
  ASSUME ExecInv, TypeInv', Quiet
  PROVE  ClaimInv' /\ HoldInv'
  <1>t. /\ requeued \in [RunIds -> Nat] /\ claims \in [RunIds -> Nat]
        /\ wrun \in [Workers -> RunIds \cup {NoRun}]
        /\ wrun' \in [Workers -> RunIds \cup {NoRun}]
    BY DEF ExecInv, TypeInv, TypeOK
  <1>o. Recorded \cap {"absent", "pending"} \subseteq {"pending"}
    BY RunLifecycleAssumption DEF RunLifecycleAssumption, Recorded, NoRow
  <1>g. \A r \in RunIds : requeued'[r] \in {requeued[r], requeued[r] + 1}
    BY DEF Quiet, QuietMove, RequeueMove
  <1>1. ASSUME NEW r \in RunIds
        PROVE  /\ claims'[r] \in {requeued'[r], requeued'[r] + 1}
               /\ status'[r] \in {"absent", "pending"} => claims'[r] = requeued'[r]
    <2>1. /\ claims'[r] = claims[r]
          /\ claims[r] \in {requeued[r], requeued[r] + 1}
          /\ status[r] \in {"absent", "pending"} => claims[r] = requeued[r]
      BY DEF Quiet, ExecInv, ClaimInv
    <2>2. CASE requeued'[r] = requeued[r] /\ (CalmMove(r) \/ ResultMove(r))
      BY <2>1, <2>2, <1>o DEF CalmMove, ResultMove
    <2>3. CASE RequeueMove(r)
      BY <2>1, <2>3 DEF RequeueMove, ExecInv, HoldInv
    <2> QED
      BY <2>2, <2>3 DEF Quiet, QuietMove
  <1>2. ASSUME NEW w \in Workers, wrun'[w] # NoRun
        PROVE  /\ claims'[wrun'[w]] >= 1
               /\ \A v \in Workers : wrun'[v] = wrun'[w] => v = w \/ requeued'[wrun'[w]] > 0
    <2>1. wrun'[w] = wrun[w] /\ wrun[w] \in RunIds /\ wrun[w] # NoRun
      BY <1>2, <1>t DEF Quiet
    <2>2. \A v \in Workers : wrun'[v] = wrun[w] => wrun[v] = wrun[w]
      BY <2>1 DEF Quiet
    <2>3. /\ claims[wrun[w]] >= 1
          /\ \A v \in Workers : wrun[v] = wrun[w] => v = w \/ requeued[wrun[w]] > 0
      BY <2>1 DEF ExecInv, HoldInv
    <2> QED
      BY <2>1, <2>2, <2>3, <1>g, <1>t DEF Quiet
  <1>3. ASSUME NEW w \in Workers, Executing(w)'
        PROVE  /\ wrun'[w] \in RunIds
               /\ claims'[wrun'[w]] = requeued'[wrun'[w]] + 1
               /\ \A v \in Workers : Executing(v)' /\ wrun'[v] = wrun'[w] => v = w
    <2>1. Executing(w) /\ wrun'[w] = wrun[w]
      BY <1>3 DEF Quiet
    <2>2. /\ wrun[w] \in RunIds
          /\ claims[wrun[w]] = requeued[wrun[w]] + 1
          /\ \A v \in Workers : Executing(v) /\ wrun[v] = wrun[w] => v = w
      BY <2>1 DEF ExecInv, HoldInv
    <2>3. ~RequeueMove(wrun[w])
      BY <1>3, <2>2 DEF RequeueMove
    <2>4. requeued'[wrun[w]] = requeued[wrun[w]]
      BY <2>2, <2>3 DEF Quiet, QuietMove
    <2> QED
      BY <2>1, <2>2, <2>4 DEF Quiet
  <1> QED
    BY <1>1, <1>2, <1>3 DEF ClaimInv, HoldInv

\* A claim takes a run nobody executes.
LEMMA ClaimHold ==
  ASSUME ExecInv, NEW w \in Workers, NEW r \in RunIds, Claim(w, r)
  PROVE  ClaimInv' /\ HoldInv'
  <1>t. /\ status \in [RunIds -> Statuses] /\ requeued \in [RunIds -> Nat]
        /\ claims \in [RunIds -> Nat] /\ wrun \in [Workers -> RunIds \cup {NoRun}]
        /\ wpc \in [Workers -> WorkerSteps]
    BY DEF ExecInv, TypeInv, TypeOK
  <1>i. ClaimInv /\ HoldInv
    BY DEF ExecInv
  <1>1. /\ status[r] = "pending" /\ claims[r] = requeued[r]
        /\ status' = [status EXCEPT ![r] = "running"]
        /\ claims' = [claims EXCEPT ![r] = @ + 1]
        /\ requeued' = requeued
        /\ wrun' = [wrun EXCEPT ![w] = r]
        /\ wpc' = [wpc EXCEPT ![w] = "start"]
    BY <1>i DEF Claim, ClaimInv, boundVars, faultVars, replyVars
  <1>2. \A v \in Workers : Executing(v) => wrun[v] # r
    BY <1>1, <1>i, <1>t DEF HoldInv
  <1>3. \A v \in Workers : wrun[v] = r => requeued[r] > 0
    BY <1>1, <1>i, <1>t DEF HoldInv
  <1>4. ClaimInv'
    BY <1>1, <1>i, <1>t DEF ClaimInv
  <1>5. ASSUME NEW v \in Workers, wrun'[v] # NoRun
        PROVE  /\ claims'[wrun'[v]] >= 1
               /\ \A u \in Workers : wrun'[u] = wrun'[v] => u = v \/ requeued'[wrun'[v]] > 0
    <2>1. CASE v = w
      BY <1>1, <1>3, <1>t, <2>1
    <2>2. CASE v # w
      <3>1. wrun'[v] = wrun[v] /\ wrun[v] \in RunIds
        BY <1>1, <1>5, <1>t, <2>2
      <3>2. claims'[wrun[v]] >= claims[wrun[v]] /\ claims[wrun[v]] >= 1
        BY <1>1, <1>5, <1>i, <1>t, <3>1 DEF HoldInv
      <3>3. \A u \in Workers : wrun'[u] = wrun[v] => u = v \/ requeued[wrun[v]] > 0
        BY <1>1, <1>3, <1>5, <1>i, <1>t, <3>1 DEF HoldInv
      <3> QED
        BY <1>1, <1>t, <3>1, <3>2, <3>3
    <2> QED
      BY <2>1, <2>2
  <1>6. \A v \in Workers \ {w} : (Executing(v)' <=> Executing(v)) /\ wrun'[v] = wrun[v]
    BY <1>1 DEF Executing
  <1>7. ASSUME NEW v \in Workers, Executing(v)'
        PROVE  /\ wrun'[v] \in RunIds
               /\ claims'[wrun'[v]] = requeued'[wrun'[v]] + 1
               /\ \A u \in Workers : Executing(u)' /\ wrun'[u] = wrun'[v] => u = v
    <2>1. CASE v = w
      BY <1>1, <1>2, <1>6, <1>t, <2>1
    <2>2. CASE v # w
      <3>1. Executing(v) /\ wrun'[v] = wrun[v] /\ wrun[v] # r /\ wrun'[w] = r
        BY <1>1, <1>2, <1>6, <1>7, <1>t, <2>2
      <3>2. /\ wrun[v] \in RunIds
            /\ claims[wrun[v]] = requeued[wrun[v]] + 1
            /\ \A u \in Workers : Executing(u) /\ wrun[u] = wrun[v] => u = v
        BY <3>1, <1>i DEF HoldInv
      <3> QED
        BY <1>1, <1>6, <1>t, <3>1, <3>2
    <2> QED
      BY <2>1, <2>2
  <1> QED
    BY <1>4, <1>5, <1>7 DEF HoldInv

\* Every step keeps what was not created untouched.
LEMMA NextFresh ==
  ASSUME TypeInv, FreshInv, [Next]_vars
  PROVE  FreshInv'
  <1>t. TypeOK /\ TypeOK'
    BY NextType DEF TypeInv
  <1>1. CASE Quiet
    BY <1>1, <1>t DEF Quiet, QuietMove, CalmMove, ResultMove, RequeueMove, FreshInv, TypeOK, Exists, NoRow
  <1>2. ASSUME NEW w \in Workers, NEW r \in RunIds, Claim(w, r)
        PROVE  FreshInv'
    BY <1>2, <1>t DEF Claim, FreshInv, TypeOK
  <1> QED
    BY <1>1, <1>2, QuietOrClaim

\* Every step keeps who may claim, hold and finish a run.
LEMMA NextExec ==
  ASSUME ExecInv, [Next]_vars
  PROVE  ExecInv'
  <1>1. TypeInv' /\ FreshInv'
    BY NextType, NextFresh DEF ExecInv
  <1>2. ClaimInv' /\ HoldInv'
    BY <1>1, QuietHold, ClaimHold, QuietOrClaim DEF ExecInv
  <1> QED
    BY <1>1, <1>2 DEF ExecInv

\* That holds throughout.
LEMMA ExecInvariance == Spec => []ExecInv
  <1>1. ExecInv /\ [Next]_vars => ExecInv'
    BY NextExec
  <1> QED
    BY <1>1, InitExec, PTL DEF Spec

\* However many workers poll the table, whatever is cancelled, lost or crashed,
\* and whatever the runner replies, no two workers execute the same run at the
\* same time, and it is handed out once plus once for each of its executions
\* that made it pending again.
THEOREM AtMostOnce == Spec => []AtMostOnceExecution
  <1>1. ExecInv => AtMostOnceExecution
    <2> SUFFICES ASSUME ExecInv PROVE AtMostOnceExecution
      OBVIOUS
    <2>1. requeued \in [RunIds -> Nat]
      BY DEF ExecInv, TypeInv, TypeOK
    <2> QED
      BY <2>1 DEF ExecInv, ClaimInv, HoldInv, AtMostOnceExecution
  <1> QED
    BY <1>1, ExecInvariance, PTL

-----------------------------------------------------------------------------
(* Deliveries and cron executions reference existing runs.                 *)

\* The runs of the cron loop belong to no thread.
CronThread == \A r \in RunIds : cronExec[r] # "none" => thread[r] = NoThread

\* A worker has a run in hand while it is executing and not otherwise, and one
\* that is about to update an execution row has a run that has one.
WorkerHolds ==
  \A w \in Workers : /\ wpc[w] = "idle" => wrun[w] = NoRun
                     /\ wpc[w] # "idle" => wrun[w] \in RunIds
                     /\ wpc[w] = "cron" => cronExec[wrun[w]] # "none"

\* The inductive invariant.
RefInv == TypeInv /\ FreshInv /\ ReferencesResolve /\ CronThread /\ WorkerHolds

\* A result is a status of an existing row, and not the mark of a missing
\* execution row.
LEMMA RecordedExists == Recorded \cap (NoRow \cup {"none"}) = {}
  BY RunLifecycleAssumption DEF RunLifecycleAssumption, Recorded, NoRow

\* Whatever handlers and the cron loop remove, nothing is left behind.
LEMMA ApiReferences ==
  ASSUME RefInv, ApiStep
  PROVE  ReferencesResolve' /\ CronThread' /\ \A r \in RunIds : cronExec[r] # "none" => cronExec'[r] # "none"
  <1> DEFINE Goal(r) == /\ deliveries'[r] > 0 \/ cronExec'[r] # "none" => status'[r] \notin NoRow
                        /\ cronExec'[r] # "none" => thread'[r] = NoThread
                        /\ cronExec[r] # "none" => cronExec'[r] # "none"
  <1> SUFFICES ASSUME NEW r \in RunIds PROVE Goal(r)
    BY DEF ReferencesResolve, CronThread, Exists
  <1>t. TypeOK
    BY DEF RefInv, TypeInv
  <1>i. /\ deliveries[r] > 0 \/ cronExec[r] # "none" => status[r] \notin NoRow
        /\ cronExec[r] # "none" => thread[r] = NoThread
        /\ deliveries[r] \in Nat
        /\ r = nextRun => deliveries[r] = 0 /\ cronExec[r] = "none"
    BY <1>t DEF RefInv, FreshInv, ReferencesResolve, CronThread, Exists, NoRow, TypeOK
  <1>n. \A s \in {"pending", "interrupted"} : s \notin NoRow
    BY DEF NoRow
  <1>0. ASSUME UNCHANGED <<status, thread, cronExec, deliveries>>
        PROVE  Goal(r)
    BY <1>0, <1>i
  <1>1. ASSUME NEW c \in Clients, NEW t \in Threads, NEW s \in Strategies, NEW h \in Hooks,
               CreateRunSelect(c, t, s, h)
        PROVE  Goal(r)
    BY <1>1, <1>0 DEF CreateRunSelect, pgVars
  <1>2. ASSUME NEW c \in Clients, NEW h \in Hooks, CreateStatelessRun(c, h)
        PROVE  Goal(r)
    BY <1>2, <1>i, <1>n, <1>t DEF CreateStatelessRun, InsertRow, TypeOK
  <1>3. ASSUME NEW c \in Clients, NEW q \in RunIds, NEW a \in CancelActions, CancelSignal(c, q, a)
        PROVE  Goal(r)
    BY <1>3, <1>0 DEF CancelSignal, pgVars
  <1>4. ASSUME NEW c \in Clients, CreateRunCommit(c)
        PROVE  Goal(r)
    <2>1. /\ UNCHANGED <<cronExec, deliveries>>
          /\ r # nextRun => thread'[r] = thread[r]
      BY <1>4, <1>t DEF CreateRunCommit, InsertRow, TypeOK
    <2>2. CASE r = nextRun
      BY <1>i, <2>1, <2>2
    <2>3. CASE r # nextRun /\ r # arun[c]
      BY <1>4, <1>i, <2>1, <2>3 DEF CreateRunCommit
    <2>4. CASE r # nextRun /\ r = arun[c]
      <3>1. status'[r] = Replaced(c)
        BY <1>4, <2>4 DEF CreateRunCommit
      <3>2. Replaced(c) \in {status[r], "interrupted"}
            \/ (deliveries[r] = 0 /\ cronExec[r] = "none")
        BY <1>4, <2>4 DEF CreateRunCommit, Replaced, Deletable
      <3> QED
        BY <1>i, <1>n, <2>1, <2>4, <3>1, <3>2
    <2> QED
      BY <2>2, <2>3, <2>4
  <1>5. ASSUME NEW c \in Clients, CreateRunAbort(c) \/ PushWake(c) \/ PersistRequest(c)
        PROVE  Goal(r)
    BY <1>5, <1>0 DEF CreateRunAbort, PushWake, PersistRequest, pgVars
  <1>6. ASSUME NEW c \in Clients, CancelTx(c)
        PROVE  Goal(r)
    <2>1. UNCHANGED <<thread, cronExec, deliveries>>
      BY <1>6 DEF CancelTx
    <2>2. \/ status'[r] \in {status[r], "interrupted"}
          \/ deliveries[r] = 0 /\ cronExec[r] = "none"
      BY <1>6, <1>t DEF CancelTx, SetStatus, RemoveRow, Deletable, TypeOK
    <2> QED
      BY <1>i, <1>n, <2>1, <2>2
  <1>7. ASSUME NEW q \in RunIds, DeleteRun(q)
        PROVE  Goal(r)
    BY <1>7, <1>i, <1>t DEF DeleteRun, TypeOK
  <1>8. ASSUME NEW t \in Threads, DeleteThread(t)
        PROVE  Goal(r)
    <2>1. t # NoThread
      BY RunLifecycleAssumption DEF RunLifecycleAssumption
    <2> QED
      BY <1>8, <1>i, <2>1 DEF DeleteThread
  <1>9. ASSUME CronSubmit
        PROVE  Goal(r)
    BY <1>9, <1>i, <1>n, <1>t DEF CronSubmit, InsertRow, TypeOK
  <1> QED
    BY <1>1, <1>2, <1>3, <1>4, <1>5, <1>6, <1>7, <1>8, <1>9 DEF ApiStep, Request, HandlerStep

\* A worker writes only through foreign keys that hold, or finds the row there.
LEMMA ExecuteReferences ==
  ASSUME RefInv, NEW w \in Workers, ExecuteStep(w)
  PROVE  ReferencesResolve' /\ CronThread' /\ WorkerHolds'
  <1>t. TypeOK /\ ResultOK
    BY DEF RefInv, TypeInv
  <1>i. ReferencesResolve /\ CronThread /\ WorkerHolds
    BY DEF RefInv
  <1>n. Recorded \cap (NoRow \cup {"none"}) = {}
    BY RecordedExists
  <1>h. wpc[w] # "idle" => wrun[w] \in RunIds
    BY <1>i DEF WorkerHolds
  <1>1. ASSUME UNCHANGED <<status, thread, cronExec, deliveries, wrun>>,
               NEW s, s \notin {"cron", "idle"}, GoTo(w, s), wpc[w] # "idle"
        PROVE  ReferencesResolve' /\ CronThread' /\ WorkerHolds'
    BY <1>1, <1>i, <1>t, <1>h DEF ReferencesResolve, CronThread, WorkerHolds, Exists, GoTo, TypeOK
  <1>2. CASE Begin(w) \/ CheckAfter(w)
    <2>1. PICK s \in {"rollback", "finish", "fail", "exec"} : GoTo(w, s)
      BY <1>2, CancelKeyWays DEF Begin, CheckAfter
    <2> QED
      BY <1>1, <1>2, <2>1 DEF Begin, CheckAfter, OnlyWorker, pgVars
  <1>3. CASE Execute(w)
    BY <1>1, <1>3 DEF Execute, OnlyWorker, pgVars
  <1>4. CASE ReadWebhook(w)
    <2>1. PICK s \in {"hookinsert", "release"} : GoTo(w, s)
      BY <1>4 DEF ReadWebhook
    <2> QED
      BY <1>1, <1>4, <2>1 DEF ReadWebhook, OnlyWorker, pgVars
  <1>5. CASE FailEarly(w) \/ Finish(w)
    <2>1. UNCHANGED <<thread, cronExec, deliveries, wrun>>
      BY <1>5 DEF FailEarly, Finish, OnlyStatus
    <2>2. wres[w] \in Recorded /\ (SetStatus(wrun[w], wres[w]) \/ UNCHANGED status)
      BY <1>5, <1>t DEF FailEarly, Finish, ResultOK
    <2>3. \A r \in RunIds : status[r] \notin NoRow => status'[r] \notin NoRow
      BY <2>2, <1>n, <1>t DEF SetStatus, TypeOK
    <2>4. ReferencesResolve' /\ CronThread'
      BY <2>1, <2>3, <1>i DEF ReferencesResolve, CronThread, Exists
    <2>5. GoTo(w, "release") \/ GoTo(w, AfterResult(wrun[w]))
      BY <1>5 DEF FailEarly, Finish
    <2>6. WorkerHolds'
      BY <1>5, <2>1, <2>5, <1>i, <1>h, <1>t
      DEF WorkerHolds, GoTo, AfterResult, TypeOK, FailEarly, Finish
    <2> QED
      BY <2>4, <2>6
  <1>6. CASE RollbackRun(w)
    <2>1. UNCHANGED <<thread, cronExec, deliveries, wrun>> /\ GoTo(w, "release")
      BY <1>6 DEF RollbackRun, OnlyStatus
    <2>2. \A r \in RunIds : \/ status'[r] = status[r]
                            \/ deliveries[r] = 0 /\ cronExec[r] = "none"
      BY <1>6, <1>t DEF RollbackRun, RemoveRow, Deletable, TypeOK
    <2>3. ReferencesResolve' /\ CronThread'
      BY <2>1, <2>2, <1>i DEF ReferencesResolve, CronThread, Exists
    <2>4. WorkerHolds'
      BY <1>6, <2>1, <1>i, <1>h, <1>t DEF WorkerHolds, GoTo, TypeOK, RollbackRun
    <2> QED
      BY <2>3, <2>4
  <1>7. CASE UpdateCronExecution(w)
    <2>1. UNCHANGED <<status, thread, deliveries, wrun>> /\ GoTo(w, "hookread")
      BY <1>7 DEF UpdateCronExecution
    <2>2. wres[w] # "none" /\ cronExec[wrun[w]] # "none" /\ wrun[w] \in RunIds
      BY <1>7, <1>n, <1>h, <1>i, <1>t DEF UpdateCronExecution, ResultOK, WorkerHolds
    <2>3. \A r \in RunIds : cronExec'[r] # "none" <=> cronExec[r] # "none"
      BY <1>7, <2>2, <1>t DEF UpdateCronExecution, TypeOK
    <2>4. ReferencesResolve' /\ CronThread'
      BY <2>1, <2>3, <1>i DEF ReferencesResolve, CronThread, Exists
    <2>5. WorkerHolds'
      BY <1>7, <2>1, <2>3, <1>i, <1>h, <1>t DEF WorkerHolds, GoTo, TypeOK, UpdateCronExecution
    <2> QED
      BY <2>4, <2>5
  <1>8. CASE InsertDelivery(w)
    <2>1. UNCHANGED <<status, thread, cronExec, wrun>> /\ GoTo(w, "release")
      BY <1>8 DEF InsertDelivery
    <2>2. \A r \in RunIds : deliveries'[r] = deliveries[r] \/ Exists(r)
      BY <1>8, <1>t DEF InsertDelivery, TypeOK
    <2>3. ReferencesResolve' /\ CronThread'
      BY <2>1, <2>2, <1>i DEF ReferencesResolve, CronThread, Exists
    <2>4. WorkerHolds'
      BY <1>8, <2>1, <1>i, <1>h, <1>t DEF WorkerHolds, GoTo, TypeOK, InsertDelivery
    <2> QED
      BY <2>3, <2>4
  <1>9. CASE Release(w)
    BY <1>9, <1>i, <1>t
    DEF Release, GoTo, ReferencesResolve, CronThread, WorkerHolds, Exists, pgVars, TypeOK
  <1> QED
    BY <1>2, <1>3, <1>4, <1>5, <1>6, <1>7, <1>8, <1>9 DEF ExecuteStep

\* References resolve at first.
LEMMA InitReferences == Init => RefInv
  <1> SUFFICES ASSUME Init PROVE RefInv
    OBVIOUS
  <1>1. TypeInv /\ FreshInv
    BY InitType DEF Init, FreshInv
  <1>2. ReferencesResolve /\ CronThread /\ WorkerHolds
    BY DEF Init, ReferencesResolve, CronThread, WorkerHolds
  <1> QED
    BY <1>1, <1>2 DEF RefInv

\* Every step keeps references to rows that are there.
LEMMA NextReferences ==
  ASSUME RefInv, [Next]_vars
  PROVE  RefInv'
  <1>t. TypeInv /\ FreshInv /\ TypeOK
    BY DEF RefInv, TypeInv
  <1>i. ReferencesResolve /\ CronThread /\ WorkerHolds
    BY DEF RefInv
  <1>1. TypeInv' /\ FreshInv'
    BY <1>t, NextType, NextFresh
  <1>2. ASSUME UNCHANGED <<status, thread, cronExec, deliveries, wpc, wrun>>
        PROVE  ReferencesResolve' /\ CronThread' /\ WorkerHolds'
    BY <1>2, <1>i DEF ReferencesResolve, CronThread, WorkerHolds, Exists
  <1>3. ASSUME ApiStep
        PROVE  ReferencesResolve' /\ CronThread' /\ WorkerHolds'
    <2>1. /\ ReferencesResolve' /\ CronThread'
          /\ \A r \in RunIds : cronExec[r] # "none" => cronExec'[r] # "none"
          /\ wpc' = wpc /\ wrun' = wrun
      BY <1>3, <1>t, ApiReferences, ApiLeavesWorkers
    <2>2. WorkerHolds'
      BY <2>1, <1>i DEF WorkerHolds
    <2> QED
      BY <2>1, <2>2
  <1>4. ASSUME NEW w \in Workers, ExecuteStep(w)
        PROVE  ReferencesResolve' /\ CronThread' /\ WorkerHolds'
    BY <1>4, ExecuteReferences
  <1>5. ASSUME NEW w \in Workers, Fetch(w)
        PROVE  ReferencesResolve' /\ CronThread' /\ WorkerHolds'
    <2>1. CASE WakeForNothing(w)
      BY <1>2, <2>1 DEF WakeForNothing, pgVars, workerVars
    <2>2. ASSUME NEW r \in RunIds, Claim(w, r)
          PROVE  ReferencesResolve' /\ CronThread' /\ WorkerHolds'
      <3>1. ReferencesResolve' /\ CronThread'
        BY <2>2, <1>i, <1>t DEF Claim, ReferencesResolve, CronThread, Exists, NoRow, TypeOK
      <3>2. WorkerHolds'
        BY <2>2, <1>i, <1>t DEF Claim, WorkerHolds, TypeOK
      <3> QED
        BY <3>1, <3>2
    <2> QED
      BY <1>5, <2>1, <2>2 DEF Fetch, ClaimOnWake, ClaimOnTimeout
  <1>6. ASSUME NEW w \in Workers, Crash(w)
        PROVE  ReferencesResolve' /\ CronThread' /\ WorkerHolds'
    BY <1>6, <1>i, <1>t
    DEF Crash, GoTo, ReferencesResolve, CronThread, WorkerHolds, Exists, pgVars, TypeOK
  <1>7. ASSUME NEW r \in RunIds, ExpireCancelKey(r)
        PROVE  ReferencesResolve' /\ CronThread' /\ WorkerHolds'
    BY <1>2, <1>7 DEF ExpireCancelKey, pgVars, workerVars
  <1>8. ASSUME UNCHANGED vars
        PROVE  ReferencesResolve' /\ CronThread' /\ WorkerHolds'
    BY <1>2, <1>8 DEF vars, pgVars, workerVars
  <1> QED
    BY <1>1, <1>3, <1>4, <1>5, <1>6, <1>7, <1>8 DEF RefInv, Next, ApiStep

\* References resolve throughout.
LEMMA ReferencesInvariance == Spec => []RefInv
  <1>1. RefInv /\ [Next]_vars => RefInv'
    BY NextReferences
  <1> QED
    BY <1>1, InitReferences, PTL DEF Spec

\* Whichever of the five ways removes a run, and in whatever order with the
\* worker's own writes, no delivery and no cron execution is left that
\* references a missing run.
THEOREM NoDanglingReference == Spec => []ReferencesResolve
  <1>1. RefInv => ReferencesResolve
    BY DEF RefInv
  <1> QED
    BY <1>1, ReferencesInvariance, PTL

-----------------------------------------------------------------------------
(* Deliveries: one for a run, and only for a finished one.                 *)

\* A run has no delivery before it was handed out, nor while its worker has not
\* come to the end: what the existence check of enqueueWebhookForRun saw is
\* still true when it inserts.  A run made pending again is excused.
OnceInv ==
  /\ \A r \in RunIds : /\ deliveries[r] <= 1 \/ requeued[r] > 0
                       /\ claims[r] = 0 => deliveries[r] = 0
  /\ \A w \in Workers : wpc[w] \notin {"idle", "release"} =>
                          deliveries[wrun[w]] = 0 \/ requeued[wrun[w]] > 0

\* The inductive invariant.
LifeInv == ExecInv /\ RefInv /\ OnceInv

\* Of all steps, only a worker's InsertDelivery adds a delivery.
LEMMA ExecuteDeliveries ==
  ASSUME NEW w \in Workers, ExecuteStep(w)
  PROVE  deliveries' = deliveries \/ InsertDelivery(w)
  BY DEF ExecuteStep, Begin, FailEarly, Execute, CheckAfter, RollbackRun, Finish,
         UpdateCronExecution, ReadWebhook, Release, OnlyWorker, OnlyStatus, pgVars

\* Every step keeps that a run has one delivery at most.
LEMMA NextOnce ==
  ASSUME LifeInv, [Next]_vars
  PROVE  OnceInv'
  <1>t. TypeInv /\ TypeOK
    BY DEF LifeInv, RefInv, TypeInv
  <1>i. OnceInv /\ HoldInv /\ ClaimInv /\ WorkerHolds
    BY DEF LifeInv, ExecInv, RefInv
  <1>d. /\ deliveries \in [RunIds -> Nat] /\ claims \in [RunIds -> Nat]
        /\ requeued \in [RunIds -> Nat] /\ requeued' \in [RunIds -> Nat]
    BY <1>t, NextType DEF TypeInv, TypeOK
  <1>g. \A r \in RunIds : requeued'[r] >= requeued[r]
    BY <1>t, HistoryGrows
  <1>m. \A r \in RunIds : requeued[r] > 0 => requeued'[r] > 0
    BY <1>g, <1>d
  <1>1. ASSUME UNCHANGED <<deliveries, claims, wpc, wrun>>
        PROVE  OnceInv'
    BY <1>1, <1>i, <1>m DEF OnceInv, WorkerHolds
  <1>2. ASSUME ApiStep
        PROVE  OnceInv'
    <2>1. /\ UNCHANGED <<wpc, wrun, claims>>
          /\ \A r \in RunIds : deliveries'[r] \in {deliveries[r], 0}
      BY <1>2, <1>t, ApiLeavesWorkers
    <2> QED
      BY <2>1, <1>i, <1>d, <1>m DEF OnceInv, WorkerHolds
  <1>3. ASSUME NEW w \in Workers, ExecuteStep(w)
        PROVE  OnceInv'
    <2>1. /\ claims' = claims
          /\ \A v \in Workers \ {w} : wpc'[v] = wpc[v] /\ wrun'[v] = wrun[v]
          /\ wpc'[w] # "idle" => wrun'[w] = wrun[w] /\ wpc[w] \notin {"idle", "release"}
      BY <1>3, <1>t, ExecuteOwn
    <2>2. CASE deliveries' = deliveries
      BY <2>1, <2>2, <1>i, <1>m DEF OnceInv, WorkerHolds
    <2>3. CASE InsertDelivery(w)
      <3>1. wrun[w] \in RunIds /\ wpc'[w] = "release" /\ requeued' = requeued
        BY <2>3, <1>i, <1>t DEF InsertDelivery, GoTo, WorkerHolds, TypeOK, replyVars
      <3>2. claims[wrun[w]] >= 1 /\ (deliveries[wrun[w]] = 0 \/ requeued[wrun[w]] > 0)
        BY <2>3, <3>1, <1>i DEF InsertDelivery, OnceInv, HoldInv
      <3>3. /\ \A r \in RunIds : r # wrun[w] => deliveries'[r] = deliveries[r]
            /\ deliveries'[wrun[w]] <= 1 \/ requeued[wrun[w]] > 0
        <4>1. \/ deliveries' = deliveries
              \/ deliveries' = [deliveries EXCEPT ![wrun[w]] = @ + 1]
          BY <2>3, <3>1, <1>d DEF InsertDelivery
        <4>2. CASE deliveries' = deliveries
          BY <4>2, <3>2
        <4>3. CASE deliveries' = [deliveries EXCEPT ![wrun[w]] = @ + 1]
          <5>1. deliveries'[wrun[w]] = deliveries[wrun[w]] + 1
            BY <4>3, <3>1, <1>d
          <5> QED
            BY <4>3, <5>1, <3>2, <1>d
        <4> QED
          BY <4>1, <4>2, <4>3
      <3>4. \A v \in Workers \ {w} : wrun[v] # wrun[w] \/ requeued[wrun[w]] > 0
        BY <3>1, <1>i DEF HoldInv
      <3>5. \A r \in RunIds : /\ deliveries'[r] <= 1 \/ requeued[r] > 0
                              /\ claims[r] = 0 => deliveries'[r] = 0
        BY <3>2, <3>3, <1>i DEF OnceInv
      <3>6. ASSUME NEW v \in Workers, wpc'[v] \notin {"idle", "release"}
            PROVE  deliveries'[wrun'[v]] = 0 \/ requeued[wrun'[v]] > 0
        BY <3>1, <3>3, <3>4, <3>6, <2>1, <1>i DEF OnceInv, WorkerHolds
      <3> QED
        BY <2>1, <3>1, <3>5, <3>6 DEF OnceInv
    <2> QED
      BY <1>3, <2>2, <2>3, ExecuteDeliveries
  <1>4. ASSUME NEW w \in Workers, NEW r \in RunIds, Claim(w, r)
        PROVE  OnceInv'
    <2>1. /\ deliveries[r] = 0 \/ requeued[r] > 0
          /\ UNCHANGED <<deliveries, requeued>>
      BY <1>4, <1>i, <1>d DEF Claim, ClaimInv, OnceInv, boundVars, faultVars, replyVars
    <2>2. /\ claims' = [claims EXCEPT ![r] = @ + 1]
          /\ wrun' = [wrun EXCEPT ![w] = r] /\ wpc' = [wpc EXCEPT ![w] = "start"]
      BY <1>4 DEF Claim
    <2>3. \A q \in RunIds : claims'[q] = 0 => claims[q] = 0
      BY <2>2, <1>d
    <2> QED
      BY <2>1, <2>2, <2>3, <1>i, <1>d, <1>t DEF OnceInv, TypeOK
  <1>5. ASSUME NEW w \in Workers, Crash(w)
        PROVE  OnceInv'
    BY <1>5, <1>i, <1>t DEF Crash, GoTo, OnceInv, pgVars, replyVars, TypeOK
  <1> QED
    BY <1>1, <1>2, <1>3, <1>4, <1>5, <1>t, OtherSteps DEF pgVars

\* The invariant of a run from claim to delivery holds at first.
LEMMA InitLife == Init => LifeInv
  <1>1. Init => OnceInv
    BY DEF Init, OnceInv
  <1> QED
    BY <1>1, InitExec, InitReferences DEF LifeInv

\* Every step keeps it.
LEMMA NextLife ==
  ASSUME LifeInv, [Next]_vars
  PROVE  LifeInv'
  BY NextExec, NextReferences, NextOnce DEF LifeInv

\* It holds throughout.
LEMMA LifeInvariance == Spec => []LifeInv
  <1>1. LifeInv /\ [Next]_vars => LifeInv'
    BY NextLife
  <1> QED
    BY <1>1, InitLife, PTL DEF Spec

\* The existence check and the INSERT of enqueueWebhookForRun are two statements
\* with nothing between workers but the claim: a run gets a second delivery only
\* if the runner made it pending again and it was handed out once more.
THEOREM OneDelivery == Spec => []OneDeliveryPerRun
  <1>1. LifeInv => OneDeliveryPerRun
    BY DEF LifeInv, OnceInv, OneDeliveryPerRun
  <1> QED
    BY <1>1, LifeInvariance, PTL

\* What may keep a run active past the record of its result: the dropped error of
\* the early failure, or the runner's own reply.
Excused(r) == r \in unwritten \cup unended \/ requeued[r] > 0

\* Once executeRun is past recording the result, the run is finished or excused.
AfterRecord ==
  \A w \in Workers :
    wpc[w] \in {"cron", "hookread", "hookinsert"} =>
      status[wrun[w]] \notin Active \/ Excused(wrun[w])

\* The inductive invariant: everything executeRun relies on.
FinishInv == LifeInv /\ AfterRecord /\ DeliveryMeansFinished /\ RunningHasWorker

\* An excuse is never lost.
LEMMA ExcusedStays ==
  ASSUME TypeInv, [Next]_vars, NEW r \in RunIds, Excused(r)
  PROVE  Excused(r)'
  <1>1. requeued[r] \in Nat /\ requeued'[r] \in Nat
    BY NextType DEF TypeInv, TypeOK
  <1> QED
    BY <1>1, HistoryGrows DEF Excused

\* A run that was handed out and is not active any more becomes so again only by
\* its runner's reply.
LEMMA StaysInactive ==
  ASSUME LifeInv, [Next]_vars,
         NEW r \in RunIds, claims[r] # 0, status[r] \notin Active, ~Excused(r)'
  PROVE  status'[r] \notin Active
  <1>t. TypeInv /\ TypeOK /\ FreshInv /\ ClaimInv
    BY DEF LifeInv, ExecInv, TypeInv
  <1>r. requeued[r] \in Nat /\ requeued'[r] \in Nat /\ claims[r] \in Nat
    BY <1>t, NextType DEF TypeInv, TypeOK
  <1>e. requeued'[r] = 0 /\ requeued[r] = 0 /\ r \notin unended'
    BY <1>t, <1>r, HistoryGrows DEF Excused
  <1>1. CASE Quiet
    <2>1. Active = {"pending", "running"}
      BY DEF Active
    <2>2. status[r] # "absent"
      BY <1>t, <1>e DEF ClaimInv
    <2>3. ~RequeueMove(r)
      BY <1>e DEF RequeueMove
    <2> QED
      BY <1>1, <1>e, <2>1, <2>2, <2>3 DEF Quiet, QuietMove, CalmMove, ResultMove
  <1>2. ASSUME NEW w \in Workers, NEW q \in RunIds, Claim(w, q)
        PROVE  status'[r] \notin Active
    BY <1>2, <1>t DEF Claim, TypeOK, Active
  <1> QED
    BY <1>1, <1>2, <1>t, QuietOrClaim

\* A run becomes running by a claim, or by its runner's reply.
LEMMA RunningByClaim ==
  ASSUME LifeInv, [Next]_vars,
         NEW r \in RunIds, status'[r] = "running", r \notin unended'
  PROVE  status[r] = "running" \/ \E w \in Workers : Claim(w, r)
  <1>t. TypeInv /\ TypeOK /\ FreshInv
    BY DEF LifeInv, ExecInv, TypeInv
  <1>1. CASE Quiet
    BY <1>1 DEF Quiet, QuietMove, CalmMove, ResultMove, RequeueMove
  <1>2. ASSUME NEW w \in Workers, NEW q \in RunIds, Claim(w, q)
        PROVE  status[r] = "running" \/ Claim(w, r)
    BY <1>2, <1>t DEF Claim, TypeOK
  <1> QED
    BY <1>1, <1>2, <1>t, QuietOrClaim

\* The end of an execution leaves the run inactive or excused.
LEMMA ResultRecorded ==
  ASSUME TypeInv, NEW w \in Workers, FailEarly(w) \/ Finish(w),
         NEW r \in RunIds, wrun[w] = r, wpc'[w] # "release"
  PROVE  status'[r] \notin Active \/ Excused(r)'
  <1>t. /\ status \in [RunIds -> Statuses] /\ requeued \in [RunIds -> Nat]
        /\ wpc \in [Workers -> WorkerSteps] /\ r \in Held(w)
    BY DEF TypeInv, TypeOK, Held
  <1>1. CASE FailEarly(w)
    <2>1. wres[w] \notin Active
      BY <1>1 DEF FailEarly, TypeInv, ResultOK, Active
    <2>2. CASE SetStatus(r, wres[w])
      BY <1>t, <2>1, <2>2 DEF SetStatus, Exists, NoRow, Active
    <2>3. CASE unwritten' = unwritten \cup Held(w)
      BY <1>t, <2>3 DEF Excused
    <2> QED
      BY <1>1, <2>2, <2>3 DEF FailEarly
  <1>2. CASE Finish(w)
    <2>1. SetStatus(r, wres[w]) /\ RecordReply(w)
      BY <1>2, <1>t DEF Finish, GoTo
    <2>2. CASE ~Exists(r)
      BY <1>t, <2>1, <2>2 DEF SetStatus, Exists, NoRow, Active
    <2>3. CASE Exists(r) /\ wres[w] = "pending"
      <3>1. requeued'[r] = requeued[r] + 1
        BY <1>t, <2>1, <2>3 DEF RecordReply
      <3> QED
        BY <1>t, <3>1 DEF Excused
    <2>4. CASE Exists(r) /\ wres[w] = "running"
      BY <1>t, <2>1, <2>4 DEF RecordReply, Excused
    <2>5. CASE Exists(r) /\ wres[w] \notin Active
      BY <1>t, <2>1, <2>5 DEF SetStatus
    <2> QED
      BY <2>2, <2>3, <2>4, <2>5 DEF Active
  <1> QED
    BY <1>1, <1>2

\* A result is recorded before the steps that announce it.
LEMMA NextAfterRecord ==
  ASSUME FinishInv, [Next]_vars
  PROVE  AfterRecord'
  <1> DEFINE Announces == {"cron", "hookread", "hookinsert"}
  <1> SUFFICES ASSUME NEW v \in Workers, wpc'[v] \in Announces,
                      NEW q, q = wrun'[v], ~Excused(q)'
               PROVE  status'[q] \notin Active
    BY DEF AfterRecord, Excused
  <1>t. TypeInv /\ TypeOK /\ ResultOK
    BY DEF FinishInv, LifeInv, RefInv, TypeInv
  <1>i. LifeInv /\ HoldInv /\ WorkerHolds
    BY DEF FinishInv, LifeInv, ExecInv, RefInv
  <1>0. ASSUME wpc[v] \in Announces, q = wrun[v]
        PROVE  status'[q] \notin Active
    <2>1. q \in RunIds /\ claims[q] # 0
      BY <1>0, <1>i DEF WorkerHolds, HoldInv
    <2>2. ~Excused(q)
      BY <1>t, <2>1, ExcusedStays
    <2>3. status[q] \notin Active
      BY <1>0, <2>2 DEF FinishInv, AfterRecord
    <2> QED
      BY <1>i, <2>1, <2>3, StaysInactive
  <1>1. CASE UNCHANGED <<wpc, wrun>>
    BY <1>0, <1>1
  <1>2. ASSUME NEW w \in Workers, ExecuteStep(w)
        PROVE  status'[q] \notin Active
    <2>1. CASE v # w
      BY <1>0, <1>2, <1>t, <2>1, ExecuteOwn
    <2>2. CASE v = w
      <3>1. q = wrun[w] /\ q \in RunIds
        BY <1>2, <1>t, <1>i, <2>2, ExecuteOwn DEF WorkerHolds
      <3>2. CASE FailEarly(w) \/ Finish(w)
        BY <2>2, <3>1, <3>2, <1>t, ResultRecorded
      <3>3. CASE ~(FailEarly(w) \/ Finish(w))
        <4>0. ASSUME NEW s, GoTo(w, s) PROVE wpc'[w] = s
          BY <4>0, <1>t DEF GoTo, TypeOK
        <4>1. CASE Begin(w) \/ CheckAfter(w)
          BY <2>2, <4>0, <4>1, CancelKeyWays DEF Begin, CheckAfter
        <4>2. CASE Execute(w) \/ RollbackRun(w) \/ InsertDelivery(w) \/ Release(w)
          BY <2>2, <4>0, <4>2 DEF Execute, RollbackRun, InsertDelivery, Release
        <4>3. CASE UpdateCronExecution(w) \/ ReadWebhook(w)
          BY <1>0, <2>2, <3>1, <4>3 DEF UpdateCronExecution, ReadWebhook
        <4> QED
          BY <1>2, <3>3, <4>1, <4>2, <4>3 DEF ExecuteStep
      <3> QED
        BY <3>2, <3>3
    <2> QED
      BY <2>1, <2>2
  <1>3. ASSUME NEW w \in Workers, NEW r \in RunIds, Claim(w, r)
        PROVE  status'[q] \notin Active
    <2>1. v # w
      BY <1>3, <1>t DEF Claim, TypeOK
    <2> QED
      BY <1>0, <1>3, <1>t, <2>1 DEF Claim, TypeOK
  <1>4. ASSUME NEW w \in Workers, Crash(w)
        PROVE  status'[q] \notin Active
    <2>1. v # w
      BY <1>4, <1>t DEF Crash, GoTo, TypeOK
    <2> QED
      BY <1>0, <1>4, <1>t, <2>1 DEF Crash, GoTo, TypeOK
  <1>5. CASE ApiStep
    BY <1>1, <1>5, <1>t, ApiLeavesWorkers
  <1> QED
    BY <1>1, <1>2, <1>3, <1>4, <1>5, <1>t, OtherSteps

\* A delivery is inserted for a run whose result is recorded.
LEMMA NextDelivery ==
  ASSUME FinishInv, [Next]_vars
  PROVE  DeliveryMeansFinished'
  <1> SUFFICES ASSUME NEW r \in RunIds, deliveries'[r] > 0, ~Excused(r)'
               PROVE  status'[r] \notin Active
    BY DEF DeliveryMeansFinished, Excused
  <1>t. TypeInv /\ TypeOK
    BY DEF FinishInv, LifeInv, RefInv, TypeInv
  <1>i. LifeInv /\ HoldInv /\ ClaimInv /\ WorkerHolds /\ OnceInv
    BY DEF FinishInv, LifeInv, ExecInv, RefInv
  <1>u. ~Excused(r)
    BY <1>t, ExcusedStays
  <1>1. CASE deliveries[r] > 0
    <2>1. claims[r] # 0
      BY <1>1, <1>i DEF OnceInv
    <2>2. status[r] \notin Active
      BY <1>1, <1>u DEF FinishInv, DeliveryMeansFinished, Excused
    <2> QED
      BY <1>i, <2>1, <2>2, StaysInactive
  <1>2. ASSUME NEW w \in Workers, InsertDelivery(w), deliveries[r] = 0
        PROVE  status'[r] \notin Active
    <2>1. wrun[w] = r
      <3>1. wrun[w] # r => deliveries'[r] = deliveries[r]
        BY <1>2, <1>t DEF InsertDelivery, TypeOK
      <3> QED
        BY <1>2, <3>1
    <2>2. status[r] \notin Active /\ status' = status
      BY <1>2, <1>u, <2>1 DEF InsertDelivery, FinishInv, AfterRecord
    <2> QED
      BY <2>2
  <1>3. CASE deliveries[r] = 0
    <2>1. ASSUME NEW w \in Workers, Crash(w) \/ \E q \in RunIds : Claim(w, q)
          PROVE  deliveries' = deliveries
      BY <2>1 DEF Crash, Claim, pgVars
    <2>2. CASE ApiStep
      BY <1>3, <2>2, <1>t, ApiLeavesWorkers
    <2> QED
      BY <1>2, <1>3, <1>t, <2>1, <2>2, OtherSteps, ExecuteDeliveries DEF pgVars
  <1> QED
    BY <1>1, <1>3, <1>t DEF TypeOK

\* The end of an execution that could be recorded leaves no running row, unless
\* the runner said so.
LEMMA EndsRunning ==
  ASSUME TypeInv, OnceInv, NEW w \in Workers, wrun[w] \in RunIds,
         FailEarly(w) \/ Finish(w) \/ RollbackRun(w),
         status'[wrun[w]] = "running"
  PROVE  wrun[w] \in unwritten' \cup abandoned' \cup unended'
  <1>t. status \in [RunIds -> Statuses]
    BY DEF TypeInv, TypeOK
  <1>h. wrun[w] \in Held(w)
    BY DEF Held
  <1>1. CASE FailEarly(w)
    <2>1. wres[w] = "error"
      BY <1>1 DEF FailEarly, TypeInv, ResultOK
    <2> QED
      BY <1>1, <1>h, <1>t, <2>1 DEF FailEarly, SetStatus, Exists, NoRow
  <1>2. CASE Finish(w)
    <2>1. CASE SetStatus(wrun[w], wres[w]) /\ RecordReply(w)
      BY <1>h, <1>t, <2>1 DEF SetStatus, RecordReply, Exists, NoRow
    <2> QED
      BY <1>2, <1>h, <2>1 DEF Finish
  <1>3. CASE RollbackRun(w)
    <2>1. CASE RemoveRow(wrun[w])
      BY <1>t, <2>1 DEF RemoveRow, Exists, NoRow
    <2>2. CASE ~Deletable(wrun[w]) /\
               abandoned' = abandoned \cup {r \in Held(w) : cronExec[r] # "none" \/ requeued[r] > 0}
      <3>1. deliveries[wrun[w]] = 0 \/ requeued[wrun[w]] > 0
        BY <1>3 DEF RollbackRun, OnceInv
      <3> QED
        BY <1>h, <2>2, <3>1 DEF Deletable
    <2> QED
      BY <1>3, <1>h, <2>1, <2>2 DEF RollbackRun
  <1> QED
    BY <1>1, <1>2, <1>3

\* A worker lets go of a run only when the run is not running any more, or with
\* the fault on record.
LEMMA NextRunning ==
  ASSUME FinishInv, [Next]_vars
  PROVE  RunningHasWorker'
  <1> DEFINE Worked(r) == \E w \in Workers : wrun'[w] = r /\ Executing(w)'
  <1> SUFFICES ASSUME NEW r \in RunIds, status'[r] = "running",
                      r \notin unwritten' \cup abandoned' \cup unended'
               PROVE  Worked(r)
    BY DEF RunningHasWorker
  <1>t. TypeInv /\ TypeOK
    BY DEF FinishInv, LifeInv, RefInv, TypeInv
  <1>i. LifeInv /\ WorkerHolds /\ OnceInv
    BY DEF FinishInv, LifeInv, RefInv
  <1>1. ASSUME NEW w \in Workers, Claim(w, r)
        PROVE  Worked(r)
    BY <1>1, <1>t DEF Claim, TypeOK, Executing
  <1>2. CASE status[r] = "running"
    <2>1. PICK v \in Workers : wrun[v] = r /\ Executing(v)
      <3>1. r \notin unwritten \cup abandoned \cup unended
        BY <1>t, HistoryGrows
      <3> QED
        BY <1>2, <3>1 DEF FinishInv, RunningHasWorker
    <2>2. CASE UNCHANGED <<wpc, wrun>>
      BY <2>1, <2>2 DEF Executing
    <2>3. CASE ApiStep
      BY <2>2, <2>3, <1>t, ApiLeavesWorkers
    <2>4. ASSUME NEW w \in Workers, ExecuteStep(w)
          PROVE  Worked(r)
      <3>1. CASE v # w
        BY <2>1, <3>1, <2>4, <1>t, ExecuteOwn DEF Executing
      <3>2. CASE v = w
        <4>1. ASSUME NEW s \in {"fail", "exec", "check", "rollback", "finish"}, GoTo(w, s)
              PROVE  Executing(w)'
          BY <4>1, <1>t DEF GoTo, TypeOK, Executing
        <4>2. wrun'[w] = r
          BY <2>1, <2>4, <1>t, <3>2, ExecuteOwn DEF Executing
        <4>3. CASE Begin(w) \/ CheckAfter(w)
          <5>1. PICK s \in {"rollback", "finish", "fail", "exec"} : GoTo(w, s)
            BY <4>3, CancelKeyWays DEF Begin, CheckAfter
          <5> QED
            BY <4>1, <4>2, <5>1
        <4>4. CASE Execute(w)
          BY <4>1, <4>2, <4>4 DEF Execute
        <4>5. ~(FailEarly(w) \/ Finish(w) \/ RollbackRun(w))
          BY <1>i, <1>t, <2>1, <3>2, EndsRunning
        <4> QED
          BY <2>1, <2>4, <3>2, <4>3, <4>4, <4>5
          DEF Executing, ExecuteStep, UpdateCronExecution, ReadWebhook, InsertDelivery, Release
      <3> QED
        BY <3>1, <3>2
    <2>5. ASSUME NEW w \in Workers, NEW q \in RunIds, wpc[w] = "idle", Claim(w, q)
          PROVE  Worked(r)
      <3>1. v # w
        BY <2>1, <2>5 DEF Executing
      <3> QED
        BY <2>1, <2>5, <3>1, <1>t DEF Claim, TypeOK, Executing
    <2>6. ASSUME NEW w \in Workers, Crash(w)
          PROVE  Worked(r)
      <3>1. v # w
        BY <2>1, <2>6 DEF Crash, Held
      <3> QED
        BY <2>1, <2>6, <3>1, <1>t DEF Crash, GoTo, TypeOK, Executing
    <2> QED
      BY <2>2, <2>3, <2>4, <2>5, <2>6, <1>t, OtherSteps
  <1> QED
    BY <1>1, <1>2, <1>i, RunningByClaim

\* Nothing is delivered or running at first.
LEMMA InitFinish == Init => FinishInv
  <1>1. Init => AfterRecord /\ DeliveryMeansFinished /\ RunningHasWorker
    BY DEF Init, AfterRecord, DeliveryMeansFinished, RunningHasWorker
  <1> QED
    BY <1>1, InitLife DEF FinishInv

\* What follows the record of a result holds throughout.
LEMMA FinishInvariance == Spec => []FinishInv
  <1>1. FinishInv /\ [Next]_vars => FinishInv'
    BY NextLife, NextAfterRecord, NextDelivery, NextRunning DEF FinishInv
  <1> QED
    BY <1>1, InitFinish, PTL DEF Spec

\* Executing, failing early, cancelling, rolling back: on every path a delivery
\* is inserted only after the result is recorded, or after the one error that is
\* dropped, and no later write makes the run active again but the runner's own
\* reply.  Crashes and failures elsewhere do not matter.
THEOREM DeliveredIsFinished == Spec => []DeliveryMeansFinished
  <1>1. FinishInv => DeliveryMeansFinished
    BY DEF FinishInv
  <1> QED
    BY <1>1, FinishInvariance, PTL

\* A running row is being executed by a worker, or its own worker met a fault
\* while it had it, or its own runner replied "running": no path of executeRun
\* leaves a run behind as running, whatever happens to other runs.
THEOREM NoAbandonedRun == Spec => []RunningHasWorker
  <1>1. FinishInv => RunningHasWorker
    BY DEF FinishInv
  <1> QED
    BY <1>1, FinishInvariance, PTL

-----------------------------------------------------------------------------
(* The runs table implements the abstract life of a run.                   *)

LEMMA InitRefines == Init => Abstract!Init
  BY DEF Init, Abstract!Init

\* A quiet step moves every run by a transition of RunSpec or leaves it alone.
LEMMA QuietRefines ==
  ASSUME ExecInv, Quiet, NEW r \in RunIds
  PROVE  Abstract!RunStep(r) \/ Abstract!Keep(r)
  <1>t. requeued \in [RunIds -> Nat]
    BY DEF ExecInv, TypeInv, TypeOK
  <1>1. Abstract!SameStarts(r)
    BY DEF Quiet, Abstract!SameStarts
  <1>2. Exists(r) <=> Abstract!Exists(r)
    BY DEF Exists, NoRow, Abstract!Exists
  <1>3. CASE requeued'[r] = requeued[r] /\ CalmMove(r)
    <2>1. Abstract!SameReturns(r)
      BY <1>3 DEF Abstract!SameReturns
    <2>2. CASE status'[r] = status[r]
      BY <1>1, <2>1, <2>2 DEF Abstract!Keep
    <2>3. CASE status[r] = "absent" /\ status'[r] = "pending"
      BY <1>1, <2>1, <2>3 DEF Abstract!RunStep, Abstract!Submit
    <2>4. CASE Exists(r) /\ status'[r] = "interrupted"
      BY <1>1, <1>2, <2>1, <2>4 DEF Abstract!RunStep, Abstract!Interrupt
    <2>5. CASE Exists(r) /\ status'[r] = "deleted"
      BY <1>1, <1>2, <2>1, <2>5 DEF Abstract!RunStep, Abstract!Remove
    <2> QED
      BY <1>3, <2>2, <2>3, <2>4, <2>5 DEF CalmMove
  <1>4. CASE requeued'[r] = requeued[r] /\ ResultMove(r)
    <2>1. claims[r] > 0
      BY <1>4, <1>t DEF ResultMove, ExecInv, HoldInv
    <2>2. Abstract!SameReturns(r)
      BY <1>4 DEF Abstract!SameReturns
    <2> QED
      BY <1>1, <1>2, <1>4, <2>1, <2>2 DEF ResultMove, Abstract!RunStep, Abstract!Record, Recorded
  <1>5. CASE RequeueMove(r)
    <2>1. claims[r] = requeued[r] + 1
      BY <1>5 DEF RequeueMove, ExecInv, HoldInv
    <2> QED
      BY <1>1, <1>2, <1>5, <2>1 DEF RequeueMove, Abstract!RunStep, Abstract!Return
  <1> QED
    BY <1>3, <1>4, <1>5 DEF Quiet, QuietMove

\* A claim starts the run it takes and keeps every other run.
LEMMA ClaimRefines ==
  ASSUME ExecInv, NEW w \in Workers, NEW q \in RunIds, Claim(w, q), NEW r \in RunIds
  PROVE  Abstract!RunStep(r) \/ Abstract!Keep(r)
  <1>t. TypeOK
    BY DEF ExecInv, TypeInv
  <1>0. Abstract!SameReturns(r)
    BY DEF Claim, boundVars, faultVars, replyVars, Abstract!SameReturns
  <1>1. CASE r = q
    <2>1. status[r] = "pending" /\ status'[r] = "running"
      BY <1>1, <1>t DEF Claim, TypeOK
    <2>2. claims[r] = requeued[r] /\ claims'[r] = claims[r] + 1
      BY <1>1, <1>t, <2>1 DEF Claim, TypeOK, ExecInv, ClaimInv
    <2> QED
      BY <1>0, <2>1, <2>2 DEF Abstract!RunStep, Abstract!Start
  <1>2. CASE r # q
    <2>1. status'[r] = status[r] /\ claims'[r] = claims[r]
      BY <1>2, <1>t DEF Claim, TypeOK
    <2> QED
      BY <1>0, <2>1 DEF Abstract!Keep, Abstract!SameStarts
  <1> QED
    BY <1>1, <1>2

\* Every step is one of the abstract specification, or a stutter.
LEMMA NextRefines ==
  ASSUME ExecInv, [Next]_vars
  PROVE  [Abstract!Next]_(Abstract!vars)
  <1>1. CASE Quiet
    BY <1>1, QuietRefines DEF Abstract!Next
  <1>2. ASSUME NEW w \in Workers, NEW q \in RunIds, Claim(w, q)
        PROVE  Abstract!Next
    BY <1>2, ClaimRefines DEF Abstract!Next
  <1> QED
    BY <1>1, <1>2, QuietOrClaim DEF ExecInv

\* The five kinds of handlers, the cron loop and the workers together never do
\* more to a row of runs than RunSpec allows: submit once, start once more only
\* when every execution has made the run pending again, record an outcome only
\* after a start, never bring a removed run back.
THEOREM ImplementsAbstractLife == Spec => ImplementsRunSpec
  <1>1. ExecInv /\ [Next]_vars => [Abstract!Next]_(Abstract!vars)
    BY NextRefines
  <1> QED
    BY <1>1, InitRefines, ExecInvariance, PTL DEF Spec, ImplementsRunSpec, Abstract!Spec
=============================================================================
