--------------------------- MODULE BuilderProofs ---------------------------
(***************************************************************************)
(* What is proved of Builder, for any number of requests, builds, reads,   *)
(* faults and restarts: types; the row of a build agrees with the record   *)
(* in memory; a success once shown stays; the gauges count the builds; and *)
(* for any repository and any paths: sources are judged and built exactly. *)
(***************************************************************************)
EXTENDS Builder, FiniteSetTheorems, SequenceTheorems, WellFoundedInduction, TLAPS

(* A request that has a build                                              *)
Working(q) == pc[q] \notin {"idle", "placeholder"}

TypeInv ==
  /\ TypeOK
  /\ \A q \in Requests : IF Working(q) THEN build[q] \in Builds ELSE build[q] = NoBuild
  /\ \A q \in Requests : pc[q] = "refresh" => next[q] \in Statuses

-----------------------------------------------------------------------------
\* A record is not NoRecord, and NoRecord names no job.
LEMMA RecordFacts ==
  /\ NoRecord \notin Records
  /\ NoRecord.status = "none" /\ NoRecord.job = FALSE
  /\ \A rec \in Records : rec.status \in Statuses /\ rec.job \in BOOLEAN /\ rec # NoRecord
                          /\ rec = [status |-> rec.status, job |-> rec.job]
<1>1. NoRecord.status = "none" /\ NoRecord.job = FALSE /\ "none" \notin Statuses
  BY DEF NoRecord, Statuses
<1>2. \A rec \in Records : rec.status \in Statuses /\ rec.job \in BOOLEAN
  BY DEF Records
<1>3. \A rec \in Records : rec = [status |-> rec.status, job |-> rec.job]
  BY DEF Records
<1> QED
  BY <1>1, <1>2, <1>3

\* The fields of a job, and the job that is not there.
LEMMA JobFacts ==
  /\ NewJob \in JobStatuses /\ NewJob # NoJob
  /\ ~NoJob.active /\ ~NoJob.succeeded /\ ~NoJob.failed /\ NoJob.condition = "absent"
  /\ NewJob = [active |-> FALSE, succeeded |-> FALSE, failed |-> FALSE, condition |-> "none"]
  /\ \A job \in JobStatuses :
       /\ job.active \in BOOLEAN /\ job.succeeded \in BOOLEAN /\ job.failed \in BOOLEAN
       /\ job.condition \in {"none", "Complete", "Failed"} /\ job # NoJob
       /\ job = [active |-> job.active, succeeded |-> job.succeeded, failed |-> job.failed,
                 condition |-> job.condition]
<1>1. ~NoJob.active /\ ~NoJob.succeeded /\ ~NoJob.failed /\ NoJob.condition = "absent"
  BY DEF NoJob, NewJob
<1> QED
  BY <1>1 DEF NewJob, JobStatuses

\* A status looked up is one of the four.
LEMMA JobStatusType == ASSUME NEW job PROVE JobStatus(job) \in Statuses
  BY DEF JobStatus, Statuses

\* What a pod does to a job leaves a job.
LEMMA PodsType ==
  ASSUME NEW job \in JobStatuses, NEW changed \in Pods(job)
  PROVE  changed \in JobStatuses
<1>1. \/ changed = [job EXCEPT !.active = FALSE, !.failed = TRUE]
      \/ changed = [job EXCEPT !.active = FALSE, !.succeeded = TRUE, !.condition = "Complete"]
      \/ changed = [job EXCEPT !.active = TRUE]
      \/ changed = [job EXCEPT !.condition = "Failed"]
  BY DEF Pods
<1> QED
  BY <1>1 DEF JobStatuses

\* The types of the gauges and counters.
MetricsOK(m) ==
  /\ m.status \in [Builds -> Statuses \cup {"none"}]
  /\ m.gauge \in [Statuses -> Int]
  /\ m.failures \in Nat

\* Counting a build keeps the types of the gauges and counters.
LEMMA CountedType ==
  ASSUME NEW m, MetricsOK(m), NEW b \in Builds, NEW given \in Statuses \cup {"none"},
         NEW s \in Statuses
  PROVE  MetricsOK(Counted(m, b, given, s))
<1> DEFINE prev == IF given = "none" THEN m.status[b] ELSE given
           Shift(t) == (IF t = s THEN 1 ELSE 0) - (IF t = prev THEN 1 ELSE 0)
<1>1. \A t \in Statuses : Shift(t) \in Int
  OBVIOUS
<1>2. CASE prev = s
  BY <1>2 DEF Counted
<1>3. CASE prev # s
  <2>1. Counted(m, b, given, s) =
          [status |-> [m.status EXCEPT ![b] = s],
           gauge |-> [t \in Statuses |-> m.gauge[t] + Shift(t)],
           failures |-> m.failures + (IF s = "failed" THEN 1 ELSE 0)]
    BY <1>3 DEF Counted
  <2>2. /\ [m.status EXCEPT ![b] = s] \in [Builds -> Statuses \cup {"none"}]
        /\ m.failures + (IF s = "failed" THEN 1 ELSE 0) \in Nat
    BY DEF MetricsOK
  <2>3. [t \in Statuses |-> m.gauge[t] + Shift(t)] \in [Statuses -> Int]
    <3> HIDE DEF Shift
    <3> QED
      BY <1>1 DEF MetricsOK
  <2> HIDE DEF Shift
  <2> QED
    BY <2>1, <2>2, <2>3 DEF MetricsOK
<1> QED
  BY <1>2, <1>3

\* The types hold at first.
LEMMA TypeInit == Init => TypeInv
  BY BuilderAssumption DEF Init, TypeInv, TypeOK, Working, EmptyMetrics, NoAnswer, Answered,
     Statuses, Steps, Kinds

(* The record of a job just asked for                                      *)
Queued == [status |-> "queued", job |-> TRUE]

\* What a trigger records, with a client of Kubernetes and without.
LEMMA TriggerRecord ==
  ASSUME TypeInv, NEW q \in Requests, NEW b \in Builds, NEW source, TriggerBuild(q, b, source)
  PROVE  \E rec \in Records :
           /\ Takes(q, "trigger", b, rec)
           /\ executing =>
                rec = Queued /\ Goes(q, "submit") /\ UNCHANGED <<builds, metrics, logged>>
           /\ ~executing =>
                rec.status = "succeeded" /\ ~rec.job /\ Goes(q, "insert") /\ Remember(b, rec)
<1>1. CASE executing
  BY <1>1 DEF TriggerBuild, Queued, Records, Statuses
<1>2. CASE ~executing
  <2> DEFINE rec == [status |-> "succeeded", job |-> executing]
  <2>1. rec \in Records /\ rec.status = "succeeded" /\ ~rec.job
    BY <1>2 DEF Records, Statuses, TypeInv, TypeOK
  <2>2. Takes(q, "trigger", b, rec) /\ Goes(q, "insert") /\ Remember(b, rec)
    BY <1>2 DEF TriggerBuild
  <2> HIDE DEF rec
  <2> QED
    BY <1>2, <2>1, <2>2
<1> QED
  BY <1>1, <1>2

\* Remembering a record keeps the types of memory.
LEMMA RememberType ==
  ASSUME TypeInv, NEW b \in Builds, NEW rec \in Records, Remember(b, rec)
  PROVE  /\ builds' \in [Builds -> Records \cup {NoRecord}]
         /\ MetricsOK(metrics') /\ logged' \subseteq Builds
<1>1. MetricsOK(metrics) /\ rec.status \in Statuses
  BY RecordFacts DEF TypeInv, TypeOK, MetricsOK
<1>2. MetricsOK(Counted(metrics, b, "none", rec.status))
  BY <1>1, CountedType
<1> QED
  BY <1>2 DEF Remember, TypeInv, TypeOK

\* triggerBuild keeps the types.
LEMMA TypeTrigger ==
  ASSUME TypeInv, NEW q \in Requests, NEW b \in Builds, NEW source, TriggerBuild(q, b, source),
         answer' = NoAnswer
  PROVE  TypeInv'
<1>1. PICK rec \in Records :
           /\ Takes(q, "trigger", b, rec)
           /\ executing =>
                rec = Queued /\ Goes(q, "submit") /\ UNCHANGED <<builds, metrics, logged>>
           /\ ~executing =>
                rec.status = "succeeded" /\ ~rec.job /\ Goes(q, "insert") /\ Remember(b, rec)
  BY TriggerRecord
<1>2. /\ builds' \in [Builds -> Records \cup {NoRecord}]
      /\ MetricsOK(metrics') /\ logged' \subseteq Builds
  BY <1>1, RememberType DEF TypeInv, TypeOK, MetricsOK
<1>3. pc'[q] \in {"submit", "insert"} /\ pc' \in [Requests -> Steps]
      /\ \A p \in Requests \ {q} : pc'[p] = pc[p]
  BY <1>1 DEF Goes, TypeInv, TypeOK, Steps
<1>4. /\ UNCHANGED <<jobs, rows, executing, deployed, next, lost, shown, bounds>>
      /\ used' = used \cup {b}
  BY DEF TriggerBuild
<1>5. /\ kind' \in [Requests -> Kinds] /\ build' \in [Requests -> Builds \cup {NoBuild}]
      /\ copy' \in [Requests -> Records \cup {NoRecord}] /\ shared' \subseteq Builds
  BY <1>1 DEF Takes, Kinds, TypeInv, TypeOK
<1>6. /\ build'[q] = b /\ copy'[q] = rec
      /\ \A p \in Requests \ {q} : build'[p] = build[p] /\ copy'[p] = copy[p]
  BY <1>1 DEF Takes, TypeInv, TypeOK
<1>7. TypeOK'
  BY <1>2, <1>3, <1>4, <1>5, <1>6 DEF MetricsOK, TypeInv, TypeOK, bounds, NoAnswer, Answered
<1> QED
  BY <1>3, <1>4, <1>6, <1>7 DEF TypeInv, Working

(* A request takes up a build with a record, and what it does next         *)
Starts(q, k, b, rec, p) == Takes(q, k, b, rec) /\ Goes(q, p)

\* Taking up a build with a record of it keeps the types.
LEMMA StartsType ==
  ASSUME TypeInv, NEW q \in Requests, NEW k \in Kinds, NEW b \in Builds, NEW rec \in Records,
         NEW p \in Steps \ {"idle", "placeholder", "refresh"}, Starts(q, k, b, rec, p),
         UNCHANGED <<jobs, rows, memory, deployed, next, lost, used, shown, faults, restarts>>,
         reads' \in 0..MaxReads, answer' = NoAnswer
  PROVE  TypeInv'
  BY DEF Starts, Takes, Goes, MetricsOK, TypeInv, TypeOK, Working, memory, NoAnswer, Answered

\* What a GET reads is a record.
LEMMA GetRecord ==
  ASSUME TypeInv, NEW q \in Requests, NEW b \in Builds, GetBuild(q, b)
  PROVE  \E rec \in Records :
           /\ rec = IF builds[b] # NoRecord THEN builds[b] ELSE rows[b]
           /\ Starts(q, "get", b, rec, AfterRead(rec))
  BY DEF GetBuild, Starts, TypeInv, TypeOK

\* What a request for logs takes up: the record in memory, or that of the row.
LEMMA GetLogsRecord ==
  ASSUME TypeInv, NEW q \in Requests, NEW b \in Builds, NEW scoped, GetBuildLogs(q, b, scoped)
  PROVE  \/ /\ builds[b] \in Records /\ executing /\ builds[b].job
            /\ Starts(q, IF b \in logged THEN "text" ELSE "logs", b, builds[b], "fetch")
         \/ /\ rows[b] \in Records /\ b \notin logged
            /\ Starts(q, "rowlogs", b, rows[b], AfterRead(rows[b]))
  BY DEF GetBuildLogs, Starts, TypeInv, TypeOK

\* A request with a record looks the job up or settles.
LEMMA AfterReadType == \A rec : AfterRead(rec) \in {"lookup", "settle"}
  BY DEF AfterRead

\* getBuild keeps the types.
LEMMA TypeGetBuild ==
  ASSUME TypeInv, NEW q \in Requests, NEW b \in Builds, GetBuild(q, b), answer' = NoAnswer
  PROVE  TypeInv'
<1>1. PICK rec \in Records : Starts(q, "get", b, rec, AfterRead(rec))
  BY GetRecord
<1>2. AfterRead(rec) \in Steps \ {"idle", "placeholder", "refresh"} /\ "get" \in Kinds
  BY AfterReadType DEF Steps, Kinds
<1>3. /\ reads' \in 0..MaxReads
      /\ UNCHANGED <<jobs, rows, memory, deployed, next, lost, used, shown, faults, restarts>>
  BY BuilderAssumption DEF GetBuild, TypeInv, TypeOK
<1> QED
  BY <1>1, <1>2, <1>3, StartsType

\* getBuildLogs keeps the types.
LEMMA TypeGetBuildLogs ==
  ASSUME TypeInv, NEW q \in Requests, NEW b \in Builds, NEW scoped, GetBuildLogs(q, b, scoped),
         answer' = NoAnswer
  PROVE  TypeInv'
<1>1. PICK k \in Kinds, rec \in Records, p \in {"fetch", "lookup", "settle"} :
        Starts(q, k, b, rec, p)
  <2>1. /\ (IF b \in logged THEN "text" ELSE "logs") \in Kinds
        /\ "rowlogs" \in Kinds
    BY DEF Kinds
  <2> QED
    BY <2>1, GetLogsRecord, AfterReadType
<1>2. p \in Steps \ {"idle", "placeholder", "refresh"}
  BY DEF Steps
<1>3. /\ reads' \in 0..MaxReads
      /\ UNCHANGED <<jobs, rows, memory, deployed, next, lost, used, shown, faults, restarts>>
  BY BuilderAssumption DEF GetBuildLogs, TypeInv, TypeOK
<1> QED
  BY <1>1, <1>2, <1>3, StartsType

\* Creating a job, or not, keeps the type of jobs.
LEMMA CreatedType ==
  ASSUME TypeInv, NEW b, jobs' \in {jobs, [jobs EXCEPT ![b] = NewJob]}
  PROVE  jobs' \in [Builds -> JobStatuses \cup {NoJob}]
<1>1. jobs \in [Builds -> JobStatuses \cup {NoJob}]
  BY DEF TypeInv, TypeOK
<1>2. NewJob \in JobStatuses
  BY JobFacts
<1> QED
  BY <1>1, <1>2

\* submitBuildJob keeps the types.
LEMMA TypeSubmit ==
  ASSUME TypeInv, NEW q \in Requests, SubmitBuildJob(q), answer' = NoAnswer
  PROVE  TypeInv'
<1>1. /\ build[q] \in Builds /\ copy[q] \in Records /\ Remember(build[q], copy[q])
  BY DEF SubmitBuildJob, TypeInv, TypeOK, Working
<1>2. /\ builds' \in [Builds -> Records \cup {NoRecord}]
      /\ MetricsOK(metrics') /\ logged' \subseteq Builds
  BY <1>1, RememberType
<1>3. jobs' \in [Builds -> JobStatuses \cup {NoJob}]
  <2>1. jobs' \in {jobs, [jobs EXCEPT ![build[q]] = NewJob]}
    BY DEF SubmitBuildJob
  <2> QED
    BY <2>1, CreatedType
<1>4. /\ pc' \in [Requests -> Steps] /\ pc'[q] = "insert" /\ pc[q] = "submit"
      /\ \A p \in Requests \ {q} : pc'[p] = pc[p]
  BY DEF SubmitBuildJob, Goes, Steps, TypeInv, TypeOK
<1>5. UNCHANGED <<rows, executing, deployed, kind, build, copy, next, history, bounds>>
  BY DEF SubmitBuildJob
<1>6. TypeOK'
  BY <1>1, <1>2, <1>3, <1>4, <1>5 DEF MetricsOK, TypeInv, TypeOK, history, bounds, NoAnswer,
     Answered
<1> QED
  BY <1>1, <1>4, <1>5, <1>6 DEF TypeInv, Working

\* A failed submission keeps the types.
LEMMA TypeSubmitFails ==
  ASSUME TypeInv, NEW q \in Requests, SubmitFails(q), answer' = NoAnswer
  PROVE  TypeInv'
<1>1. jobs' \in [Builds -> JobStatuses \cup {NoJob}]
  BY CreatedType DEF SubmitFails
<1>2. Answers(q) /\ UNCHANGED <<rows, memory, deployed, history, reads, restarts>>
      /\ faults' \in 0..MaxFaults
  BY BuilderAssumption DEF SubmitFails, Fault, TypeInv, TypeOK
<1> QED
  BY <1>1, <1>2 DEF Answers, memory, history, Steps, Kinds, MetricsOK, TypeInv, TypeOK,
     Working, NoAnswer, Answered

\* The INSERT keeps the types.
LEMMA TypeInsertBuild ==
  ASSUME TypeInv, NEW q \in Requests, InsertBuild(q), answer' = NoAnswer
  PROVE  TypeInv'
  BY DEF InsertBuild, Answers, Shows, memory, bounds, Steps, Kinds, MetricsOK, TypeInv, TypeOK,
     Working, NoAnswer, Answered

\* A failed INSERT keeps the types.
LEMMA TypeInsertFails ==
  ASSUME TypeInv, NEW q \in Requests, InsertFails(q), answer' = NoAnswer
  PROVE  TypeInv'
<1>1. faults' \in 0..MaxFaults
  BY BuilderAssumption DEF InsertFails, Fault, TypeInv, TypeOK
<1>2. Answers(q) /\ UNCHANGED <<jobs, rows, memory, deployed, history, reads, restarts>>
  BY DEF InsertFails
<1> QED
  BY <1>1, <1>2 DEF Answers, memory, history, Steps, Kinds, MetricsOK, TypeInv, TypeOK,
     Working, NoAnswer, Answered

\* A call the control plane gets no answer to keeps the types.
LEMMA TypeCallFails ==
  ASSUME TypeInv, NEW q \in Requests, CallFails(q), answer' = NoAnswer
  PROVE  TypeInv'
<1>1. jobs' \in [Builds -> JobStatuses \cup {NoJob}]
  BY CreatedType DEF CallFails, TypeInv, TypeOK
<1>2. rows' \in [Builds -> Records \cup {NoRecord}]
  BY DEF CallFails, TypeInv, TypeOK, Working
<1>3. /\ Goes(q, "placeholder") /\ build' = [build EXCEPT ![q] = NoBuild]
      /\ UNCHANGED <<memory, deployed, kind, copy, next, history, reads, restarts>>
      /\ faults' \in 0..MaxFaults
  BY BuilderAssumption DEF CallFails, Fault, TypeInv, TypeOK
<1> QED
  BY <1>1, <1>2, <1>3 DEF Goes, memory, history, Steps, MetricsOK, TypeInv, TypeOK, Working,
     NoAnswer, Answered

\* The control plane's own row keeps the types.
LEMMA TypePlaceholder ==
  ASSUME TypeInv, NEW q \in Requests, NEW b \in Builds, InsertPlaceholder(q, b), answer' = NoAnswer
  PROVE  TypeInv'
  BY DEF InsertPlaceholder, Answers, memory, bounds, Steps, Kinds, Records, Statuses,
     MetricsOK, TypeInv, TypeOK, Working, NoAnswer, Answered

\* lookupJobStatus keeps the types.
LEMMA TypeLookup ==
  ASSUME TypeInv, NEW q \in Requests, LookupJobStatus(q) \/ LookupFails(q), answer' = NoAnswer
  PROVE  TypeInv'
<1>1. /\ pc[q] = "lookup"
      /\ \/ Goes(q, "settle") /\ UNCHANGED next
         \/ \E s \in Statuses : Goes(q, "refresh") /\ next' = [next EXCEPT ![q] = s]
      /\ UNCHANGED <<jobs, rows, memory, deployed, kind, build, copy, history, bounds>>
  BY JobStatusType DEF LookupJobStatus, LookupFails
<1>2. /\ pc' \in [Requests -> Steps] /\ next' \in [Requests -> Statuses \cup {"none"}]
      /\ pc'[q] \in {"settle", "refresh"}
      /\ pc'[q] = "refresh" => next'[q] \in Statuses
  BY <1>1 DEF Goes, Steps, TypeInv, TypeOK
<1>3. \A p \in Requests \ {q} : pc'[p] = pc[p] /\ next'[p] = next[p]
  BY <1>1 DEF Goes, TypeInv, TypeOK
<1>4. UNCHANGED <<jobs, rows, memory, deployed, kind, build, copy, history, bounds>>
  BY <1>1
<1>5. TypeOK'
  BY <1>1, <1>2, <1>3, <1>4 DEF memory, history, bounds, TypeInv, TypeOK, NoAnswer, Answered
<1> QED
  BY <1>1, <1>2, <1>3, <1>4, <1>5 DEF TypeInv, Working

\* The UPDATE keeps the types.
LEMMA TypeUpdateRow ==
  ASSUME TypeInv, NEW q \in Requests, UpdateRow(q), answer' = NoAnswer
  PROVE  TypeInv'
  BY RecordFacts DEF UpdateRow, Goes, memory, history, bounds, Steps, Records, MetricsOK,
     TypeInv, TypeOK, Working, NoAnswer, Answered

\* A lost UPDATE keeps the types.
LEMMA TypeUpdateFails ==
  ASSUME TypeInv, NEW q \in Requests, UpdateFails(q), answer' = NoAnswer
  PROVE  TypeInv'
<1>1. build[q] \in Builds /\ lost' \subseteq Builds /\ faults' \in 0..MaxFaults
  BY BuilderAssumption DEF UpdateFails, Fault, TypeInv, TypeOK, Working
<1>2. /\ pc[q] = "update" /\ Goes(q, "settle")
      /\ UNCHANGED <<jobs, rows, memory, deployed, kind, build, copy, next, shared, used, shown,
                     reads, restarts>>
  BY DEF UpdateFails
<1> QED
  BY <1>1, <1>2 DEF Goes, memory, Steps, MetricsOK, TypeInv, TypeOK, Working, NoAnswer, Answered

\* Storing the logs fetched keeps the types.
LEMMA TypeFetch ==
  ASSUME TypeInv, NEW q \in Requests, FetchJobLogs(q), answer' = NoAnswer
  PROVE  TypeInv'
  BY DEF FetchJobLogs, Answers, history, bounds, Steps, Kinds, MetricsOK, TypeInv, TypeOK,
     Working, NoAnswer, Answered

\* Reads of rows by the control plane keep the types.
LEMMA TypeReads ==
  ASSUME TypeInv, ListBuilds \/ (\E b \in Builds : ReadRow(b)), answer' = NoAnswer
  PROVE  TypeInv'
  BY DEF ListBuilds, ReadRow, Shows, memory, requests, bounds, MetricsOK, TypeInv, TypeOK,
     Working, NoAnswer, Answered

\* What becomes of a job keeps the types.
LEMMA TypeProgress ==
  ASSUME TypeInv, NEW b \in Builds, JobProgresses(b) \/ JobIsRemoved(b), answer' = NoAnswer
  PROVE  TypeInv'
<1>1. CASE JobProgresses(b)
  <2>1. PICK job \in Pods(jobs[b]) : jobs' = [jobs EXCEPT ![b] = job]
    BY <1>1 DEF JobProgresses
  <2>2. jobs[b] \in JobStatuses /\ jobs \in [Builds -> JobStatuses \cup {NoJob}]
    BY <1>1 DEF JobProgresses, TypeInv, TypeOK
  <2>3. jobs' \in [Builds -> JobStatuses \cup {NoJob}]
    BY <2>1, <2>2, PodsType
  <2>4. UNCHANGED <<rows, memory, deployed, requests, history, bounds>>
    BY <1>1 DEF JobProgresses
  <2> QED
    BY <2>3, <2>4 DEF memory, requests, history, bounds, TypeInv, TypeOK, Working, NoAnswer,
       Answered
<1>2. CASE JobIsRemoved(b)
  BY <1>2 DEF JobIsRemoved, memory, requests, history, bounds, TypeInv, TypeOK, Working,
     NoAnswer, Answered
<1> QED
  BY <1>1, <1>2

\* Deleting the deployment keeps the types.
LEMMA TypeDelete ==
  ASSUME TypeInv, DeleteDeployment, answer' = NoAnswer
  PROVE  TypeInv'
  BY DEF DeleteDeployment, memory, requests, history, bounds, MetricsOK, TypeInv, TypeOK,
     Working, NoAnswer, Answered

\* A restart of the builder keeps the types.
LEMMA TypeRestart ==
  ASSUME TypeInv, Restart, answer' = NoAnswer
  PROVE  TypeInv'
<1>1. /\ metrics' = EmptyMetrics /\ builds' \in [Builds -> Records \cup {NoRecord}]
      /\ logged' \subseteq Builds /\ executing' \in BOOLEAN
  BY DEF Restart, New
<1>2. MetricsOK(metrics')
  BY <1>1 DEF MetricsOK, EmptyMetrics, Statuses
<1>3. /\ pc' \in [Requests -> {"idle", "placeholder"}]
      /\ kind' \in [Requests -> Kinds] /\ build' = [q \in Requests |-> NoBuild]
      /\ copy' \in [Requests -> Records \cup {NoRecord}]
      /\ next' \in [Requests -> Statuses \cup {"none"}]
  BY DEF Restart, Kinds
<1>4. restarts' \in 0..MaxRestarts /\ UNCHANGED <<jobs, rows, deployed, history, reads, faults>>
  BY BuilderAssumption DEF Restart, TypeInv, TypeOK
<1>5. pc' \in [Requests -> Steps] /\ build' \in [Requests -> Builds \cup {NoBuild}]
      /\ \A q \in Requests : pc'[q] \in {"idle", "placeholder"} /\ build'[q] = NoBuild
  BY <1>3 DEF Steps
<1>6. TypeOK'
  BY <1>1, <1>2, <1>3, <1>4, <1>5 DEF MetricsOK, history, TypeInv, TypeOK, NoAnswer, Answered
<1> QED
  BY <1>5, <1>6 DEF TypeInv, Working

\* The refresh under the lock keeps the types.
LEMMA TypeRefresh ==
  ASSUME TypeInv, NEW q \in Requests, Refresh(q), answer' = NoAnswer
  PROVE  TypeInv'
<1> DEFINE rec == [status |-> next[q], job |-> TRUE]
<1>1. build[q] \in Builds /\ next[q] \in Statuses /\ copy[q].status \in Statuses
      /\ MetricsOK(metrics)
  BY RecordFacts DEF Refresh, TypeInv, TypeOK, Working, MetricsOK
<1>2. MetricsOK(Counted(metrics, build[q], copy[q].status, next[q]))
  BY <1>1, CountedType
<1>3. rec \in Records
  BY <1>1 DEF Records
<1> QED
  BY <1>1, <1>2, <1>3 DEF Refresh, Goes, MetricsOK, TypeInv, TypeOK, Working, NoAnswer,
     Answered, history, bounds, Steps

\* The last count of a read keeps the types.
LEMMA TypeSettle ==
  ASSUME TypeInv, NEW q \in Requests, Settle(q), answer' = NoAnswer
  PROVE  TypeInv'
<1>1. build[q] \in Builds /\ copy[q].status \in Statuses /\ MetricsOK(metrics)
  BY RecordFacts DEF Settle, TypeInv, TypeOK, Working, MetricsOK
<1>2. MetricsOK(Counted(metrics, build[q], "none", copy[q].status))
  BY <1>1, CountedType
<1>3. /\ MetricsOK(metrics') /\ pc[q] = "settle"
      /\ shown' \in {shown, shown \cup {build[q]}}
      /\ \/ Goes(q, "fetch") /\ UNCHANGED <<kind, build, copy, next>>
         \/ Answers(q)
      /\ UNCHANGED <<jobs, rows, builds, logged, executing, deployed, shared, lost, used, bounds>>
  BY <1>2 DEF Settle, Shows
<1>4. /\ pc' \in [Requests -> Steps] /\ kind' \in [Requests -> Kinds]
      /\ build' \in [Requests -> Builds \cup {NoBuild}]
      /\ copy' \in [Requests -> Records \cup {NoRecord}]
      /\ next' \in [Requests -> Statuses \cup {"none"}]
  BY <1>3 DEF Goes, Answers, TypeInv, TypeOK, Steps, Kinds
<1>5. /\ \A p \in Requests : pc'[p] \notin {"idle", "placeholder"} =>
           build'[p] \in Builds /\ copy'[p] \in Records
      /\ \A p \in Requests : pc'[p] \in {"idle", "placeholder"} => build'[p] = NoBuild
      /\ \A p \in Requests : pc'[p] = "refresh" => next'[p] \in Statuses
  BY <1>3 DEF Goes, Answers, TypeInv, TypeOK, Working
<1> QED
  BY <1>1, <1>3, <1>4, <1>5 DEF MetricsOK, TypeInv, TypeOK, Working, NoAnswer, Answered, bounds

\* Logs that cannot be fetched keep the types.
LEMMA TypeFetchFails ==
  ASSUME TypeInv, NEW q \in Requests, FetchFails(q), answer' = NoAnswer
  PROVE  TypeInv'
<1>1. CASE kind[q] = "logs" /\ rows[build[q]] # NoRecord
  <2>1. /\ Starts(q, "rowlogs", build[q], rows[build[q]], AfterRead(rows[build[q]]))
        /\ UNCHANGED next
    BY <1>1 DEF FetchFails, Starts
  <2>2. rows[build[q]] \in Records /\ build[q] \in Builds
    BY <1>1 DEF FetchFails, TypeInv, TypeOK, Working
  <2>3. AfterRead(rows[build[q]]) \in Steps \ {"idle", "placeholder", "refresh"}
        /\ "rowlogs" \in Kinds
    BY AfterReadType DEF Steps, Kinds
  <2>4. /\ reads' \in 0..MaxReads
        /\ UNCHANGED <<jobs, rows, memory, deployed, next, lost, used, shown, faults, restarts>>
    BY <2>1 DEF FetchFails, bounds, TypeInv, TypeOK
  <2> QED
    BY <2>1, <2>2, <2>3, <2>4, StartsType
<1>2. CASE ~(kind[q] = "logs" /\ rows[build[q]] # NoRecord)
  <2>1. /\ Answers(q) /\ UNCHANGED shared
        /\ UNCHANGED <<jobs, rows, memory, deployed, lost, used, shown, bounds>>
    BY <1>2 DEF FetchFails
  <2> QED
    BY <2>1 DEF Answers, memory, bounds, MetricsOK, TypeInv, TypeOK, Working, NoAnswer,
       Answered, Steps, Kinds
<1> QED
  BY <1>1, <1>2

\* Steps that only answer, and stuttering, keep the types.
LEMMA TypeOther ==
  ASSUME TypeInv,
         \/ UNCHANGED vars
         \/ (ValidateSource \/ BuildJob) /\ Unchanging
  PROVE  TypeInv'
  BY DEF vars, ValidateSource, BuildJob, Unchanging, memory, requests, history, bounds,
     MetricsOK, TypeInv, TypeOK, Working, Answered

\* The types hold after every step.
LEMMA TypeStep == TypeInv /\ [Next]_vars => TypeInv'
<1> SUFFICES ASSUME TypeInv, [Next]_vars
             PROVE  TypeInv'
  OBVIOUS
<1>1. ASSUME NEW q \in Requests, Request(q), answer' = NoAnswer
      PROVE  TypeInv'
  BY <1>1, TypeTrigger, TypeSubmit, TypeSubmitFails, TypeInsertBuild, TypeInsertFails,
     TypeCallFails, TypePlaceholder, TypeGetBuild, TypeGetBuildLogs, TypeLookup, TypeRefresh,
     TypeUpdateRow, TypeUpdateFails, TypeSettle, TypeFetch, TypeFetchFails DEF Request
<1>2. ASSUME BuildStep, answer' = NoAnswer
      PROVE  TypeInv'
  BY <1>1, <1>2, TypeReads, TypeProgress, TypeDelete, TypeRestart DEF BuildStep
<1> QED
  BY <1>2, TypeOther DEF Next

\* Types of every variable (all actions of Builder).
THEOREM TypeCorrect == Spec => []TypeOK
<1>1. Spec => []TypeInv
  BY TypeInit, TypeStep, PTL DEF Spec
<1>2. TypeInv => TypeOK
  BY DEF TypeInv
<1> QED
  BY <1>1, <1>2, PTL

-----------------------------------------------------------------------------
(* An identifier that was not given out is nowhere; a build whose job is   *)
(* being asked for is known to that request alone.                         *)
Untouched(b) ==
  /\ builds[b] = NoRecord /\ rows[b] = NoRecord
  /\ metrics.status[b] = "none"
  /\ b \notin shown /\ b \notin logged

FreshInv ==
  \A b \in Builds \ used :
    Untouched(b) /\ jobs[b] = NoJob /\ \A q \in Requests : build[q] # b

SubmitInv ==
  \A q \in Requests : pc[q] = "submit" =>
    /\ Untouched(build[q]) /\ copy[q] = Queued
    /\ \A p \in Requests \ {q} : build[p] # build[q]

\* Counting a build leaves the others' last status as it was.
LEMMA CountedStatus ==
  ASSUME NEW m, MetricsOK(m), NEW b \in Builds, NEW given, NEW s
  PROVE  /\ \A c \in Builds \ {b} : Counted(m, b, given, s).status[c] = m.status[c]
         /\ given = "none" \/ given = m.status[b] => Counted(m, b, given, s).status[b] = s
<1> DEFINE prev == IF given = "none" THEN m.status[b] ELSE given
<1>1. CASE prev = s
  BY <1>1 DEF Counted
<1>2. CASE prev # s
  <2>1. Counted(m, b, given, s).status = [m.status EXCEPT ![b] = s]
    BY <1>2 DEF Counted
  <2> QED
    BY <2>1 DEF MetricsOK
<1> QED
  BY <1>1, <1>2

\* A metric a step may have changed, for one build.
LEMMA MetricsStep ==
  ASSUME TypeInv, NEW b \in Builds, NEW given, NEW s, metrics' = Counted(metrics, b, given, s)
  PROVE  /\ \A c \in Builds \ {b} : metrics'.status[c] = metrics.status[c]
         /\ given = "none" \/ given = metrics.status[b] => metrics'.status[b] = s
  BY CountedStatus DEF TypeInv, TypeOK, MetricsOK

\* What has not been given out stays nowhere.
LEMMA FreshStep ==
  ASSUME TypeInv, FreshInv, [Next]_vars
  PROVE  FreshInv'
<1>1. ASSUME NEW q \in Requests, NEW b \in Builds, NEW source \in Sources, TriggerBuild(q, b, source)
      PROVE  FreshInv'
  BY <1>1, MetricsStep DEF TriggerBuild, Takes, Goes, Remember, bounds, FreshInv, Untouched,
     TypeInv, TypeOK, Working
<1>2. ASSUME NEW q \in Requests, SubmitBuildJob(q)
      PROVE  FreshInv'
  BY <1>2, MetricsStep, JobFacts DEF SubmitBuildJob, Remember, Goes, history, bounds, FreshInv,
     Untouched, TypeInv, TypeOK, Working
<1>3. ASSUME NEW q \in Requests, SubmitFails(q)
      PROVE  FreshInv'
  BY <1>3, BuilderAssumption DEF SubmitFails, Fault, Answers, memory, history, FreshInv,
     Untouched, TypeInv, TypeOK, Working
<1>4. ASSUME NEW q \in Requests, InsertBuild(q)
      PROVE  FreshInv'
  BY <1>4, BuilderAssumption DEF InsertBuild, Shows, Answers, memory, bounds, FreshInv,
     Untouched, TypeInv, TypeOK, Working
<1>5. ASSUME NEW q \in Requests, InsertFails(q)
      PROVE  FreshInv'
  BY <1>5, BuilderAssumption DEF InsertFails, Fault, Answers, memory, history, FreshInv,
     Untouched, TypeInv, TypeOK, Working
<1>6. ASSUME NEW q \in Requests, CallFails(q)
      PROVE  FreshInv'
  BY <1>6, BuilderAssumption DEF CallFails, Fault, Goes, memory, history, FreshInv, Untouched,
     TypeInv, TypeOK, Working
<1>7. ASSUME NEW q \in Requests, NEW b \in Builds, InsertPlaceholder(q, b)
      PROVE  FreshInv'
  BY <1>7, BuilderAssumption DEF InsertPlaceholder, Answers, memory, bounds, FreshInv,
     Untouched, TypeInv, TypeOK, Working
<1>8. ASSUME NEW q \in Requests, NEW b \in Builds, GetBuild(q, b)
      PROVE  FreshInv'
  BY <1>8 DEF GetBuild, Takes, Goes, memory, FreshInv, Untouched, TypeInv, TypeOK, Working
<1>9. ASSUME NEW q \in Requests, NEW b \in Builds, NEW scoped \in BOOLEAN, GetBuildLogs(q, b, scoped)
      PROVE  FreshInv'
  BY <1>9 DEF GetBuildLogs, InScope, Takes, Goes, memory, FreshInv, Untouched, TypeInv, TypeOK,
     Working
<1>10. ASSUME NEW q \in Requests, LookupJobStatus(q)
      PROVE  FreshInv'
  BY <1>10 DEF LookupJobStatus, Goes, memory, history, bounds, FreshInv, Untouched, TypeInv,
     TypeOK, Working
<1>11. ASSUME NEW q \in Requests, LookupFails(q)
      PROVE  FreshInv'
  BY <1>11 DEF LookupFails, Goes, memory, history, bounds, FreshInv, Untouched, TypeInv,
     TypeOK, Working
<1>12. ASSUME NEW q \in Requests, Refresh(q)
      PROVE  FreshInv'
  BY <1>12, MetricsStep DEF Refresh, Goes, history, bounds, FreshInv, Untouched, TypeInv,
     TypeOK, Working
<1>13. ASSUME NEW q \in Requests, UpdateRow(q)
      PROVE  FreshInv'
  BY <1>13 DEF UpdateRow, Goes, memory, history, bounds, FreshInv, Untouched, TypeInv, TypeOK,
     Working
<1>14. ASSUME NEW q \in Requests, UpdateFails(q)
      PROVE  FreshInv'
  BY <1>14 DEF UpdateFails, Fault, Goes, memory, FreshInv, Untouched, TypeInv, TypeOK, Working
<1>15. ASSUME NEW q \in Requests, Settle(q)
      PROVE  FreshInv'
  BY <1>15, BuilderAssumption, MetricsStep DEF Settle, Goes, Answers, Shows, bounds, FreshInv,
     Untouched, TypeInv, TypeOK, Working
<1>16. ASSUME NEW q \in Requests, FetchJobLogs(q)
      PROVE  FreshInv'
  BY <1>16, BuilderAssumption DEF FetchJobLogs, Answers, history, bounds, FreshInv, Untouched,
     TypeInv, TypeOK, Working
<1>17. ASSUME NEW q \in Requests, FetchFails(q)
      PROVE  FreshInv'
  BY <1>17, BuilderAssumption DEF FetchFails, Takes, Goes, Answers, memory, bounds, FreshInv,
     Untouched, TypeInv, TypeOK, Working
<1>18. ASSUME ListBuilds \/ (\E b \in Builds : ReadRow(b))
      PROVE  FreshInv'
  BY <1>18, RecordFacts DEF ListBuilds, ReadRow, memory, requests, bounds, Shows, FreshInv,
     Untouched, TypeInv, TypeOK, Working
<1>19. ASSUME NEW b \in Builds, JobProgresses(b)
      PROVE  FreshInv'
  BY <1>19, JobFacts DEF JobProgresses, memory, requests, history, bounds, FreshInv, Untouched,
     TypeInv, TypeOK, Working
<1>20. ASSUME NEW b \in Builds, JobIsRemoved(b)
      PROVE  FreshInv'
  BY <1>20, JobFacts DEF JobIsRemoved, memory, requests, history, bounds, FreshInv, Untouched,
     TypeInv, TypeOK, Working
<1>21. ASSUME DeleteDeployment
      PROVE  FreshInv'
  BY <1>21 DEF DeleteDeployment, memory, requests, history, bounds, FreshInv, Untouched,
     TypeInv, TypeOK, Working
<1>22. ASSUME Restart
      PROVE  FreshInv'
  BY <1>22, BuilderAssumption DEF Restart, New, history, EmptyMetrics, FreshInv, Untouched,
     TypeInv, TypeOK, Working
<1>23. ASSUME UNCHANGED vars \/ ((ValidateSource \/ BuildJob) /\ Unchanging)
      PROVE  FreshInv'
  BY <1>23 DEF vars, Unchanging, memory, requests, history, bounds, FreshInv, Untouched
<1> QED
  BY <1>1, <1>2, <1>3, <1>4, <1>5, <1>6, <1>7, <1>8, <1>9, <1>10, <1>11, <1>12, <1>13, <1>14,
     <1>15, <1>16, <1>17, <1>18, <1>19, <1>20, <1>21, <1>22, <1>23 DEF Next, BuildStep, Request

\* A build whose job is being asked for stays known to that request alone.
LEMMA SubmitStep ==
  ASSUME TypeInv, FreshInv, SubmitInv, [Next]_vars
  PROVE  SubmitInv'
<1>1. ASSUME NEW q \in Requests, NEW b \in Builds, NEW source \in Sources, TriggerBuild(q, b, source)
      PROVE  SubmitInv'
  <2>1. PICK rec \in Records :
          /\ Takes(q, "trigger", b, rec)
          /\ executing =>
               rec = Queued /\ Goes(q, "submit") /\ UNCHANGED <<builds, metrics, logged>>
          /\ ~executing =>
               rec.status = "succeeded" /\ ~rec.job /\ Goes(q, "insert") /\ Remember(b, rec)
    BY <1>1, TriggerRecord
  <2>2. /\ b \notin used /\ UNCHANGED <<rows, shown>>
        /\ build'[q] = b /\ \A p \in Requests \ {q} : build'[p] = build[p] /\ build[p] # b
        /\ Untouched(b) /\ copy'[q] = rec /\ \A p \in Requests \ {q} : copy'[p] = copy[p]
    BY <1>1, <2>1 DEF TriggerBuild, Takes, FreshInv, TypeInv, TypeOK
  <2>3. ASSUME NEW c \in Builds, c # b \/ executing, Untouched(c)
        PROVE  Untouched(c)'
    BY <2>1, <2>2, <2>3, MetricsStep DEF Remember, Untouched, TypeInv, TypeOK
  <2>4. ASSUME NEW p \in Requests, pc'[p] = "submit", NEW c, c = build'[p]
        PROVE  /\ c \in Builds /\ Untouched(c)' /\ copy'[p] = Queued
               /\ \A o \in Requests \ {p} : build'[o] # c
    <3>1. CASE p = q
      BY <2>1, <2>2, <2>3, <2>4, <3>1 DEF Goes, TypeInv, TypeOK
    <3>2. CASE p # q
      <4>1. pc[p] = "submit" /\ build[p] \in Builds
        BY <2>1, <2>4, <3>2 DEF Goes, TypeInv, TypeOK, Working
      <4> QED
        BY <2>2, <2>3, <2>4, <3>2, <4>1 DEF SubmitInv
    <3> QED
      BY <3>1, <3>2
  <2> QED
    BY <2>4 DEF SubmitInv, Untouched
<1>2. ASSUME NEW q \in Requests, SubmitBuildJob(q)
      PROVE  SubmitInv'
  BY <1>2, MetricsStep DEF SubmitBuildJob, Remember, Goes, history, bounds, SubmitInv,
     FreshInv, Untouched, TypeInv, TypeOK, Working
<1>3. ASSUME NEW q \in Requests, SubmitFails(q)
      PROVE  SubmitInv'
  BY <1>3, BuilderAssumption DEF SubmitFails, Fault, Answers, memory, history, SubmitInv,
     FreshInv, Untouched, TypeInv, TypeOK, Working
<1>4. ASSUME NEW q \in Requests, InsertBuild(q)
      PROVE  SubmitInv'
  BY <1>4, BuilderAssumption DEF InsertBuild, Shows, Answers, memory, bounds, SubmitInv,
     FreshInv, Untouched, TypeInv, TypeOK, Working
<1>5. ASSUME NEW q \in Requests, InsertFails(q)
      PROVE  SubmitInv'
  BY <1>5, BuilderAssumption DEF InsertFails, Fault, Answers, memory, history, SubmitInv,
     FreshInv, Untouched, TypeInv, TypeOK, Working
<1>6. ASSUME NEW q \in Requests, CallFails(q)
      PROVE  SubmitInv'
  BY <1>6, BuilderAssumption DEF CallFails, Fault, Goes, memory, history, SubmitInv, FreshInv,
     Untouched, TypeInv, TypeOK, Working
<1>7. ASSUME NEW q \in Requests, NEW b \in Builds, InsertPlaceholder(q, b)
      PROVE  SubmitInv'
  BY <1>7, BuilderAssumption DEF InsertPlaceholder, Answers, memory, bounds, SubmitInv,
     FreshInv, Untouched, TypeInv, TypeOK, Working
<1>8. ASSUME NEW q \in Requests, NEW b \in Builds, GetBuild(q, b)
      PROVE  SubmitInv'
  BY <1>8, AfterReadType DEF GetBuild, Takes, Goes, memory, SubmitInv, FreshInv, Untouched,
     TypeInv, TypeOK, Working
<1>9. ASSUME NEW q \in Requests, NEW b \in Builds, NEW scoped \in BOOLEAN, GetBuildLogs(q, b, scoped)
      PROVE  SubmitInv'
  BY <1>9, AfterReadType DEF GetBuildLogs, InScope, Takes, Goes, memory, SubmitInv, FreshInv,
     Untouched, TypeInv, TypeOK, Working
<1>10. ASSUME NEW q \in Requests, LookupJobStatus(q)
      PROVE  SubmitInv'
  BY <1>10 DEF LookupJobStatus, Goes, memory, history, bounds, SubmitInv, FreshInv, Untouched,
     TypeInv, TypeOK, Working
<1>11. ASSUME NEW q \in Requests, LookupFails(q)
      PROVE  SubmitInv'
  BY <1>11 DEF LookupFails, Goes, memory, history, bounds, SubmitInv, FreshInv, Untouched,
     TypeInv, TypeOK, Working
<1>12. ASSUME NEW q \in Requests, Refresh(q)
      PROVE  SubmitInv'
  BY <1>12, MetricsStep DEF Refresh, Goes, history, bounds, SubmitInv, FreshInv, Untouched,
     TypeInv, TypeOK, Working
<1>13. ASSUME NEW q \in Requests, UpdateRow(q)
      PROVE  SubmitInv'
  BY <1>13 DEF UpdateRow, Goes, memory, history, bounds, SubmitInv, FreshInv, Untouched,
     TypeInv, TypeOK, Working
<1>14. ASSUME NEW q \in Requests, UpdateFails(q)
      PROVE  SubmitInv'
  BY <1>14 DEF UpdateFails, Fault, Goes, memory, SubmitInv, FreshInv, Untouched, TypeInv,
     TypeOK, Working
<1>15. ASSUME NEW q \in Requests, Settle(q)
      PROVE  SubmitInv'
  BY <1>15, BuilderAssumption, MetricsStep DEF Settle, Goes, Answers, Shows, bounds, SubmitInv,
     FreshInv, Untouched, TypeInv, TypeOK, Working
<1>16. ASSUME NEW q \in Requests, FetchJobLogs(q)
      PROVE  SubmitInv'
  BY <1>16, BuilderAssumption DEF FetchJobLogs, Answers, history, bounds, SubmitInv, FreshInv,
     Untouched, TypeInv, TypeOK, Working
<1>17. ASSUME NEW q \in Requests, FetchFails(q)
      PROVE  SubmitInv'
  BY <1>17, BuilderAssumption, AfterReadType DEF FetchFails, Takes, Goes, Answers, memory,
     bounds, SubmitInv, FreshInv, Untouched, TypeInv, TypeOK, Working
<1>18. ASSUME ListBuilds \/ (\E b \in Builds : ReadRow(b))
      PROVE  SubmitInv'
  BY <1>18, RecordFacts DEF ListBuilds, ReadRow, memory, requests, bounds, Shows, SubmitInv,
     FreshInv, Untouched, TypeInv, TypeOK, Working
<1>19. ASSUME NEW b \in Builds, JobProgresses(b)
      PROVE  SubmitInv'
  BY <1>19 DEF JobProgresses, memory, requests, history, bounds, SubmitInv, FreshInv,
     Untouched, TypeInv, TypeOK, Working
<1>20. ASSUME NEW b \in Builds, JobIsRemoved(b)
      PROVE  SubmitInv'
  BY <1>20 DEF JobIsRemoved, memory, requests, history, bounds, SubmitInv, FreshInv, Untouched,
     TypeInv, TypeOK, Working
<1>21. ASSUME DeleteDeployment
      PROVE  SubmitInv'
  BY <1>21 DEF DeleteDeployment, memory, requests, history, bounds, SubmitInv, FreshInv,
     Untouched, TypeInv, TypeOK, Working
<1>22. ASSUME Restart
      PROVE  SubmitInv'
  BY <1>22, BuilderAssumption DEF Restart, New, history, EmptyMetrics, SubmitInv, FreshInv,
     Untouched, TypeInv, TypeOK, Working
<1>23. ASSUME UNCHANGED vars \/ ((ValidateSource \/ BuildJob) /\ Unchanging)
      PROVE  SubmitInv'
  BY <1>23 DEF vars, Unchanging, memory, requests, history, bounds, SubmitInv, Untouched
<1> QED
  BY <1>1, <1>2, <1>3, <1>4, <1>5, <1>6, <1>7, <1>8, <1>9, <1>10, <1>11, <1>12, <1>13, <1>14,
     <1>15, <1>16, <1>17, <1>18, <1>19, <1>20, <1>21, <1>22, <1>23 DEF Next, BuildStep, Request

-----------------------------------------------------------------------------
(* A record that names a job says of it what was true and stays so: a job  *)
(* that has succeeded or been given up is not taken up again, and one that *)
(* has failed only to succeed.                                             *)
Fits(s, job) ==
  job # NoJob =>
    /\ s = "succeeded" => job.succeeded
    /\ s = "failed" => job.succeeded \/ job.failed \/ job.condition = "Failed"

Complete(job) == job.succeeded <=> job.condition = "Complete"

JobInv ==
  /\ \A b \in Builds :
       /\ Complete(jobs[b])
       /\ builds[b].job => Fits(builds[b].status, jobs[b])
       /\ rows[b].job => Fits(rows[b].status, jobs[b])
  /\ \A q \in Requests : Working(q) =>
       /\ copy[q].job => Fits(copy[q].status, jobs[build[q]])
       /\ pc[q] \in {"lookup", "refresh", "update"} => copy[q].job
       /\ pc[q] = "refresh" =>
            /\ Fits(next[q], jobs[build[q]])
            /\ copy[q].status # "succeeded"
            /\ copy[q].status = "failed" => next[q] = "succeeded"

\* A job that is new or not there fits.
LEMMA FitsNew ==
  /\ Complete(NoJob) /\ Complete(NewJob)
  /\ \A s : Fits(s, NoJob) /\ (s \notin {"succeeded", "failed"} => Fits(s, NewJob))
  BY JobFacts DEF Complete, Fits

\* The status looked up fits the job, and is the later of two that fit.
LEMMA FitsLookup ==
  ASSUME NEW job \in JobStatuses, Complete(job)
  PROVE  /\ Fits(JobStatus(job), job)
         /\ Fits("succeeded", job) => JobStatus(job) = "succeeded"
         /\ Fits("failed", job) => JobStatus(job) \in {"failed", "succeeded"}
  BY JobFacts DEF Complete, Fits, JobStatus

\* What fits a job fits what becomes of it.
LEMMA FitsPods ==
  ASSUME NEW job \in JobStatuses, Complete(job), job.condition = "none", NEW later \in Pods(job)
  PROVE  Complete(later) /\ \A s : Fits(s, job) => Fits(s, later)
<1>1. later \in JobStatuses /\ later # NoJob /\ job # NoJob /\ ~job.succeeded
  BY PodsType, JobFacts DEF Complete
<1>2. /\ later.succeeded <=> later.condition = "Complete"
      /\ job.failed => later.failed
  BY <1>1, JobFacts DEF Pods, JobStatuses
<1> QED
  BY <1>1, <1>2 DEF Complete, Fits

\* Creating the job of a build being submitted agrees with every record.
LEMMA CreatedFits ==
  ASSUME TypeInv, SubmitInv, JobInv, NEW q \in Requests, pc[q] = "submit",
         jobs' \in {jobs, [jobs EXCEPT ![build[q]] = NewJob]}
  PROVE  /\ \A b \in Builds :
              /\ Complete(jobs'[b])
              /\ builds[b].job => Fits(builds[b].status, jobs'[b])
              /\ rows[b].job => Fits(rows[b].status, jobs'[b])
         /\ \A p \in Requests : Working(p) =>
              /\ copy[p].job => Fits(copy[p].status, jobs'[build[p]])
              /\ pc[p] = "refresh" => Fits(next[p], jobs'[build[p]])
<1>1. CASE jobs' = jobs
  BY <1>1 DEF JobInv
<1>2. CASE jobs' = [jobs EXCEPT ![build[q]] = NewJob]
  <2>1. /\ build[q] \in Builds /\ jobs'[build[q]] = NewJob
        /\ \A b \in Builds \ {build[q]} : jobs'[b] = jobs[b]
    BY <1>2 DEF TypeInv, TypeOK, Working
  <2>2. /\ ~builds[build[q]].job /\ ~rows[build[q]].job
        /\ copy[q].status = "queued"
        /\ \A p \in Requests \ {q} : build[p] # build[q]
    BY RecordFacts DEF SubmitInv, Untouched, Queued
  <2>3. \A p \in Requests : Working(p) => build[p] \in Builds
    BY DEF TypeInv
  <2> QED
    BY <2>1, <2>2, <2>3, FitsNew DEF JobInv
<1> QED
  BY <1>1, <1>2

\* What records say of their jobs stays so.
LEMMA JobStep ==
  ASSUME TypeInv, FreshInv, SubmitInv, JobInv, [Next]_vars
  PROVE  JobInv'
<1>1. ASSUME NEW q \in Requests, NEW b \in Builds, NEW source \in Sources, TriggerBuild(q, b, source)
      PROVE  JobInv'
  BY <1>1, RecordFacts, FitsNew DEF TriggerBuild, Takes, Goes, Remember, bounds, JobInv,
     TypeInv, TypeOK, Working, FreshInv, Untouched
<1>2. ASSUME NEW q \in Requests, SubmitBuildJob(q)
      PROVE  JobInv'
  <2>1. /\ jobs' \in {jobs, [jobs EXCEPT ![build[q]] = NewJob]} /\ pc[q] = "submit"
        /\ build[q] \in Builds /\ Working(q)
    BY <1>2 DEF SubmitBuildJob, TypeInv, Working
  <2>2. /\ builds'[build[q]] = copy[q]
        /\ \A b \in Builds \ {build[q]} : builds'[b] = builds[b]
        /\ pc'[q] = "insert" /\ \A p \in Requests \ {q} : pc'[p] = pc[p]
        /\ UNCHANGED <<rows, build, copy, next>>
    BY <1>2, <2>1 DEF SubmitBuildJob, Remember, Goes, TypeInv, TypeOK
  <2>3. /\ \A b \in Builds :
             /\ Complete(jobs'[b])
             /\ builds[b].job => Fits(builds[b].status, jobs'[b])
             /\ rows[b].job => Fits(rows[b].status, jobs'[b])
        /\ \A p \in Requests : Working(p) =>
             /\ copy[p].job => Fits(copy[p].status, jobs'[build[p]])
             /\ pc[p] = "refresh" => Fits(next[p], jobs'[build[p]])
    BY <2>1, CreatedFits
  <2>4. \A b \in Builds : /\ Complete(jobs'[b])
                          /\ builds'[b].job => Fits(builds'[b].status, jobs'[b])
                          /\ rows'[b].job => Fits(rows'[b].status, jobs'[b])
    BY <2>1, <2>2, <2>3
  <2> QED
    BY <2>1, <2>2, <2>3, <2>4 DEF JobInv, Working
<1>3. ASSUME NEW q \in Requests, SubmitFails(q)
      PROVE  JobInv'
  <2>1. /\ \A b \in Builds : builds'[b] = builds[b] /\ rows'[b] = rows[b]
        /\ \A p \in Requests \ {q} : /\ pc'[p] = pc[p] /\ build'[p] = build[p]
                                     /\ copy'[p] = copy[p] /\ next'[p] = next[p]
        /\ pc'[q] = "idle"
    BY <1>3 DEF SubmitFails, Answers, memory, TypeInv, TypeOK
  <2> QED
    BY <1>3, <2>1, CreatedFits DEF SubmitFails, JobInv, Working
<1>4. ASSUME NEW q \in Requests, InsertBuild(q)
      PROVE  JobInv'
  BY <1>4, BuilderAssumption, RecordFacts DEF InsertBuild, Shows, Answers, memory, bounds,
     JobInv, TypeInv, TypeOK, Working
<1>5. ASSUME NEW q \in Requests, InsertFails(q)
      PROVE  JobInv'
  BY <1>5, BuilderAssumption DEF InsertFails, Fault, Answers, memory, history, JobInv, TypeInv,
     TypeOK, Working
<1>6. ASSUME NEW q \in Requests, CallFails(q)
      PROVE  JobInv'
  <2>1. /\ \A b \in Builds : builds'[b] = builds[b]
        /\ \A p \in Requests \ {q} : /\ pc'[p] = pc[p] /\ build'[p] = build[p]
                                     /\ copy'[p] = copy[p] /\ next'[p] = next[p]
        /\ pc'[q] = "placeholder"
    BY <1>6 DEF CallFails, Goes, memory, TypeInv, TypeOK
  <2>2. CASE pc[q] = "submit"
    <3>1. rows' = rows
      BY <1>6, <2>2 DEF CallFails
    <3> QED
      BY <1>6, <2>1, <2>2, <3>1, CreatedFits DEF CallFails, JobInv, Working
  <2>3. CASE pc[q] # "submit"
    <3>1. /\ jobs' = jobs
          /\ \A b \in Builds : \/ rows'[b] = rows[b]
                               \/ Working(q) /\ b = build[q] /\ rows'[b] = copy[q]
      <4>1. jobs' = jobs /\ rows' \in {rows, [rows EXCEPT ![build[q]] = copy[q]]}
        BY <1>6, <2>3 DEF CallFails
      <4>2. rows' # rows => pc[q] = "insert"
        BY <1>6 DEF CallFails
      <4>3. CASE rows' = rows
        BY <4>1, <4>3
      <4>4. CASE rows' # rows
        <5>1. Working(q) /\ rows' = [rows EXCEPT ![build[q]] = copy[q]]
          BY <4>1, <4>2, <4>4 DEF Working
        <5> QED
          BY <4>1, <5>1 DEF TypeInv, TypeOK
      <4> QED
        BY <4>3, <4>4
    <3> QED
      BY <2>1, <3>1 DEF JobInv, Working
  <2> QED
    BY <2>2, <2>3
<1>7. ASSUME NEW q \in Requests, NEW b \in Builds, InsertPlaceholder(q, b)
      PROVE  JobInv'
  BY <1>7, BuilderAssumption, RecordFacts DEF InsertPlaceholder, Answers, memory, bounds,
     JobInv, TypeInv, TypeOK, Working
<1>8. ASSUME NEW q \in Requests, NEW b \in Builds, GetBuild(q, b)
      PROVE  JobInv'
  BY <1>8, RecordFacts DEF GetBuild, Takes, Goes, memory, JobInv, TypeInv, TypeOK, Working,
     AfterRead
<1>9. ASSUME NEW q \in Requests, NEW b \in Builds, NEW scoped \in BOOLEAN, GetBuildLogs(q, b, scoped)
      PROVE  JobInv'
  BY <1>9, RecordFacts DEF GetBuildLogs, InScope, Takes, Goes, memory, JobInv, TypeInv, TypeOK,
     Working, AfterRead
<1>10. ASSUME NEW q \in Requests, LookupJobStatus(q)
      PROVE  JobInv'
  BY <1>10, FitsLookup DEF LookupJobStatus, Goes, memory, history, bounds, JobInv, TypeInv,
     TypeOK, Working
<1>11. ASSUME NEW q \in Requests, LookupFails(q)
      PROVE  JobInv'
  BY <1>11 DEF LookupFails, Goes, memory, history, bounds, JobInv, TypeInv, TypeOK, Working
<1>12. ASSUME NEW q \in Requests, Refresh(q)
      PROVE  JobInv'
  BY <1>12, RecordFacts DEF Refresh, Goes, history, bounds, JobInv, TypeInv, TypeOK, Working
<1>13. ASSUME NEW q \in Requests, UpdateRow(q)
      PROVE  JobInv'
  BY <1>13, RecordFacts DEF UpdateRow, Goes, memory, history, bounds, JobInv, TypeInv, TypeOK,
     Working
<1>14. ASSUME NEW q \in Requests, UpdateFails(q)
      PROVE  JobInv'
  BY <1>14 DEF UpdateFails, Fault, Goes, memory, JobInv, TypeInv, TypeOK, Working
<1>15. ASSUME NEW q \in Requests, Settle(q)
      PROVE  JobInv'
  BY <1>15, BuilderAssumption DEF Settle, Goes, Answers, Shows, bounds, JobInv, TypeInv,
     TypeOK, Working
<1>16. ASSUME NEW q \in Requests, FetchJobLogs(q)
      PROVE  JobInv'
  BY <1>16, BuilderAssumption DEF FetchJobLogs, Answers, history, bounds, JobInv, TypeInv,
     TypeOK, Working
<1>17. ASSUME NEW q \in Requests, FetchFails(q)
      PROVE  JobInv'
  BY <1>17, BuilderAssumption, RecordFacts DEF FetchFails, Takes, Goes, Answers, memory,
     bounds, JobInv, TypeInv, TypeOK, Working, AfterRead
<1>18. ASSUME ListBuilds \/ (\E b \in Builds : ReadRow(b))
      PROVE  JobInv'
  BY <1>18, RecordFacts DEF ListBuilds, ReadRow, memory, requests, bounds, Shows, JobInv,
     TypeInv, TypeOK, Working
<1>19. ASSUME NEW b \in Builds, JobProgresses(b)
      PROVE  JobInv'
  BY <1>19, FitsPods, JobFacts DEF JobProgresses, memory, requests, history, bounds, JobInv,
     TypeInv, TypeOK, Working
<1>20. ASSUME NEW b \in Builds, JobIsRemoved(b)
      PROVE  JobInv'
  BY <1>20, FitsNew DEF JobIsRemoved, memory, requests, history, bounds, JobInv, TypeInv,
     TypeOK, Working
<1>21. ASSUME DeleteDeployment
      PROVE  JobInv'
  BY <1>21, RecordFacts DEF DeleteDeployment, memory, requests, history, bounds, JobInv,
     TypeInv, TypeOK, Working
<1>22. ASSUME Restart
      PROVE  JobInv'
  BY <1>22, BuilderAssumption, RecordFacts DEF Restart, New, history, EmptyMetrics, JobInv,
     TypeInv, TypeOK, Working
<1>23. ASSUME UNCHANGED vars \/ ((ValidateSource \/ BuildJob) /\ Unchanging)
      PROVE  JobInv'
  BY <1>23 DEF vars, Unchanging, memory, requests, history, bounds, JobInv, Working
<1> QED
  BY <1>1, <1>2, <1>3, <1>4, <1>5, <1>6, <1>7, <1>8, <1>9, <1>10, <1>11, <1>12, <1>13, <1>14,
     <1>15, <1>16, <1>17, <1>18, <1>19, <1>20, <1>21, <1>22, <1>23 DEF Next, BuildStep, Request

-----------------------------------------------------------------------------
(* Outside shared a build has one request at most.                         *)
WorkInv ==
  \A q \in Requests : build[q] \in Builds \ shared =>
    \A p \in Requests \ {q} : build[p] # build[q]

\* A request that takes up a build and does not add it to shared is alone with it.
LEMMA TakesAlone ==
  ASSUME TypeInv, NEW q \in Requests, NEW k, NEW b \in Builds, NEW rec, Takes(q, k, b, rec)
  PROVE  /\ shared \subseteq shared' /\ shared' \subseteq shared \cup {b}
         /\ build'[q] = b /\ \A p \in Requests \ {q} : build'[p] = build[p]
         /\ b \notin shared' => \A p \in Requests \ {q} : build[p] # b
<1>1. /\ shared \subseteq shared' /\ shared' \subseteq shared \cup {b}
      /\ build'[q] = b /\ \A p \in Requests \ {q} : build'[p] = build[p]
  BY DEF Takes, TypeInv, TypeOK
<1>2. ASSUME b \notin shared', NEW p \in Requests \ {q}, build[p] = b
      PROVE  FALSE
  <2>1. pc[p] # "idle"
    BY <1>2, BuilderAssumption DEF TypeInv, Working
  <2>2. p \in Busy(b)
    BY <1>2, <2>1 DEF Busy
  <2> QED
    BY <1>2, <2>2 DEF Takes
<1> QED
  BY <1>1, <1>2

\* Taking up a build keeps that.
LEMMA TakesWork ==
  ASSUME TypeInv, WorkInv, NEW q \in Requests, NEW k, NEW b \in Builds, NEW rec,
         Takes(q, k, b, rec)
  PROVE  WorkInv'
  BY TakesAlone DEF WorkInv

\* A build outside shared keeps having one request at most.
LEMMA WorkStep ==
  ASSUME TypeInv, WorkInv, [Next]_vars
  PROVE  WorkInv'
<1>1. ASSUME NEW q \in Requests, NEW b \in Builds, NEW source \in Sources, TriggerBuild(q, b, source)
      PROVE  WorkInv'
  <2>1. PICK rec \in Records : Takes(q, "trigger", b, rec)
    BY <1>1, TriggerRecord
  <2> QED
    BY <2>1, TakesWork
<1>2. ASSUME NEW q \in Requests, SubmitBuildJob(q)
      PROVE  WorkInv'
  BY <1>2 DEF SubmitBuildJob, Remember, Goes, history, bounds, WorkInv, TypeInv, TypeOK
<1>3. ASSUME NEW q \in Requests, SubmitFails(q)
      PROVE  WorkInv'
  BY <1>3, BuilderAssumption DEF SubmitFails, Fault, Answers, memory, history, WorkInv,
     TypeInv, TypeOK
<1>4. ASSUME NEW q \in Requests, InsertBuild(q)
      PROVE  WorkInv'
  BY <1>4, BuilderAssumption DEF InsertBuild, Shows, Answers, memory, bounds, WorkInv, TypeInv,
     TypeOK
<1>5. ASSUME NEW q \in Requests, InsertFails(q)
      PROVE  WorkInv'
  BY <1>5, BuilderAssumption DEF InsertFails, Fault, Answers, memory, history, WorkInv,
     TypeInv, TypeOK
<1>6. ASSUME NEW q \in Requests, CallFails(q)
      PROVE  WorkInv'
  BY <1>6, BuilderAssumption DEF CallFails, Fault, Goes, memory, history, WorkInv, TypeInv,
     TypeOK
<1>7. ASSUME NEW q \in Requests, NEW b \in Builds, InsertPlaceholder(q, b)
      PROVE  WorkInv'
  BY <1>7, BuilderAssumption DEF InsertPlaceholder, Answers, memory, bounds, WorkInv, TypeInv,
     TypeOK
<1>8. ASSUME NEW q \in Requests, NEW b \in Builds, GetBuild(q, b)
      PROVE  WorkInv'
  BY <1>8, TakesWork DEF GetBuild
<1>9. ASSUME NEW q \in Requests, NEW b \in Builds, NEW scoped \in BOOLEAN, GetBuildLogs(q, b, scoped)
      PROVE  WorkInv'
  <2>1. PICK k \in Kinds, rec \in Records, p \in Steps : Starts(q, k, b, rec, p)
    BY <1>9, GetLogsRecord, AfterReadType DEF Kinds, Steps
  <2> QED
    BY <2>1, TakesWork DEF Starts
<1>10. ASSUME NEW q \in Requests, LookupJobStatus(q)
      PROVE  WorkInv'
  BY <1>10 DEF LookupJobStatus, Goes, memory, history, bounds, WorkInv, TypeInv, TypeOK
<1>11. ASSUME NEW q \in Requests, LookupFails(q)
      PROVE  WorkInv'
  BY <1>11 DEF LookupFails, Goes, memory, history, bounds, WorkInv, TypeInv, TypeOK
<1>12. ASSUME NEW q \in Requests, Refresh(q)
      PROVE  WorkInv'
  BY <1>12 DEF Refresh, Goes, history, bounds, WorkInv, TypeInv, TypeOK
<1>13. ASSUME NEW q \in Requests, UpdateRow(q)
      PROVE  WorkInv'
  BY <1>13 DEF UpdateRow, Goes, memory, history, bounds, WorkInv, TypeInv, TypeOK
<1>14. ASSUME NEW q \in Requests, UpdateFails(q)
      PROVE  WorkInv'
  BY <1>14 DEF UpdateFails, Fault, Goes, memory, WorkInv, TypeInv, TypeOK
<1>15. ASSUME NEW q \in Requests, Settle(q)
      PROVE  WorkInv'
  BY <1>15, BuilderAssumption DEF Settle, Goes, Answers, Shows, bounds, WorkInv, TypeInv,
     TypeOK
<1>16. ASSUME NEW q \in Requests, FetchJobLogs(q)
      PROVE  WorkInv'
  BY <1>16, BuilderAssumption DEF FetchJobLogs, Answers, history, bounds, WorkInv, TypeInv,
     TypeOK
<1>17. ASSUME NEW q \in Requests, FetchFails(q)
      PROVE  WorkInv'
  <2>1. CASE Takes(q, "rowlogs", build[q], rows[build[q]])
    <3>1. build[q] \in Builds
      BY <1>17 DEF FetchFails, TypeInv, Working
    <3> QED
      BY <2>1, <3>1, TakesWork
  <2>2. CASE Answers(q) /\ UNCHANGED shared
    BY <2>2, BuilderAssumption DEF Answers, WorkInv, TypeInv, TypeOK
  <2> QED
    BY <1>17, <2>1, <2>2 DEF FetchFails
<1>18. ASSUME ListBuilds \/ (\E b \in Builds : ReadRow(b))
      PROVE  WorkInv'
  BY <1>18 DEF ListBuilds, ReadRow, memory, requests, bounds, Shows, WorkInv, TypeInv, TypeOK
<1>19. ASSUME NEW b \in Builds, JobProgresses(b)
      PROVE  WorkInv'
  BY <1>19 DEF JobProgresses, memory, requests, history, bounds, WorkInv, TypeInv, TypeOK
<1>20. ASSUME NEW b \in Builds, JobIsRemoved(b)
      PROVE  WorkInv'
  BY <1>20 DEF JobIsRemoved, memory, requests, history, bounds, WorkInv, TypeInv, TypeOK
<1>21. ASSUME DeleteDeployment
      PROVE  WorkInv'
  BY <1>21 DEF DeleteDeployment, memory, requests, history, bounds, WorkInv, TypeInv, TypeOK
<1>22. ASSUME Restart
      PROVE  WorkInv'
  BY <1>22, BuilderAssumption DEF Restart, New, history, EmptyMetrics, WorkInv, TypeInv, TypeOK
<1>23. ASSUME UNCHANGED vars \/ ((ValidateSource \/ BuildJob) /\ Unchanging)
      PROVE  WorkInv'
  BY <1>23 DEF vars, Unchanging, requests, history, WorkInv
<1> QED
  BY <1>1, <1>2, <1>3, <1>4, <1>5, <1>6, <1>7, <1>8, <1>9, <1>10, <1>11, <1>12, <1>13, <1>14,
     <1>15, <1>16, <1>17, <1>18, <1>19, <1>20, <1>21, <1>22, <1>23 DEF Next, BuildStep, Request

-----------------------------------------------------------------------------
(* What the record a request holds, memory and the row of its build have   *)
(* to do with each other at each step, if no other request is at work on   *)
(* the build and no statement was lost: what is there agrees, but for the  *)
(* row between the write of memory and its own, when it is not yet         *)
(* "succeeded", or the job would not have been found otherwise.            *)
Agree(r1, r2) == r1 # NoRecord /\ r2 # NoRecord => r1 = r2

Consistent(p, rec, mem, row) ==
  /\ p \in {"submit", "insert"} => row = NoRecord
  /\ p = "insert" => mem = rec
  /\ p \in {"lookup", "refresh", "settle"} => Agree(mem, rec) /\ Agree(row, rec)
  /\ p = "update" => mem = rec /\ (row # NoRecord => row.job /\ row.status # "succeeded")
  /\ p # "update" => Agree(mem, row)

AgreeInv ==
  \A b \in Builds \ (shared \cup lost) :
    /\ \A q \in Requests : build[q] = b => Consistent(pc[q], copy[q], builds[b], rows[b])
    /\ (\A q \in Requests : build[q] # b) => Agree(builds[b], rows[b])

\* Taking up a build with a record that agrees keeps them agreeing.
LEMMA AgreeStarts ==
  ASSUME TypeInv, AgreeInv, NEW q \in Requests, NEW k, NEW b \in Builds, NEW rec,
         NEW step \in Steps, pc[q] = "idle", Starts(q, k, b, rec, step),
         UNCHANGED <<rows, builds, lost>>,
         Agree(builds[b], rows[b]) => Consistent(step, rec, builds[b], rows[b])
  PROVE  AgreeInv'
<1>1. Takes(q, k, b, rec)
  BY DEF Starts
<1>2. /\ pc'[q] = step /\ copy'[q] = rec
      /\ \A p \in Requests \ {q} : pc'[p] = pc[p] /\ copy'[p] = copy[p]
  BY DEF Starts, Takes, Goes, TypeInv, TypeOK
<1>3. build[q] = NoBuild /\ NoBuild \notin Builds
  BY BuilderAssumption DEF TypeInv, Working
<1>4. /\ shared \subseteq shared' /\ build'[q] = b
      /\ \A p \in Requests \ {q} : build'[p] = build[p]
      /\ b \notin shared' => \A p \in Requests \ {q} : build[p] # b
  BY <1>1, TakesAlone
<1>5. b \notin shared' => \A p \in Requests : build[p] # b
  BY <1>3, <1>4
<1>6. ASSUME NEW c \in Builds \ (shared' \cup lost'), NEW p \in Requests, build'[p] = c
      PROVE  Consistent(pc'[p], copy'[p], builds[c], rows[c])
  <2>1. c \in Builds \ (shared \cup lost)
    BY <1>4
  <2>2. CASE p = q
    BY <1>2, <1>4, <1>5, <1>6, <2>1, <2>2 DEF AgreeInv
  <2>3. CASE p # q
    BY <1>2, <1>4, <1>6, <2>1, <2>3 DEF AgreeInv
  <2> QED
    BY <2>2, <2>3
<1>7. ASSUME NEW c \in Builds \ (shared' \cup lost'), \A p \in Requests : build'[p] # c
      PROVE  Agree(builds[c], rows[c])
  <2>1. \A p \in Requests : build[p] # c
    BY <1>3, <1>4, <1>7
  <2>2. c \in Builds \ (shared \cup lost)
    BY <1>4
  <2> QED
    BY <2>1, <2>2 DEF AgreeInv
<1> QED
  BY <1>6, <1>7 DEF AgreeInv

\* Record, memory and row keep agreeing.
LEMMA AgreeStep ==
  ASSUME TypeInv, FreshInv, SubmitInv, JobInv, WorkInv, AgreeInv, [Next]_vars
  PROVE  AgreeInv'
<1>1. ASSUME NEW q \in Requests, NEW b \in Builds, NEW source \in Sources, TriggerBuild(q, b, source)
      PROVE  AgreeInv'
  BY <1>1, TakesAlone DEF TriggerBuild, Takes, Goes, Remember, bounds, AgreeInv, Consistent,
     Agree, TypeInv, TypeOK, Working, FreshInv, Untouched
<1>2. ASSUME NEW q \in Requests, SubmitBuildJob(q)
      PROVE  AgreeInv'
  BY <1>2 DEF SubmitBuildJob, Remember, Goes, history, bounds, AgreeInv, Consistent, Agree,
     TypeInv, TypeOK, Working, WorkInv, SubmitInv
<1>3. ASSUME NEW q \in Requests, SubmitFails(q)
      PROVE  AgreeInv'
  BY <1>3, BuilderAssumption DEF SubmitFails, Fault, Answers, memory, history, AgreeInv,
     Consistent, Agree, TypeInv, TypeOK, Working, SubmitInv, Untouched
<1>4. ASSUME NEW q \in Requests, InsertBuild(q)
      PROVE  AgreeInv'
  BY <1>4, BuilderAssumption DEF InsertBuild, Shows, Answers, memory, bounds, AgreeInv,
     Consistent, Agree, TypeInv, TypeOK, Working, WorkInv
<1>5. ASSUME NEW q \in Requests, InsertFails(q)
      PROVE  AgreeInv'
  BY <1>5, BuilderAssumption DEF InsertFails, Fault, Answers, memory, history, AgreeInv,
     Consistent, Agree, TypeInv, TypeOK, Working, WorkInv
<1>6. ASSUME NEW q \in Requests, CallFails(q)
      PROVE  AgreeInv'
  BY <1>6, BuilderAssumption DEF CallFails, Fault, Goes, memory, history, AgreeInv, Consistent,
     Agree, TypeInv, TypeOK, Working, SubmitInv, Untouched, WorkInv
<1>7. ASSUME NEW q \in Requests, NEW b \in Builds, InsertPlaceholder(q, b)
      PROVE  AgreeInv'
  BY <1>7, BuilderAssumption DEF InsertPlaceholder, Answers, memory, bounds, AgreeInv,
     Consistent, Agree, TypeInv, TypeOK, Working, FreshInv, Untouched
<1>8. ASSUME NEW q \in Requests, NEW b \in Builds, GetBuild(q, b)
      PROVE  AgreeInv'
  <2>1. PICK rec \in Records :
          /\ rec = IF builds[b] # NoRecord THEN builds[b] ELSE rows[b]
          /\ Starts(q, "get", b, rec, AfterRead(rec))
    BY <1>8, GetRecord
  <2>2. AfterRead(rec) \in Steps /\ AfterRead(rec) \in {"lookup", "settle"}
    BY AfterReadType DEF Steps
  <2>3. Agree(builds[b], rows[b]) => Consistent(AfterRead(rec), rec, builds[b], rows[b])
    BY <2>1, <2>2, RecordFacts DEF Consistent, Agree
  <2>4. pc[q] = "idle" /\ UNCHANGED <<rows, builds, lost>>
    BY <1>8 DEF GetBuild, memory
  <2> QED
    BY <2>1, <2>2, <2>3, <2>4, AgreeStarts
<1>9. ASSUME NEW q \in Requests, NEW b \in Builds, NEW scoped \in BOOLEAN, GetBuildLogs(q, b, scoped)
      PROVE  AgreeInv'
  <2>1. pc[q] = "idle" /\ UNCHANGED <<rows, builds, lost>>
    BY <1>9 DEF GetBuildLogs, memory
  <2>2. CASE Starts(q, IF b \in logged THEN "text" ELSE "logs", b, builds[b], "fetch")
    <3>1. Agree(builds[b], rows[b]) => Consistent("fetch", builds[b], builds[b], rows[b])
      BY DEF Consistent
    <3> QED
      BY <2>1, <2>2, <3>1, AgreeStarts DEF Steps
  <2>3. CASE Starts(q, "rowlogs", b, rows[b], AfterRead(rows[b]))
    <3>1. AfterRead(rows[b]) \in Steps /\ AfterRead(rows[b]) \in {"lookup", "settle"}
      BY AfterReadType DEF Steps
    <3>2. Agree(builds[b], rows[b]) =>
            Consistent(AfterRead(rows[b]), rows[b], builds[b], rows[b])
      BY <3>1 DEF Consistent, Agree
    <3> QED
      BY <2>1, <2>3, <3>1, <3>2, AgreeStarts
  <2> QED
    BY <1>9, <2>2, <2>3, GetLogsRecord
<1>10. ASSUME NEW q \in Requests, LookupJobStatus(q)
      PROVE  AgreeInv'
  BY <1>10 DEF LookupJobStatus, Goes, memory, history, bounds, AgreeInv, Consistent, Agree,
     TypeInv, TypeOK, Working
<1>11. ASSUME NEW q \in Requests, LookupFails(q)
      PROVE  AgreeInv'
  BY <1>11 DEF LookupFails, Goes, memory, history, bounds, AgreeInv, Consistent, Agree,
     TypeInv, TypeOK, Working
<1>12. ASSUME NEW q \in Requests, Refresh(q)
      PROVE  AgreeInv'
  BY <1>12, RecordFacts DEF Refresh, Goes, history, bounds, AgreeInv, Consistent, Agree,
     TypeInv, TypeOK, Working, WorkInv, JobInv
<1>13. ASSUME NEW q \in Requests, UpdateRow(q)
      PROVE  AgreeInv'
  BY <1>13, RecordFacts DEF UpdateRow, Goes, memory, history, bounds, AgreeInv, Consistent,
     Agree, TypeInv, TypeOK, Working, JobInv, WorkInv
<1>14. ASSUME NEW q \in Requests, UpdateFails(q)
      PROVE  AgreeInv'
  BY <1>14 DEF UpdateFails, Fault, Goes, memory, AgreeInv, Consistent, Agree, TypeInv, TypeOK,
     Working
<1>15. ASSUME NEW q \in Requests, Settle(q)
      PROVE  AgreeInv'
  BY <1>15, BuilderAssumption DEF Settle, Goes, Answers, Shows, bounds, AgreeInv, Consistent,
     Agree, TypeInv, TypeOK, Working, WorkInv
<1>16. ASSUME NEW q \in Requests, FetchJobLogs(q)
      PROVE  AgreeInv'
  BY <1>16, BuilderAssumption DEF FetchJobLogs, Answers, history, bounds, AgreeInv, Consistent,
     Agree, TypeInv, TypeOK, Working, WorkInv
<1>17. ASSUME NEW q \in Requests, FetchFails(q)
      PROVE  AgreeInv'
  BY <1>17, BuilderAssumption, TakesAlone, AfterReadType DEF FetchFails, Takes, Goes, Answers,
     memory, bounds, AgreeInv, Consistent, Agree, TypeInv, TypeOK, Working, WorkInv
<1>18. ASSUME ListBuilds \/ (\E b \in Builds : ReadRow(b))
      PROVE  AgreeInv'
  BY <1>18 DEF ListBuilds, ReadRow, memory, requests, bounds, Shows, AgreeInv, Consistent,
     Agree, TypeInv, TypeOK, Working
<1>19. ASSUME NEW b \in Builds, JobProgresses(b)
      PROVE  AgreeInv'
  BY <1>19 DEF JobProgresses, memory, requests, history, bounds, AgreeInv, Consistent, Agree,
     TypeInv, TypeOK, Working
<1>20. ASSUME NEW b \in Builds, JobIsRemoved(b)
      PROVE  AgreeInv'
  BY <1>20 DEF JobIsRemoved, memory, requests, history, bounds, AgreeInv, Consistent, Agree,
     TypeInv, TypeOK, Working
<1>21. ASSUME DeleteDeployment
      PROVE  AgreeInv'
  BY <1>21 DEF DeleteDeployment, memory, requests, history, bounds, AgreeInv, Consistent,
     Agree, TypeInv, TypeOK, Working
<1>22. ASSUME Restart
      PROVE  AgreeInv'
  BY <1>22, BuilderAssumption DEF Restart, New, history, EmptyMetrics, AgreeInv, Consistent,
     Agree, TypeInv, TypeOK, Working
<1>23. ASSUME UNCHANGED vars \/ ((ValidateSource \/ BuildJob) /\ Unchanging)
      PROVE  AgreeInv'
  BY <1>23 DEF vars, Unchanging, memory, requests, history, AgreeInv
<1> QED
  BY <1>1, <1>2, <1>3, <1>4, <1>5, <1>6, <1>7, <1>8, <1>9, <1>10, <1>11, <1>12, <1>13, <1>14,
     <1>15, <1>16, <1>17, <1>18, <1>19, <1>20, <1>21, <1>22, <1>23 DEF Next, BuildStep, Request

-----------------------------------------------------------------------------
(* A build shown as succeeded is so for memory, row and the request at     *)
(* work on it.                                                             *)
ShownInv ==
  \A b \in shown \ (shared \cup lost) :
    /\ builds[b] # NoRecord => builds[b].status = "succeeded"
    /\ rows[b] # NoRecord => rows[b].status = "succeeded"
    /\ \A q \in Requests : build[q] = b =>
         /\ pc[q] \notin {"submit", "insert"}
         /\ pc[q] # "fetch" => copy[q].status = "succeeded"

\* What was shown as succeeded stays so.
LEMMA ShownStep ==
  ASSUME TypeInv, FreshInv, SubmitInv, JobInv, WorkInv, AgreeInv, ShownInv, [Next]_vars
  PROVE  ShownInv'
<1>1. ASSUME NEW q \in Requests, NEW b \in Builds, NEW source \in Sources, TriggerBuild(q, b, source)
      PROVE  ShownInv'
  BY <1>1, TakesAlone DEF TriggerBuild, Takes, Goes, Remember, bounds, ShownInv, TypeInv,
     TypeOK, Working, FreshInv, Untouched
<1>2. ASSUME NEW q \in Requests, SubmitBuildJob(q)
      PROVE  ShownInv'
  BY <1>2 DEF SubmitBuildJob, Remember, Goes, history, bounds, ShownInv, TypeInv, TypeOK,
     Working, WorkInv, SubmitInv, Untouched
<1>3. ASSUME NEW q \in Requests, SubmitFails(q)
      PROVE  ShownInv'
  BY <1>3, BuilderAssumption DEF SubmitFails, Fault, Answers, memory, history, ShownInv,
     TypeInv, TypeOK, Working, SubmitInv, Untouched
<1>4. ASSUME NEW q \in Requests, InsertBuild(q)
      PROVE  ShownInv'
  BY <1>4, BuilderAssumption, RecordFacts DEF InsertBuild, Shows, Answers, memory, bounds,
     ShownInv, TypeInv, TypeOK, Working, WorkInv, AgreeInv, Consistent
<1>5. ASSUME NEW q \in Requests, InsertFails(q)
      PROVE  ShownInv'
  BY <1>5, BuilderAssumption DEF InsertFails, Fault, Answers, memory, history, ShownInv,
     TypeInv, TypeOK, Working
<1>6. ASSUME NEW q \in Requests, CallFails(q)
      PROVE  ShownInv'
  BY <1>6, BuilderAssumption DEF CallFails, Fault, Goes, memory, history, ShownInv, TypeInv,
     TypeOK, Working, SubmitInv, Untouched, WorkInv
<1>7. ASSUME NEW q \in Requests, NEW b \in Builds, InsertPlaceholder(q, b)
      PROVE  ShownInv'
  BY <1>7, BuilderAssumption DEF InsertPlaceholder, Answers, memory, bounds, ShownInv, TypeInv,
     TypeOK, Working, FreshInv, Untouched
<1>8. ASSUME NEW q \in Requests, NEW b \in Builds, GetBuild(q, b)
      PROVE  ShownInv'
  BY <1>8, TakesAlone, AfterReadType DEF GetBuild, Takes, Goes, memory, ShownInv, TypeInv,
     TypeOK, Working
<1>9. ASSUME NEW q \in Requests, NEW b \in Builds, NEW scoped \in BOOLEAN, GetBuildLogs(q, b, scoped)
      PROVE  ShownInv'
  BY <1>9, TakesAlone, AfterReadType DEF GetBuildLogs, InScope, Takes, Goes, memory, ShownInv,
     TypeInv, TypeOK, Working
<1>10. ASSUME NEW q \in Requests, LookupJobStatus(q)
      PROVE  ShownInv'
  BY <1>10 DEF LookupJobStatus, Goes, memory, history, bounds, ShownInv, TypeInv, TypeOK,
     Working
<1>11. ASSUME NEW q \in Requests, LookupFails(q)
      PROVE  ShownInv'
  BY <1>11 DEF LookupFails, Goes, memory, history, bounds, ShownInv, TypeInv, TypeOK, Working
<1>12. ASSUME NEW q \in Requests, Refresh(q)
      PROVE  ShownInv'
  BY <1>12, RecordFacts DEF Refresh, Goes, history, bounds, ShownInv, TypeInv, TypeOK, Working,
     WorkInv, JobInv
<1>13. ASSUME NEW q \in Requests, UpdateRow(q)
      PROVE  ShownInv'
  BY <1>13, RecordFacts DEF UpdateRow, Goes, memory, history, bounds, ShownInv, TypeInv,
     TypeOK, Working, WorkInv
<1>14. ASSUME NEW q \in Requests, UpdateFails(q)
      PROVE  ShownInv'
  BY <1>14 DEF UpdateFails, Fault, Goes, memory, ShownInv, TypeInv, TypeOK, Working
<1>15. ASSUME NEW q \in Requests, Settle(q)
      PROVE  ShownInv'
  BY <1>15, BuilderAssumption, RecordFacts DEF Settle, Goes, Answers, Shows, bounds, ShownInv,
     TypeInv, TypeOK, Working, WorkInv, AgreeInv, Consistent, Agree
<1>16. ASSUME NEW q \in Requests, FetchJobLogs(q)
      PROVE  ShownInv'
  BY <1>16, BuilderAssumption DEF FetchJobLogs, Answers, history, bounds, ShownInv, TypeInv,
     TypeOK, Working
<1>17. ASSUME NEW q \in Requests, FetchFails(q)
      PROVE  ShownInv'
  BY <1>17, BuilderAssumption, TakesAlone, AfterReadType DEF FetchFails, Takes, Goes, Answers,
     memory, bounds, ShownInv, TypeInv, TypeOK, Working, WorkInv
<1>18. ASSUME ListBuilds \/ (\E b \in Builds : ReadRow(b))
      PROVE  ShownInv'
  <2>1. /\ UNCHANGED <<rows, builds, pc, build, copy, shared, lost>>
        /\ \A b \in shown' \ shown : b \in Builds /\ rows[b].status = "succeeded"
    BY <1>18 DEF ListBuilds, ReadRow, Shows, memory, requests
  <2>2. ASSUME NEW b \in Builds \ (shared \cup lost), rows[b].status = "succeeded"
        PROVE  /\ builds[b] # NoRecord => builds[b].status = "succeeded"
               /\ \A q \in Requests : build[q] = b =>
                    /\ pc[q] \notin {"submit", "insert"}
                    /\ pc[q] # "fetch" => copy[q].status = "succeeded"
    <3>1. rows[b] # NoRecord
      BY <2>2, RecordFacts
    <3>2. ASSUME NEW q \in Requests, build[q] = b
          PROVE  /\ pc[q] \in {"lookup", "refresh", "settle", "fetch"}
                 /\ pc[q] # "fetch" => copy[q] = rows[b]
                 /\ Agree(builds[b], rows[b])
      <4>1. Working(q) /\ pc[q] \in Steps /\ copy[q] # NoRecord
        BY <2>2, <3>2, BuilderAssumption, RecordFacts DEF TypeInv, TypeOK, Working
      <4>2. Consistent(pc[q], copy[q], builds[b], rows[b])
        BY <2>2, <3>2 DEF AgreeInv
      <4> QED
        BY <2>2, <3>1, <4>1, <4>2 DEF Consistent, Agree, Working, Steps
    <3>3. Agree(builds[b], rows[b])
      BY <2>2, <3>2 DEF AgreeInv
    <3> QED
      BY <2>2, <3>1, <3>2, <3>3 DEF Agree
  <2> QED
    BY <2>1, <2>2 DEF ShownInv, TypeInv, TypeOK
<1>19. ASSUME NEW b \in Builds, JobProgresses(b)
      PROVE  ShownInv'
  BY <1>19 DEF JobProgresses, memory, requests, history, bounds, ShownInv, TypeInv, TypeOK,
     Working
<1>20. ASSUME NEW b \in Builds, JobIsRemoved(b)
      PROVE  ShownInv'
  BY <1>20 DEF JobIsRemoved, memory, requests, history, bounds, ShownInv, TypeInv, TypeOK,
     Working
<1>21. ASSUME DeleteDeployment
      PROVE  ShownInv'
  BY <1>21 DEF DeleteDeployment, memory, requests, history, bounds, ShownInv, TypeInv, TypeOK,
     Working
<1>22. ASSUME Restart
      PROVE  ShownInv'
  BY <1>22, BuilderAssumption DEF Restart, New, history, EmptyMetrics, ShownInv, TypeInv,
     TypeOK, Working
<1>23. ASSUME UNCHANGED vars \/ ((ValidateSource \/ BuildJob) /\ Unchanging)
      PROVE  ShownInv'
  BY <1>23 DEF vars, Unchanging, memory, requests, history, ShownInv
<1> QED
  BY <1>1, <1>2, <1>3, <1>4, <1>5, <1>6, <1>7, <1>8, <1>9, <1>10, <1>11, <1>12, <1>13, <1>14,
     <1>15, <1>16, <1>17, <1>18, <1>19, <1>20, <1>21, <1>22, <1>23 DEF Next, BuildStep, Request

\* The invariant of the records.
RecordInv == TypeInv /\ FreshInv /\ SubmitInv /\ JobInv /\ WorkInv /\ AgreeInv /\ ShownInv

\* It holds at first.
LEMMA RecordInit == Init => RecordInv
<1> SUFFICES ASSUME Init PROVE RecordInv
  OBVIOUS
<1>1. TypeInv
  BY TypeInit
<1>2. FreshInv
  BY BuilderAssumption DEF Init, FreshInv, Untouched, EmptyMetrics
<1>3. SubmitInv /\ WorkInv /\ ShownInv
  BY BuilderAssumption DEF Init, SubmitInv, WorkInv, ShownInv
<1>4. JobInv
  BY FitsNew, RecordFacts DEF Init, JobInv, Working
<1>5. AgreeInv
  BY BuilderAssumption DEF Init, AgreeInv, Agree
<1> QED
  BY <1>1, <1>2, <1>3, <1>4, <1>5 DEF RecordInv

\* It holds throughout.
LEMMA RecordInvariant == Spec => []RecordInv
<1>1. RecordInv /\ [Next]_vars => RecordInv'
  BY TypeStep, FreshStep, SubmitStep, JobStep, WorkStep, AgreeStep, ShownStep DEF RecordInv
<1> QED
  BY RecordInit, <1>1, PTL DEF Spec

\* A build's row agrees with the record in memory once nobody is at work on
\* it, unless an UPDATE was lost or two readers overlapped (api.go
\* refreshBuildRuntimeStatus).
THEOREM RowsFollow == Spec => []RowFollowsMemory
<1>1. RecordInv => RowFollowsMemory
  <2> SUFFICES ASSUME RecordInv, NEW b \in Builds, builds[b] # NoRecord, rows[b] # NoRecord,
                      Busy(b) = {}, b \notin shared \cup lost
               PROVE  rows[b] = builds[b]
    BY DEF RowFollowsMemory
  <2>1. \A q \in Requests : build[q] # b
    BY BuilderAssumption DEF Busy, RecordInv, TypeInv, Working
  <2> QED
    BY <2>1 DEF RecordInv, AgreeInv, Agree
<1> QED
  BY <1>1, RecordInvariant, PTL

\* A build once shown as succeeded is so in memory and in the row, unless
\* readers overlapped or an UPDATE was lost (api.go getBuild, httpapi.go
\* getBuild and listBuilds).
THEOREM SuccessStays == Spec => []SuccessStaysShown
<1>1. RecordInv => SuccessStaysShown
  BY DEF RecordInv, ShownInv, SuccessStaysShown
<1> QED
  BY <1>1, RecordInvariant, PTL

-----------------------------------------------------------------------------
(* While no two requests met on a build and the builder has not restarted, *)
(* memory has every build whose row names a job, with the status last      *)
(* counted and a text of logs; whoever is at work on it has that record.   *)
Known(b) == builds[b] # NoRecord
Placeholder == [status |-> "queued", job |-> FALSE]

MemoryInv ==
  shared = {} /\ restarts = 0 =>
    /\ \A b \in Builds :
         /\ Known(b) => metrics.status[b] = builds[b].status /\ b \in logged
         /\ ~Known(b) => /\ metrics.status[b] \in {"none", "queued"}
                         /\ rows[b] \in {NoRecord, Placeholder}
    /\ \A q \in Requests : Working(q) => kind[q] # "logs"
    /\ \A q \in Requests : Working(q) /\ pc[q] # "submit" =>
         IF Known(build[q]) THEN copy[q] = builds[build[q]]
         ELSE pc[q] = "settle" /\ copy[q] = Placeholder

\* Memory knows its builds after a request has taken one up.
LEMMA StartsMemory ==
  ASSUME TypeInv, MemoryInv, NEW q \in Requests, NEW k, NEW b \in Builds, NEW rec \in Records,
         NEW p \in {"lookup", "settle", "fetch"}, Starts(q, k, b, rec, p),
         UNCHANGED <<rows, memory, restarts>>,
         shared = {} /\ restarts = 0 =>
           /\ k # "logs"
           /\ IF Known(b) THEN rec = builds[b] ELSE p = "settle" /\ rec = Placeholder
  PROVE  MemoryInv'
<1>1. /\ shared \subseteq shared'
      /\ pc'[q] = p /\ kind'[q] = k /\ build'[q] = b /\ copy'[q] = rec
      /\ \A o \in Requests \ {q} : /\ pc'[o] = pc[o] /\ kind'[o] = kind[o]
                                   /\ build'[o] = build[o] /\ copy'[o] = copy[o]
  BY DEF Starts, Takes, Goes, TypeInv, TypeOK
<1> QED
  BY <1>1 DEF MemoryInv, Known, Working, memory

\* Memory keeps knowing its builds.
LEMMA MemoryStep ==
  ASSUME TypeInv, FreshInv, SubmitInv, JobInv, WorkInv, MemoryInv, [Next]_vars
  PROVE  MemoryInv'
<1>1. ASSUME NEW q \in Requests, NEW b \in Builds, NEW source \in Sources, TriggerBuild(q, b, source)
      PROVE  MemoryInv'
  BY <1>1, MetricsStep, TakesAlone, RecordFacts DEF TriggerBuild, Takes, Goes, Remember,
     bounds, MemoryInv, Known, TypeInv, TypeOK, Working, FreshInv, Untouched
<1>2. ASSUME NEW q \in Requests, SubmitBuildJob(q)
      PROVE  MemoryInv'
  BY <1>2, MetricsStep, RecordFacts DEF SubmitBuildJob, Remember, Goes, history, bounds,
     MemoryInv, Known, TypeInv, TypeOK, Working, WorkInv, SubmitInv, Untouched
<1>3. ASSUME NEW q \in Requests, SubmitFails(q)
      PROVE  MemoryInv'
  BY <1>3, BuilderAssumption DEF SubmitFails, Fault, Answers, memory, history, MemoryInv,
     Known, TypeInv, TypeOK, Working
<1>4. ASSUME NEW q \in Requests, InsertBuild(q)
      PROVE  MemoryInv'
  BY <1>4, BuilderAssumption, RecordFacts DEF InsertBuild, Shows, Answers, memory, bounds,
     MemoryInv, Known, TypeInv, TypeOK, Working, WorkInv
<1>5. ASSUME NEW q \in Requests, InsertFails(q)
      PROVE  MemoryInv'
  BY <1>5, BuilderAssumption DEF InsertFails, Fault, Answers, memory, history, MemoryInv,
     Known, TypeInv, TypeOK, Working
<1>6. ASSUME NEW q \in Requests, CallFails(q)
      PROVE  MemoryInv'
  BY <1>6, BuilderAssumption DEF CallFails, Fault, Goes, memory, history, MemoryInv, Known,
     TypeInv, TypeOK, Working, WorkInv
<1>7. ASSUME NEW q \in Requests, NEW b \in Builds, InsertPlaceholder(q, b)
      PROVE  MemoryInv'
  <2>1. /\ ~Known(b) /\ Answers(q) /\ UNCHANGED <<memory, shared, restarts>>
        /\ rows'[b] \in {rows[b], Placeholder}
        /\ \A c \in Builds \ {b} : rows'[c] = rows[c]
    BY <1>7 DEF InsertPlaceholder, Placeholder, FreshInv, Untouched, Known, bounds, TypeInv,
       TypeOK
  <2> QED
    BY <2>1 DEF Answers, memory, MemoryInv, Known, Working, TypeInv, TypeOK
<1>8. ASSUME NEW q \in Requests, NEW b \in Builds, GetBuild(q, b)
      PROVE  MemoryInv'
  <2>1. PICK rec \in Records :
          /\ rec = IF builds[b] # NoRecord THEN builds[b] ELSE rows[b]
          /\ Starts(q, "get", b, rec, AfterRead(rec))
    BY <1>8, GetRecord
  <2>2. shared = {} /\ restarts = 0 /\ ~Known(b) => rec = Placeholder
    BY <2>1, RecordFacts DEF MemoryInv, Known
  <2>3. AfterRead(Placeholder) = "settle"
    BY DEF AfterRead, Placeholder
  <2> QED
    BY <1>8, <2>1, <2>2, <2>3, AfterReadType, StartsMemory DEF GetBuild, Known
<1>9. ASSUME NEW q \in Requests, NEW b \in Builds, NEW scoped \in BOOLEAN, GetBuildLogs(q, b, scoped)
      PROVE  MemoryInv'
  <2>1. UNCHANGED <<rows, memory, restarts>>
    BY <1>9 DEF GetBuildLogs
  <2>2. CASE /\ builds[b] \in Records
             /\ Starts(q, IF b \in logged THEN "text" ELSE "logs", b, builds[b], "fetch")
    <3>1. Known(b) /\ (shared = {} /\ restarts = 0 => b \in logged)
      BY <2>2, RecordFacts DEF Known, MemoryInv
    <3>2. ASSUME b \in logged PROVE MemoryInv'
      <4>1. Starts(q, "text", b, builds[b], "fetch")
        BY <2>2, <3>2
      <4> QED
        BY <2>1, <2>2, <3>1, <4>1, StartsMemory
    <3>3. ASSUME b \notin logged PROVE MemoryInv'
      <4>1. Starts(q, "logs", b, builds[b], "fetch")
        BY <2>2, <3>3
      <4> QED
        BY <2>1, <2>2, <3>1, <3>3, <4>1, StartsMemory
    <3> QED
      BY <3>2, <3>3
  <2>3. CASE /\ rows[b] \in Records /\ b \notin logged
             /\ Starts(q, "rowlogs", b, rows[b], AfterRead(rows[b]))
    <3>1. shared = {} /\ restarts = 0 => ~Known(b) /\ rows[b] = Placeholder
      BY <2>3, RecordFacts DEF MemoryInv
    <3>2. AfterRead(Placeholder) = "settle"
      BY DEF AfterRead, Placeholder
    <3> QED
      BY <2>1, <2>3, <3>1, <3>2, AfterReadType, StartsMemory
  <2> QED
    BY <1>9, <2>2, <2>3, GetLogsRecord
<1>10. ASSUME NEW q \in Requests, LookupJobStatus(q)
      PROVE  MemoryInv'
  BY <1>10 DEF LookupJobStatus, Goes, memory, history, bounds, MemoryInv, Known, TypeInv,
     TypeOK, Working
<1>11. ASSUME NEW q \in Requests, LookupFails(q)
      PROVE  MemoryInv'
  BY <1>11 DEF LookupFails, Goes, memory, history, bounds, MemoryInv, Known, TypeInv, TypeOK,
     Working
<1>12. ASSUME NEW q \in Requests, Refresh(q)
      PROVE  MemoryInv'
  BY <1>12, MetricsStep, RecordFacts DEF Refresh, Goes, history, bounds, MemoryInv, Known,
     TypeInv, TypeOK, Working, WorkInv, JobInv
<1>13. ASSUME NEW q \in Requests, UpdateRow(q)
      PROVE  MemoryInv'
  BY <1>13, RecordFacts DEF UpdateRow, Goes, memory, history, bounds, MemoryInv, Known,
     TypeInv, TypeOK, Working, WorkInv
<1>14. ASSUME NEW q \in Requests, UpdateFails(q)
      PROVE  MemoryInv'
  BY <1>14 DEF UpdateFails, Fault, Goes, memory, MemoryInv, Known, TypeInv, TypeOK, Working
<1>15. ASSUME NEW q \in Requests, Settle(q)
      PROVE  MemoryInv'
  <2>1. build[q] \in Builds /\ metrics' = Counted(metrics, build[q], "none", copy[q].status)
    BY <1>15 DEF Settle, TypeInv, Working
  <2>2. /\ metrics'.status[build[q]] = copy[q].status
        /\ \A b \in Builds \ {build[q]} : metrics'.status[b] = metrics.status[b]
    BY <2>1, MetricsStep
  <2>3. /\ UNCHANGED <<rows, builds, logged, shared, restarts>>
        /\ pc'[q] \in {"idle", "fetch"} /\ \A p \in Requests \ {q} : pc'[p] = pc[p]
        /\ pc'[q] = "fetch" => copy[q].job
        /\ \A p \in Requests : pc'[p] # "idle" =>
             kind'[p] = kind[p] /\ build'[p] = build[p] /\ copy'[p] = copy[p]
    BY <1>15 DEF Settle, Goes, Answers, bounds, TypeInv, TypeOK
  <2>4. shared = {} /\ restarts = 0 => /\ Known(build[q]) => copy[q] = builds[build[q]]
                                       /\ ~Known(build[q]) => copy[q] = Placeholder
    BY <1>15 DEF Settle, MemoryInv, Working
  <2>5. Placeholder.status = "queued" /\ ~Placeholder.job
    BY DEF Placeholder
  <2>6. ASSUME shared = {}, restarts = 0, NEW b \in Builds
        PROVE  /\ Known(b) => metrics'.status[b] = builds[b].status /\ b \in logged
               /\ ~Known(b) => /\ metrics'.status[b] \in {"none", "queued"}
                               /\ rows[b] \in {NoRecord, Placeholder}
    <3>1. /\ Known(b) => metrics.status[b] = builds[b].status /\ b \in logged
          /\ ~Known(b) => /\ metrics.status[b] \in {"none", "queued"}
                          /\ rows[b] \in {NoRecord, Placeholder}
      BY <2>6 DEF MemoryInv
    <3>2. CASE b = build[q]
      <4>1. metrics'.status[b] = copy[q].status
        BY <2>2, <3>2
      <4>2. CASE Known(b)
        <5>1. copy[q] = builds[b]
          BY <2>4, <2>6, <3>2, <4>2 DEF Known
        <5>2. metrics'.status[b] = builds[b].status
          BY <4>1, <5>1
        <5> QED
          BY <3>1, <4>2, <5>2
      <4>3. CASE ~Known(b)
        <5>1. copy[q] = Placeholder
          BY <2>4, <2>6, <3>2, <4>3 DEF Known
        <5>2. copy[q].status = "queued"
          BY <2>5, <5>1
        <5>3. metrics'.status[b] = "queued"
          BY <4>1, <5>2
        <5> QED
          BY <3>1, <4>3, <5>3
      <4> QED
        BY <4>2, <4>3
    <3>3. CASE b # build[q]
      BY <2>2, <3>1, <3>3
    <3> QED
      BY <3>2, <3>3
  <2>7. ASSUME shared = {}, restarts = 0, NEW p \in Requests, Working(p)', pc'[p] # "submit"
        PROVE  /\ build'[p] = build[p]
               /\ IF Known(build[p]) THEN copy'[p] = builds[build[p]]
                  ELSE pc'[p] = "settle" /\ copy'[p] = Placeholder
    <3>1. CASE p = q
      BY <1>15, <2>3, <2>4, <2>5, <2>7, <3>1 DEF Settle, MemoryInv, Working
    <3>2. CASE p # q
      BY <2>3, <2>7, <3>2 DEF MemoryInv, Working
    <3> QED
      BY <3>1, <3>2
  <2>8. ASSUME shared = {}, restarts = 0, NEW p \in Requests, Working(p)'
        PROVE  kind'[p] # "logs"
    BY <1>15, <2>3, <2>8 DEF Settle, MemoryInv, Working
  <2> QED
    BY <2>3, <2>6, <2>7, <2>8 DEF MemoryInv, Known
<1>16. ASSUME NEW q \in Requests, FetchJobLogs(q)
      PROVE  MemoryInv'
  BY <1>16, BuilderAssumption DEF FetchJobLogs, Answers, history, bounds, MemoryInv, Known,
     TypeInv, TypeOK, Working
<1>17. ASSUME NEW q \in Requests, FetchFails(q)
      PROVE  MemoryInv'
  <2>1. CASE kind[q] = "logs" /\ rows[build[q]] # NoRecord
    <3>1. build[q] \in Builds /\ Takes(q, "rowlogs", build[q], rows[build[q]])
          /\ UNCHANGED restarts
      BY <1>17, <2>1 DEF FetchFails, TypeInv, Working, bounds
    <3>2. ~(shared = {} /\ restarts = 0)
      BY <1>17, <2>1, <3>1 DEF FetchFails, MemoryInv, Working
    <3>3. shared' # {} \/ restarts' # 0
      BY <3>1, <3>2, TakesAlone
    <3> QED
      BY <3>3 DEF MemoryInv
  <2>2. CASE ~(kind[q] = "logs" /\ rows[build[q]] # NoRecord)
    <3>1. Answers(q) /\ UNCHANGED <<rows, memory, shared, restarts>>
      BY <1>17, <2>2 DEF FetchFails, bounds
    <3> QED
      BY <3>1 DEF Answers, memory, MemoryInv, Known, Working, TypeInv, TypeOK
  <2> QED
    BY <2>1, <2>2
<1>18. ASSUME ListBuilds \/ (\E b \in Builds : ReadRow(b))
      PROVE  MemoryInv'
  BY <1>18, RecordFacts DEF ListBuilds, ReadRow, memory, requests, bounds, Shows, MemoryInv,
     Known, TypeInv, TypeOK, Working
<1>19. ASSUME NEW b \in Builds, JobProgresses(b)
      PROVE  MemoryInv'
  BY <1>19 DEF JobProgresses, memory, requests, history, bounds, MemoryInv, Known, TypeInv,
     TypeOK, Working
<1>20. ASSUME NEW b \in Builds, JobIsRemoved(b)
      PROVE  MemoryInv'
  BY <1>20 DEF JobIsRemoved, memory, requests, history, bounds, MemoryInv, Known, TypeInv,
     TypeOK, Working
<1>21. ASSUME DeleteDeployment
      PROVE  MemoryInv'
  BY <1>21 DEF DeleteDeployment, memory, requests, history, bounds, MemoryInv, Known, TypeInv,
     TypeOK, Working
<1>22. ASSUME Restart
      PROVE  MemoryInv'
  BY <1>22, BuilderAssumption DEF Restart, New, history, EmptyMetrics, MemoryInv, Known,
     TypeInv, TypeOK, Working
<1>23. ASSUME UNCHANGED vars \/ ((ValidateSource \/ BuildJob) /\ Unchanging)
      PROVE  MemoryInv'
  BY <1>23 DEF vars, Unchanging, memory, requests, history, bounds, MemoryInv, Known, Working
<1> QED
  BY <1>1, <1>2, <1>3, <1>4, <1>5, <1>6, <1>7, <1>8, <1>9, <1>10, <1>11, <1>12, <1>13, <1>14,
     <1>15, <1>16, <1>17, <1>18, <1>19, <1>20, <1>21, <1>22, <1>23 DEF Next, BuildStep, Request

-----------------------------------------------------------------------------
(* The gauges count the statuses last counted, and a failure is counted    *)
(* once for a build that has ended.                                        *)
Having(m, s) == {b \in Builds : m.status[b] = s}
Exact(m) == \A s \in Statuses : m.gauge[s] = Cardinality(Having(m, s))
Ended == {b \in Builds : builds[b].status \in {"failed", "succeeded"}}

GaugeInv ==
  /\ IsFiniteSet(used)
  /\ shared = {} /\ restarts = 0 => Exact(metrics) /\ metrics.failures <= Cardinality(Ended)

\* Counting a build from the status it was last counted with keeps the
\* gauges exact (api.go updateBuildMetricsLocked).
LEMMA CountedExact ==
  ASSUME NEW m, MetricsOK(m), Exact(m), \A t \in Statuses : IsFiniteSet(Having(m, t)),
         NEW b \in Builds, NEW given, given = "none" \/ given = m.status[b],
         NEW s \in Statuses
  PROVE  /\ Exact(Counted(m, b, given, s))
         /\ m.status[b] = s => Counted(m, b, given, s) = m
         /\ s # "failed" => Counted(m, b, given, s).failures = m.failures
         /\ Counted(m, b, given, s).failures <= m.failures + 1
<1> DEFINE prev == IF given = "none" THEN m.status[b] ELSE given
           Shift(t) == (IF t = s THEN 1 ELSE 0) - (IF t = prev THEN 1 ELSE 0)
           after == Counted(m, b, given, s)
<1>1. prev = m.status[b] /\ m.failures \in Nat
  BY DEF MetricsOK
<1>2. CASE prev = s
  <2>1. after = m
    BY <1>2 DEF Counted
  <2> QED
    BY <1>1, <2>1
<1>3. CASE prev # s
  <2>1. after = [status |-> [m.status EXCEPT ![b] = s],
                 gauge |-> [t \in Statuses |-> m.gauge[t] + Shift(t)],
                 failures |-> m.failures + (IF s = "failed" THEN 1 ELSE 0)]
    BY <1>3 DEF Counted
  <2>2. /\ after.failures = m.failures + (IF s = "failed" THEN 1 ELSE 0)
        /\ \A t \in Statuses : after.gauge[t] = m.gauge[t] + Shift(t)
        /\ after.status = [m.status EXCEPT ![b] = s]
    <3> HIDE DEF Shift, after
    <3> QED
      BY <2>1
  <2>3. after.status[b] = s /\ \A c \in Builds \ {b} : after.status[c] = m.status[c]
    BY <2>2 DEF MetricsOK
  <2> HIDE DEF after
  <2>4. ASSUME NEW t \in Statuses
        PROVE  after.gauge[t] = Cardinality(Having(after, t))
    <3>1. /\ m.gauge[t] = Cardinality(Having(m, t)) /\ IsFiniteSet(Having(m, t))
          /\ Cardinality(Having(m, t)) \in Nat
      BY FS_CardinalityType DEF Exact
    <3>2. CASE t = s
      <4>1. Having(after, t) = Having(m, t) \cup {b} /\ b \notin Having(m, t)
        BY <1>1, <1>3, <2>3, <3>2 DEF Having
      <4>2. Shift(t) = 1
        BY <1>3, <3>2
      <4>3. Cardinality(Having(after, t)) = Cardinality(Having(m, t)) + 1
        BY <3>1, <4>1, FS_AddElement
      <4> QED
        BY <2>2, <3>1, <4>2, <4>3
    <3>3. CASE t = prev
      <4>1. Having(after, t) = Having(m, t) \ {b} /\ b \in Having(m, t)
        BY <1>1, <1>3, <2>3, <3>3 DEF Having
      <4>2. Shift(t) = -1
        BY <1>3, <3>3
      <4>3. Cardinality(Having(after, t)) = Cardinality(Having(m, t)) - 1
        BY <3>1, <4>1, FS_RemoveElement
      <4> QED
        BY <2>2, <3>1, <4>2, <4>3
    <3>4. CASE t # s /\ t # prev
      <4>1. Having(after, t) = Having(m, t)
        BY <1>1, <2>3, <3>4 DEF Having
      <4>2. Shift(t) = 0
        BY <3>4
      <4> QED
        BY <2>2, <3>1, <4>1, <4>2
    <3> QED
      BY <3>2, <3>3, <3>4
  <2> QED
    BY <1>1, <1>3, <2>2, <2>4 DEF Exact, after
<1> QED
  BY <1>2, <1>3

\* What was counted, and what has ended, is among what was given out.
LEMMA CountsFinite ==
  ASSUME TypeInv, FreshInv, GaugeInv
  PROVE  /\ \A s \in Statuses : IsFiniteSet(Having(metrics, s))
         /\ IsFiniteSet(Ended) /\ Cardinality(Ended) \in Nat
<1>1. \A s \in Statuses : Having(metrics, s) \subseteq used
  BY DEF Having, Statuses, FreshInv, Untouched
<1>2. Ended \subseteq used
  BY RecordFacts DEF Ended, FreshInv, Untouched
<1>3. IsFiniteSet(used)
  BY DEF GaugeInv
<1> QED
  BY <1>1, <1>2, <1>3, FS_Subset, FS_CardinalityType

\* A step that counts a build keeps the gauges exact.
LEMMA GaugeStep ==
  ASSUME TypeInv, FreshInv, GaugeInv, shared = {}, restarts = 0, NEW b \in Builds,
         NEW given, given = "none" \/ given = metrics.status[b],
         NEW s \in Statuses, metrics' = Counted(metrics, b, given, s)
  PROVE  /\ Exact(metrics')
         /\ metrics.status[b] = s => metrics' = metrics
         /\ s # "failed" => metrics'.failures = metrics.failures
         /\ metrics'.failures <= metrics.failures + 1
<1>1. MetricsOK(metrics) /\ Exact(metrics)
  BY DEF MetricsOK, TypeInv, TypeOK, GaugeInv
<1> QED
  BY <1>1, CountsFinite, CountedExact

\* A build that joins those that have ended makes them one more.
LEMMA EndedStep ==
  ASSUME TypeInv, FreshInv, GaugeInv, NEW b \in Builds, NEW rec,
         builds' = [builds EXCEPT ![b] = rec],
         b \in Ended => rec.status \in {"failed", "succeeded"}
  PROVE  /\ Cardinality(Ended) \in Nat /\ Cardinality(Ended') \in Nat
         /\ Cardinality(Ended) <= Cardinality(Ended')
         /\ b \notin Ended /\ rec.status \in {"failed", "succeeded"} =>
              Cardinality(Ended') = Cardinality(Ended) + 1
<1>1. builds'[b] = rec /\ \A c \in Builds \ {b} : builds'[c] = builds[c]
  BY DEF TypeInv, TypeOK
<1>2. IsFiniteSet(Ended) /\ Cardinality(Ended) \in Nat
  BY CountsFinite
<1>3. CASE rec.status \in {"failed", "succeeded"}
  <2>1. Ended' = Ended \cup {b}
    BY <1>1, <1>3 DEF Ended
  <2>2. Cardinality(Ended') = IF b \in Ended THEN Cardinality(Ended) ELSE Cardinality(Ended) + 1
    BY <1>2, <2>1, FS_AddElement
  <2> QED
    BY <1>2, <2>2
<1>4. CASE rec.status \notin {"failed", "succeeded"}
  <2>1. Ended' = Ended
    BY <1>1, <1>4 DEF Ended
  <2> QED
    BY <1>2, <1>4, <2>1
<1> QED
  BY <1>3, <1>4

\* To remember a build that was not known, and has not failed, keeps it.
LEMMA RememberGauge ==
  ASSUME TypeInv, FreshInv, GaugeInv, NEW b \in Builds, NEW rec \in Records, Untouched(b),
         rec.status # "failed", Remember(b, rec), shared \subseteq shared',
         restarts' = restarts, IsFiniteSet(used')
  PROVE  GaugeInv'
<1> SUFFICES ASSUME shared' = {}, restarts' = 0
             PROVE  Exact(metrics') /\ metrics'.failures <= Cardinality(Ended')
  BY DEF GaugeInv, Exact, Having
<1>1. rec.status \in Statuses /\ b \notin Ended
  BY RecordFacts DEF Ended, Untouched
<1>2. Exact(metrics') /\ metrics'.failures = metrics.failures
  BY <1>1, GaugeStep DEF Remember
<1>3. /\ Cardinality(Ended) \in Nat /\ Cardinality(Ended') \in Nat
      /\ Cardinality(Ended) <= Cardinality(Ended')
  BY <1>1, EndedStep DEF Remember
<1>4. metrics.failures <= Cardinality(Ended) /\ metrics.failures \in Nat
  BY DEF GaugeInv, TypeInv, TypeOK
<1> QED
  BY <1>2, <1>3, <1>4

\* The gauges keep counting the builds.
LEMMA GaugesStep ==
  ASSUME TypeInv, FreshInv, SubmitInv, JobInv, MemoryInv, GaugeInv, [Next]_vars
  PROVE  GaugeInv'
<1>1. ASSUME NEW q \in Requests, NEW b \in Builds, NEW source \in Sources, TriggerBuild(q, b, source)
      PROVE  GaugeInv'
  <2>1. used' = used \cup {b} /\ restarts' = restarts /\ b \notin used
    BY <1>1 DEF TriggerBuild, bounds
  <2>2. IsFiniteSet(used')
    BY <2>1, FS_AddElement DEF GaugeInv
  <2>3. PICK rec \in Records :
          /\ Takes(q, "trigger", b, rec)
          /\ executing => UNCHANGED <<builds, metrics>>
          /\ ~executing => rec.status = "succeeded" /\ Remember(b, rec)
    BY <1>1, TriggerRecord
  <2>4. shared \subseteq shared'
    BY <2>3, TakesAlone
  <2>5. CASE executing
    BY <2>1, <2>2, <2>3, <2>4, <2>5 DEF GaugeInv, Exact, Having, Ended
  <2>6. CASE ~executing
    <3>1. Untouched(b)
      BY <2>1 DEF FreshInv
    <3> QED
      BY <2>1, <2>2, <2>3, <2>4, <2>6, <3>1, RememberGauge
  <2> QED
    BY <2>5, <2>6
<1>2. ASSUME NEW q \in Requests, SubmitBuildJob(q)
      PROVE  GaugeInv'
  <2>1. /\ build[q] \in Builds /\ copy[q] \in Records
        /\ Untouched(build[q]) /\ copy[q].status # "failed"
    BY <1>2 DEF SubmitBuildJob, SubmitInv, Queued, TypeInv, TypeOK
  <2>2. Remember(build[q], copy[q]) /\ UNCHANGED <<shared, used, restarts>>
    BY <1>2 DEF SubmitBuildJob, history, bounds
  <2>3. IsFiniteSet(used')
    BY <2>2 DEF GaugeInv
  <2> QED
    BY <2>1, <2>2, <2>3, RememberGauge
<1>3. ASSUME NEW q \in Requests, SubmitFails(q)
      PROVE  GaugeInv'
  BY <1>3, BuilderAssumption DEF SubmitFails, Fault, Answers, memory, history, GaugeInv, Exact,
     Having, Ended
<1>4. ASSUME NEW q \in Requests, InsertBuild(q)
      PROVE  GaugeInv'
  BY <1>4, BuilderAssumption DEF InsertBuild, Shows, Answers, memory, bounds, GaugeInv, Exact,
     Having, Ended
<1>5. ASSUME NEW q \in Requests, InsertFails(q)
      PROVE  GaugeInv'
  BY <1>5, BuilderAssumption DEF InsertFails, Fault, Answers, memory, history, GaugeInv, Exact,
     Having, Ended
<1>6. ASSUME NEW q \in Requests, CallFails(q)
      PROVE  GaugeInv'
  BY <1>6, BuilderAssumption DEF CallFails, Fault, Goes, memory, history, GaugeInv, Exact,
     Having, Ended
<1>7. ASSUME NEW q \in Requests, NEW b \in Builds, InsertPlaceholder(q, b)
      PROVE  GaugeInv'
  <2>1. used' = used \cup {b} /\ UNCHANGED <<builds, metrics, shared, restarts>>
    BY <1>7 DEF InsertPlaceholder, memory, bounds
  <2>2. IsFiniteSet(used')
    BY <2>1, FS_AddElement DEF GaugeInv
  <2> QED
    BY <2>1, <2>2 DEF GaugeInv, Exact, Having, Ended
<1>8. ASSUME NEW q \in Requests, NEW b \in Builds, GetBuild(q, b)
      PROVE  GaugeInv'
  BY <1>8 DEF GetBuild, Takes, Goes, memory, GaugeInv, Exact, Having, Ended
<1>9. ASSUME NEW q \in Requests, NEW b \in Builds, NEW scoped \in BOOLEAN, GetBuildLogs(q, b, scoped)
      PROVE  GaugeInv'
  BY <1>9 DEF GetBuildLogs, InScope, Takes, Goes, memory, GaugeInv, Exact, Having, Ended
<1>10. ASSUME NEW q \in Requests, LookupJobStatus(q)
      PROVE  GaugeInv'
  BY <1>10 DEF LookupJobStatus, Goes, memory, history, bounds, GaugeInv, Exact, Having, Ended
<1>11. ASSUME NEW q \in Requests, LookupFails(q)
      PROVE  GaugeInv'
  BY <1>11 DEF LookupFails, Goes, memory, history, bounds, GaugeInv, Exact, Having, Ended
<1>12. ASSUME NEW q \in Requests, Refresh(q)
      PROVE  GaugeInv'
  <2> DEFINE rec == [status |-> next[q], job |-> TRUE]
  <2>1. /\ build[q] \in Builds /\ next[q] \in Statuses
        /\ metrics' = Counted(metrics, build[q], copy[q].status, next[q])
        /\ builds' = [builds EXCEPT ![build[q]] = rec]
        /\ UNCHANGED <<shared, used, restarts>>
        /\ Working(q) /\ pc[q] = "refresh"
    BY <1>12 DEF Refresh, history, bounds, TypeInv, Working
  <2> SUFFICES ASSUME shared = {}, restarts = 0
               PROVE  Exact(metrics') /\ metrics'.failures <= Cardinality(Ended')
    BY <2>1 DEF GaugeInv, Exact, Having
  <2>2. /\ builds[build[q]] = copy[q] /\ metrics.status[build[q]] = copy[q].status
        /\ copy[q].status # "succeeded"
        /\ copy[q].status = "failed" => next[q] = "succeeded"
    BY <2>1 DEF MemoryInv, Known, JobInv
  <2>3. rec.status = next[q]
    OBVIOUS
  <2> HIDE DEF rec
  <2>4. /\ Exact(metrics')
        /\ next[q] # "failed" => metrics'.failures = metrics.failures
        /\ metrics'.failures <= metrics.failures + 1
    BY <2>1, <2>2, GaugeStep
  <2>5. build[q] \in Ended => next[q] = "succeeded"
    BY <2>2 DEF Ended
  <2>6. /\ Cardinality(Ended) \in Nat /\ Cardinality(Ended') \in Nat
        /\ Cardinality(Ended) <= Cardinality(Ended')
        /\ next[q] = "failed" => Cardinality(Ended') = Cardinality(Ended) + 1
    BY <2>1, <2>3, <2>5, EndedStep
  <2>7. metrics.failures <= Cardinality(Ended) /\ metrics.failures \in Nat
    BY DEF GaugeInv, TypeInv, TypeOK
  <2>8. metrics'.failures \in Nat
    BY TypeStep DEF TypeInv, TypeOK
  <2> QED
    BY <2>4, <2>6, <2>7, <2>8
<1>13. ASSUME NEW q \in Requests, UpdateRow(q)
      PROVE  GaugeInv'
  BY <1>13 DEF UpdateRow, Goes, memory, history, bounds, GaugeInv, Exact, Having, Ended
<1>14. ASSUME NEW q \in Requests, UpdateFails(q)
      PROVE  GaugeInv'
  BY <1>14 DEF UpdateFails, Fault, Goes, memory, GaugeInv, Exact, Having, Ended
<1>15. ASSUME NEW q \in Requests, Settle(q)
      PROVE  GaugeInv'
  <2>1. /\ build[q] \in Builds /\ copy[q] \in Records
        /\ metrics' = Counted(metrics, build[q], "none", copy[q].status)
        /\ UNCHANGED <<builds, shared, used, restarts>>
        /\ Working(q) /\ pc[q] = "settle"
    BY <1>15 DEF Settle, bounds, TypeInv, TypeOK, Working
  <2> SUFFICES ASSUME shared = {}, restarts = 0
               PROVE  Exact(metrics') /\ metrics'.failures <= Cardinality(Ended)
    BY <2>1 DEF GaugeInv, Exact, Having, Ended
  <2>2. copy[q].status \in Statuses
    BY <2>1, RecordFacts
  <2>3. metrics.status[build[q]] = copy[q].status \/ copy[q].status # "failed"
    <3>1. CASE Known(build[q])
      BY <2>1, <3>1 DEF MemoryInv
    <3>2. CASE ~Known(build[q])
      BY <2>1, <3>2 DEF MemoryInv, Placeholder
    <3> QED
      BY <3>1, <3>2
  <2>4. Exact(metrics') /\ metrics'.failures = metrics.failures
    BY <2>1, <2>2, <2>3, GaugeStep
  <2> QED
    BY <2>4 DEF GaugeInv
<1>16. ASSUME NEW q \in Requests, FetchJobLogs(q)
      PROVE  GaugeInv'
  BY <1>16, BuilderAssumption DEF FetchJobLogs, Answers, history, bounds, GaugeInv, Exact,
     Having, Ended
<1>17. ASSUME NEW q \in Requests, FetchFails(q)
      PROVE  GaugeInv'
  BY <1>17, BuilderAssumption DEF FetchFails, Takes, Goes, Answers, memory, bounds, GaugeInv,
     Exact, Having, Ended
<1>18. ASSUME ListBuilds \/ (\E b \in Builds : ReadRow(b))
      PROVE  GaugeInv'
  BY <1>18 DEF ListBuilds, ReadRow, memory, requests, bounds, Shows, GaugeInv, Exact, Having,
     Ended
<1>19. ASSUME NEW b \in Builds, JobProgresses(b)
      PROVE  GaugeInv'
  BY <1>19 DEF JobProgresses, memory, requests, history, bounds, GaugeInv, Exact, Having, Ended
<1>20. ASSUME NEW b \in Builds, JobIsRemoved(b)
      PROVE  GaugeInv'
  BY <1>20 DEF JobIsRemoved, memory, requests, history, bounds, GaugeInv, Exact, Having, Ended
<1>21. ASSUME DeleteDeployment
      PROVE  GaugeInv'
  BY <1>21 DEF DeleteDeployment, memory, requests, history, bounds, GaugeInv, Exact, Having,
     Ended
<1>22. ASSUME Restart
      PROVE  GaugeInv'
  <2>1. restarts' # 0 /\ used' = used
    BY <1>22 DEF Restart, history, TypeInv, TypeOK
  <2> QED
    BY <2>1 DEF GaugeInv
<1>23. ASSUME UNCHANGED vars \/ ((ValidateSource \/ BuildJob) /\ Unchanging)
      PROVE  GaugeInv'
  BY <1>23 DEF vars, Unchanging, memory, requests, history, bounds, GaugeInv, Exact, Having, Ended
<1> QED
  BY <1>1, <1>2, <1>3, <1>4, <1>5, <1>6, <1>7, <1>8, <1>9, <1>10, <1>11, <1>12, <1>13, <1>14,
     <1>15, <1>16, <1>17, <1>18, <1>19, <1>20, <1>21, <1>22, <1>23 DEF Next, BuildStep, Request

\* The gauges hold, builds that are unknown to memory among the queued, and
\* no build is counted twice as a failure, until a restart or until two
\* requests meet on a build (api.go updateBuildMetricsLocked).
THEOREM GaugesCount == Spec => []GaugesCountBuilds
<1> DEFINE Inv == RecordInv /\ MemoryInv /\ GaugeInv
<1>1. Init => Inv
  <2> SUFFICES ASSUME Init PROVE Inv
    OBVIOUS
  <2>1. MemoryInv
    BY RecordFacts DEF Init, MemoryInv, Known, Working, EmptyMetrics
  <2>2. IsFiniteSet(used) /\ Cardinality({}) = 0
    BY FS_EmptySet DEF Init
  <2>3. /\ metrics.failures = 0 /\ Ended = {}
        /\ \A s \in Statuses : metrics.gauge[s] = 0 /\ Having(metrics, s) = {}
    BY RecordFacts DEF Init, EmptyMetrics, Ended, Having, Statuses
  <2>4. GaugeInv
    BY <2>2, <2>3 DEF GaugeInv, Exact
  <2> QED
    BY <2>1, <2>4, RecordInit
<1>2. Inv /\ [Next]_vars => Inv'
  BY TypeStep, FreshStep, SubmitStep, JobStep, WorkStep, AgreeStep, ShownStep, MemoryStep,
     GaugesStep DEF RecordInv
<1>3. Inv => GaugesCountBuilds
  <2> SUFFICES ASSUME Inv, shared = {}, restarts = 0 PROVE GaugesCountBuilds
    BY DEF GaugesCountBuilds
  <2>1. TypeInv /\ FreshInv /\ MemoryInv /\ GaugeInv
    BY DEF RecordInv
  <2>2. ASSUME NEW s \in Statuses
        PROVE  metrics.gauge[s] = Cardinality({b \in Builds :
                 s = IF builds[b] # NoRecord THEN builds[b].status ELSE metrics.status[b]})
    <3>1. \A b \in Builds : metrics.status[b] =
            IF builds[b] # NoRecord THEN builds[b].status ELSE metrics.status[b]
      BY <2>1 DEF MemoryInv, Known
    <3>2. Having(metrics, s) = {b \in Builds :
            s = IF builds[b] # NoRecord THEN builds[b].status ELSE metrics.status[b]}
      BY <3>1 DEF Having
    <3> QED
      BY <2>1, <3>2 DEF GaugeInv, Exact
  <2>3. metrics.failures <= Cardinality({b \in Builds : builds[b] # NoRecord})
    <3> DEFINE Remembered == {b \in Builds : builds[b] # NoRecord}
    <3>1. Ended \subseteq Remembered
      BY RecordFacts DEF Ended
    <3>2. Remembered \subseteq used
      BY <2>1 DEF FreshInv, Untouched
    <3> HIDE DEF Remembered
    <3>3. /\ IsFiniteSet(Remembered) /\ Cardinality(Remembered) \in Nat
          /\ Cardinality(Ended) <= Cardinality(Remembered)
      BY <2>1, <3>1, <3>2, FS_Subset, FS_CardinalityType DEF GaugeInv
    <3>4. Cardinality(Ended) \in Nat /\ metrics.failures \in Nat
      BY <2>1, CountsFinite DEF TypeInv, TypeOK
    <3>5. metrics.failures <= Cardinality(Ended)
      BY <2>1 DEF GaugeInv
    <3>6. metrics.failures <= Cardinality(Remembered)
      BY <3>3, <3>4, <3>5
    <3> QED
      BY <3>6 DEF Remembered
  <2> QED
    BY <2>2, <2>3 DEF GaugesCountBuilds
<1> HIDE DEF Inv
<1> QED
  BY <1>1, <1>2, <1>3, PTL DEF Spec

-----------------------------------------------------------------------------
(* Paths.  What a recursive function over the parts of a text computes is  *)
(* found by induction, and induction from the least number of a set.       *)

\* A set that has 0 and passes from each number to the next has them all.
LEMMA Upwards ==
  ASSUME NEW n \in Nat, NEW T, 0 \in T, \A i \in 1..n : i - 1 \in T => i \in T
  PROVE  \A i \in 0..n : i \in T
<1> SUFFICES ASSUME NEW k \in 0..n, k \notin T PROVE FALSE
  OBVIOUS
<1> DEFINE S == {i \in 0..n : i \notin T}
<1>1. S \subseteq Nat /\ S # {}
  OBVIOUS
<1>2. PICK m \in S : \A i \in S : ~ (<<i, m>> \in OpToRel(<, Nat))
  BY <1>1, WFMin, NatLessThanWellFounded
<1>3. \A i \in S : ~ (i < m)
  BY <1>1, <1>2 DEF OpToRel
<1>4. m \in 1..n /\ m - 1 \in 0..n /\ m - 1 < m
  OBVIOUS
<1>5. m - 1 \in T
  BY <1>3, <1>4
<1> QED
  BY <1>4, <1>5

\* One part further: along a walk, or while a text is cleaned.
Taken(mode, place, part) ==
  IF mode = "walk" THEN Walked(place, part) ELSE Cleaned(mode = "absolute", place, part)

\* f leads from a place along the first n parts of a text.
IsTrip(f, mode, from, text, n) ==
  /\ f = [i \in 0..n |-> f[i]]
  /\ f[0] = from
  /\ \A i \in 1..n : f[i] = Taken(mode, f[i - 1], text[i])

\* There is such a function, for a text of any length.
LEMMA TripExists ==
  ASSUME NEW mode, NEW from, NEW text, NEW n \in Nat
  PROVE  \E f : IsTrip(f, mode, from, text, n)
<1> DEFINE T == {i \in 0..n : \E f : IsTrip(f, mode, from, text, i)}
<1>1. 0 \in T
  <2> DEFINE f == [i \in 0..0 |-> from]
  <2>1. IsTrip(f, mode, from, text, 0)
    BY DEF IsTrip
  <2> QED
    BY <2>1
<1>2. ASSUME NEW m \in 1..n, m - 1 \in T PROVE m \in T
  <2>1. PICK f : IsTrip(f, mode, from, text, m - 1)
    BY <1>2
  <2> DEFINE last == Taken(mode, f[m - 1], text[m])
             g == [i \in 0..m |-> IF i = m THEN last ELSE f[i]]
  <2>2. f[0] = from /\ \A i \in 1..(m - 1) : f[i] = Taken(mode, f[i - 1], text[i])
    BY <2>1 DEF IsTrip
  <2>3. m # 0 /\ m - 1 \in 0..m /\ m - 1 # m
    OBVIOUS
  <2>4. g[0] = from /\ g = [i \in 0..m |-> g[i]]
    BY <2>2
  <2>5. ASSUME NEW i \in 1..m PROVE g[i] = Taken(mode, g[i - 1], text[i])
    <3>1. i \in 0..m /\ i - 1 \in 0..m /\ i - 1 # m
      OBVIOUS
    <3>2. g[i - 1] = f[i - 1] /\ g[i] = IF i = m THEN last ELSE f[i]
      BY <3>1
    <3> HIDE DEF g
    <3>3. CASE i = m
      BY <3>2, <3>3
    <3>4. CASE i # m
      <4>1. i \in 1..(m - 1)
        BY <3>4
      <4> QED
        BY <3>2, <3>4, <4>1, <2>2
    <3> QED
      BY <3>3, <3>4
  <2> HIDE DEF g
  <2>6. IsTrip(g, mode, from, text, m)
    BY <2>4, <2>5 DEF IsTrip
  <2> QED
    BY <2>6
<1> HIDE DEF T
<1>3. n \in T
  BY <1>1, <1>2, Upwards
<1> QED
  BY <1>3 DEF T

\* f takes, after d parts of a text, its next n.
Follows(f, mode, text, d, n) == \A i \in 1..n : f[d + i] = Taken(mode, f[d + i - 1], text[d + i])

\* The text after d parts begins with the n parts of another.
GoesOn(text, d, rest, n) == \A i \in 1..n : text[d + i] = rest[i]

\* A trip follows its text from any part on.
LEMMA TripFollows ==
  ASSUME NEW mode, NEW f, NEW from, NEW text, NEW d \in Nat, NEW n \in Nat, NEW m \in Nat,
         d + n <= m, IsTrip(f, mode, from, text, m)
  PROVE  Follows(f, mode, text, d, n)
<1> SUFFICES ASSUME NEW i \in 1..n
             PROVE  f[d + i] = Taken(mode, f[d + i - 1], text[d + i])
  BY DEF Follows
<1>1. d + i \in 1..m
  OBVIOUS
<1>2. \A j \in 1..m : f[j] = Taken(mode, f[j - 1], text[j])
  BY DEF IsTrip
<1> QED
  BY <1>1, <1>2

\* g has come to a place after d parts and takes from there those f takes.
Joins(g, text, d, f, mode, place, rest, n) ==
  /\ IsTrip(f, mode, place, rest, n)
  /\ g[d] = place
  /\ Follows(g, mode, text, d, n)
  /\ GoesOn(text, d, rest, n)

\* Trips that take the same parts from the same place agree, d parts apart.
LEMMA TripsAgree ==
  ASSUME NEW mode, NEW f, NEW g, NEW text, NEW rest, NEW n \in Nat, NEW d \in Nat,
         NEW place, Joins(g, text, d, f, mode, place, rest, n)
  PROVE  f[n] = g[d + n]
<1> DEFINE T == {i \in 0..n : f[i] = g[d + i]}
<1>1. f[0] = place /\ \A i \in 1..n : f[i] = Taken(mode, f[i - 1], rest[i])
  BY DEF IsTrip, Joins
<1>2. \A i \in 1..n : g[d + i] = Taken(mode, g[d + i - 1], text[d + i]) /\ text[d + i] = rest[i]
  BY DEF Follows, GoesOn, Joins
<1>6. g[d] = place /\ d + 0 = d
  BY DEF Joins
<1>3. 0 \in T
  BY <1>1, <1>6
<1>4. ASSUME NEW i \in 1..n, i - 1 \in T PROVE i \in T
  <2>1. f[i - 1] = g[d + i - 1]
    <3>1. d + (i - 1) = d + i - 1
      OBVIOUS
    <3> QED
      BY <1>4, <3>1
  <2> QED
    BY <1>1, <1>2, <2>1
<1> HIDE DEF T
<1>5. n \in T
  BY <1>3, <1>4, Upwards
<1> QED
  BY <1>5 DEF T

\* Walk is the end of a trip.
LEMMA WalkTrip ==
  ASSUME NEW from, NEW text, Len(text) \in Nat
  PROVE  \E f : IsTrip(f, "walk", from, text, Len(text)) /\ Walk(from, text) = f[Len(text)]
<1> DEFINE n == Len(text)
           at[i \in 0..n] == IF i = 0 THEN from ELSE Walked(at[i - 1], text[i])
<1>1. Walk(from, text) = at[n]
  BY DEF Walk
<1>2. PICK f : IsTrip(f, "walk", from, text, n)
  BY TripExists
<1>3. f = [i \in 0..n |-> IF i = 0 THEN from ELSE Walked(f[i - 1], text[i])]
  BY <1>2 DEF IsTrip, Taken
<1>4. at = [i \in 0..n |-> IF i = 0 THEN from ELSE Walked(at[i - 1], text[i])]
  BY <1>3
<1> HIDE DEF at
<1>5. /\ at = [i \in 0..n |-> at[i]]
      /\ at[0] = from
      /\ \A i \in 1..n : at[i] = Walked(at[i - 1], text[i])
  BY <1>4
<1>6. IsTrip(at, "walk", from, text, n)
  BY <1>5 DEF IsTrip, Taken
<1> QED
  BY <1>1, <1>6

\* The mode a text is cleaned in.
Mode(text) == IF IsAbs(text) THEN "absolute" ELSE "relative"

\* Clean is the end of a trip.
LEMMA CleanTrip ==
  ASSUME NEW text, Len(text) \in Nat
  PROVE  \E f : IsTrip(f, Mode(text), <<>>, text, Len(text)) /\ Clean(text) = f[Len(text)]
<1> DEFINE n == Len(text)
           at[i \in 0..n] == IF i = 0 THEN <<>> ELSE Cleaned(IsAbs(text), at[i - 1], text[i])
<1>1. Clean(text) = at[n]
  BY DEF Clean
<1>2. PICK f : IsTrip(f, Mode(text), <<>>, text, n)
  BY TripExists
<1>3. \A place, part : Taken(Mode(text), place, part) = Cleaned(IsAbs(text), place, part)
  BY DEF Taken, Mode, IsAbs, Cleaned
<1>4. f = [i \in 0..n |-> IF i = 0 THEN <<>> ELSE Cleaned(IsAbs(text), f[i - 1], text[i])]
  BY <1>2, <1>3 DEF IsTrip
<1>5. at = [i \in 0..n |-> IF i = 0 THEN <<>> ELSE Cleaned(IsAbs(text), at[i - 1], text[i])]
  BY <1>4
<1> HIDE DEF at
<1>6. /\ at = [i \in 0..n |-> at[i]]
      /\ at[0] = <<>>
      /\ \A i \in 1..n : at[i] = Cleaned(IsAbs(text), at[i - 1], text[i])
  BY <1>5
<1>7. IsTrip(at, Mode(text), <<>>, text, n)
  BY <1>3, <1>6 DEF IsTrip
<1> QED
  BY <1>1, <1>7

\* Names are parts, and none of the three that are not.
LEMMA PartFacts ==
  /\ Names \subseteq Parts /\ Empty \in Parts /\ ".." \in Parts
  /\ Empty \notin Names /\ "." \notin Names /\ ".." \notin Names
  /\ \A part \in Parts : part \in Names \/ part \in {Empty, ".", ".."}
  BY LangGraphAssumption DEF Names

\* The empty part is neither of the others.
LEMMA EmptyFacts == Empty # "." /\ Empty # ".."
  BY Zenon DEF Empty

\* A sequence that is not empty is what comes before its last element, and that element.
LEMMA FrontLast ==
  ASSUME NEW S, NEW s \in Seq(S), s # <<>>
  PROVE  Front(s) \in Seq(S) /\ Last(s) \in S /\ s = Append(Front(s), Last(s))
  BY DEF Front, Last

\* What comes before an element that was appended.
LEMMA FrontAppend ==
  ASSUME NEW S, NEW s \in Seq(S), NEW e \in S
  PROVE  Front(Append(s, e)) = s /\ Last(Append(s, e)) = e /\ Append(s, e) # <<>>
  BY DEF Front, Last

\* A step from a place leads to a place.
LEMMA WalkedType ==
  ASSUME NEW place \in Seq(Names), NEW part \in Parts
  PROVE  Walked(place, part) \in Seq(Names)
<1>1. CASE part \in {Empty, "."}
  BY <1>1 DEF Walked
<1>2. CASE part \in Names
  <2>1. Append(place, part) \in Seq(Names)
    BY <1>2
  <2>2. Walked(place, part) = Append(place, part)
    BY <1>2, PartFacts DEF Walked
  <2> QED
    BY <2>1, <2>2
<1>3. CASE part = ".."
  BY <1>3, FrontLast DEF Walked
<1> QED
  BY <1>1, <1>2, <1>3, PartFacts

\* A walk from a place leads to a place.
LEMMA WalkType ==
  ASSUME NEW from \in Seq(Names), NEW text \in Seq(Parts)
  PROVE  Walk(from, text) \in Seq(Names)
<1> DEFINE n == Len(text)
<1>1. n \in Nat
  OBVIOUS
<1>7. \A i \in 1..n : text[i] \in Parts
  OBVIOUS
<1> HIDE DEF n
<1>2. PICK f : IsTrip(f, "walk", from, text, n) /\ Walk(from, text) = f[n]
  BY <1>1, WalkTrip DEF n
<1>3. f[0] = from /\ \A i \in 1..n : f[i] = Walked(f[i - 1], text[i])
  BY <1>2 DEF IsTrip, Taken
<1> DEFINE T == {i \in 0..n : f[i] \in Seq(Names)}
<1>4. 0 \in T
  BY <1>1, <1>3
<1>5. ASSUME NEW i \in 1..n, i - 1 \in T PROVE i \in T
  <2>1. f[i - 1] \in Seq(Names) /\ text[i] \in Parts
    BY <1>7, <1>5
  <2>2. f[i] \in Seq(Names)
    BY <1>3, <2>1, WalkedType
  <2> QED
    BY <1>1, <2>2
<1> HIDE DEF T
<1>6. \A i \in 0..n : i \in T
  BY <1>1, <1>4, <1>5, Upwards
<1> QED
  BY <1>1, <1>2, <1>6 DEF T

\* The empty text stays.
LEMMA WalkEmpty ==
  ASSUME NEW from
  PROVE  Walk(from, <<>>) = from
<1>1. Len(<<>>) = 0
  OBVIOUS
<1>2. PICK f : IsTrip(f, "walk", from, <<>>, 0) /\ Walk(from, <<>>) = f[0]
  BY <1>1, WalkTrip
<1> QED
  BY <1>2 DEF IsTrip

\* A trip that takes one part more is one step longer.
LEMMA TripMore ==
  ASSUME NEW mode, NEW f, NEW g, NEW from, NEW text, NEW more, NEW n \in Nat,
         IsTrip(f, mode, from, text, n), IsTrip(g, mode, from, more, n + 1),
         GoesOn(more, 0, text, n)
  PROVE  g[n + 1] = Taken(mode, f[n], more[n + 1])
<1>1. 0 + n = n /\ 0 + n <= n + 1 /\ n + 1 \in 1..(n + 1) /\ n + 1 - 1 = n /\ n + 1 \in Nat
  OBVIOUS
<1>2. g[0] = from /\ \A i \in 1..(n + 1) : g[i] = Taken(mode, g[i - 1], more[i])
  BY DEF IsTrip
<1>3. Follows(g, mode, more, 0, n)
  BY <1>1, TripFollows
<1>4. ASSUME NEW d \in Nat, d = 0 PROVE f[n] = g[n]
  <2>1. Joins(g, more, d, f, mode, from, text, n)
    BY <1>2, <1>3, <1>4 DEF Joins
  <2> QED
    BY <1>1, <1>4, <2>1, TripsAgree
<1> QED
  BY <1>1, <1>2, <1>4

\* A walk along one more part is one step more.
LEMMA WalkAppend ==
  ASSUME NEW from, NEW text \in Seq(Parts), NEW part \in Parts
  PROVE  Walk(from, Append(text, part)) = Walked(Walk(from, text), part)
<1> DEFINE n == Len(text)
           more == Append(text, part)
<1>1. n \in Nat /\ Len(more) = n + 1 /\ Len(more) \in Nat
  OBVIOUS
<1>2. more[n + 1] = part
  OBVIOUS
<1>3. \A i \in 1..n : more[0 + i] = text[i]
  OBVIOUS
<1> HIDE DEF n, more
<1>4. PICK f : IsTrip(f, "walk", from, text, n) /\ Walk(from, text) = f[n]
  BY <1>1, WalkTrip DEF n
<1>5. PICK g : IsTrip(g, "walk", from, more, Len(more)) /\ Walk(from, more) = g[Len(more)]
  BY <1>1, WalkTrip
<1>6. GoesOn(more, 0, text, n)
  BY <1>3 DEF GoesOn
<1>7. IsTrip(g, "walk", from, more, n + 1) /\ Walk(from, more) = g[n + 1]
  BY <1>1, <1>5
<1>8. g[n + 1] = Taken("walk", f[n], more[n + 1])
  BY <1>1, <1>4, <1>6, <1>7, TripMore
<1>9. Taken("walk", f[n], part) = Walked(f[n], part)
  BY DEF Taken
<1> QED
  BY <1>2, <1>4, <1>7, <1>8, <1>9 DEF more

\* A walk along a text comes to a place after d parts, and rest follows there.
Passes(g, from, text, l, place, d, rest) ==
  /\ IsTrip(g, "walk", from, text, l)
  /\ g[d] = place
  /\ GoesOn(text, d, rest, Len(rest))

\* From the place it goes where a walk along rest goes.
LEMMA WalkRest ==
  ASSUME NEW place, NEW text, NEW rest \in Seq(Parts), NEW d \in Nat, NEW from, NEW g,
         NEW l \in Nat, d + Len(rest) <= l, Passes(g, from, text, l, place, d, rest)
  PROVE  g[d + Len(rest)] = Walk(place, rest)
<1> DEFINE n == Len(rest)
<1>1. n \in Nat /\ d + n <= l
  OBVIOUS
<1>2. PICK f : IsTrip(f, "walk", place, rest, n) /\ Walk(place, rest) = f[n]
  BY <1>1, WalkTrip
<1> HIDE DEF n
<1>3. IsTrip(g, "walk", from, text, l) /\ g[d] = place /\ GoesOn(text, d, rest, n)
  BY DEF Passes, n
<1>4. Follows(g, "walk", text, d, n)
  BY <1>1, <1>3, TripFollows
<1>5. Joins(g, text, d, f, "walk", place, rest, n)
  BY <1>2, <1>3, <1>4 DEF Joins
<1>6. f[n] = g[d + n]
  BY <1>1, <1>5, TripsAgree
<1> QED
  BY <1>2, <1>6 DEF n

\* What a walk stays at.
Skipped(part) == part \in {Empty, "."}

\* Empty parts and dots at the front of a text change nothing.
LEMMA WalkTail ==
  ASSUME NEW from, NEW text \in Seq(Parts), Len(text) > 1, Skipped(text[1])
  PROVE  Walk(from, Tail(text)) = Walk(from, text)
<1> DEFINE m == Len(text)
           rest == Tail(text)
<1>1. m \in Nat /\ m <= m /\ 1 \in 1..m /\ text # <<>>
  OBVIOUS
<1>2. /\ rest \in Seq(Parts) /\ m = 1 + Len(rest)
      /\ \A i \in 1..Len(rest) : text[1 + i] = rest[i]
  BY <1>1, HeadTailProperties
<1>3. GoesOn(text, 1, rest, Len(rest))
  BY <1>2 DEF GoesOn
<1> HIDE DEF m, rest
<1>4. PICK g : IsTrip(g, "walk", from, text, m) /\ Walk(from, text) = g[m]
  BY <1>1, WalkTrip DEF m
<1>5. g[1] = from
  <2>1. g[0] = from /\ g[1] = Taken("walk", g[1 - 1], text[1])
    BY <1>1, <1>4 DEF IsTrip
  <2>2. 1 - 1 = 0
    OBVIOUS
  <2> QED
    BY <2>1, <2>2 DEF Taken, Walked, Skipped
<1>6. ASSUME NEW d \in Nat, d = 1 PROVE g[m] = Walk(from, rest)
  <2>1. Passes(g, from, text, m, from, d, rest) /\ d + Len(rest) = m /\ d + Len(rest) <= m
    BY <1>1, <1>2, <1>3, <1>4, <1>5, <1>6 DEF Passes
  <2> QED
    BY <1>1, <1>2, <2>1, WalkRest
<1> QED
  BY <1>4, <1>6 DEF rest

\* In an absolute text, from a place, cleaning a part is a step along it.
LEMMA CleanedIsWalked ==
  ASSUME NEW place \in Seq(Names), NEW part \in Parts
  PROVE  Cleaned(TRUE, place, part) = Walked(place, part)
<1>1. CASE part # ".."
  BY <1>1 DEF Cleaned, Walked
<1>2. CASE part = ".." /\ place = <<>>
  BY <1>2 DEF Cleaned, Walked
<1>3. CASE part = ".." /\ place # <<>>
  <2>1. Last(place) # ".."
    BY <1>3, FrontLast, PartFacts
  <2> QED
    BY <1>3, <2>1 DEF Cleaned, Walked
<1> QED
  BY <1>1, <1>2, <1>3

\* Cleaning an absolute text is a walk from the top.
LEMMA CleanAbsolute ==
  ASSUME NEW text \in Seq(Parts), IsAbs(text)
  PROVE  Clean(text) = Walk(<<>>, text)
<1> DEFINE n == Len(text)
<1>1. n \in Nat
  OBVIOUS
<1>2. \A i \in 1..n : text[i] \in Parts
  OBVIOUS
<1> HIDE DEF n
<1>3. PICK f : IsTrip(f, "walk", <<>>, text, n) /\ Walk(<<>>, text) = f[n]
  BY <1>1, WalkTrip DEF n
<1>4. PICK g : IsTrip(g, "absolute", <<>>, text, n) /\ Clean(text) = g[n]
  BY <1>1, CleanTrip DEF n, Mode
<1>5. f[0] = <<>> /\ \A i \in 1..n : f[i] = Walked(f[i - 1], text[i])
  BY <1>3 DEF IsTrip, Taken
<1>6. g[0] = <<>> /\ \A i \in 1..n : g[i] = Cleaned(TRUE, g[i - 1], text[i])
  BY <1>4 DEF IsTrip, Taken
<1> DEFINE T == {i \in 0..n : f[i] = g[i] /\ f[i] \in Seq(Names)}
<1>7. 0 \in T
  <2>1. f[0] = <<>> /\ g[0] = <<>>
    BY <1>5, <1>6
  <2>2. <<>> \in Seq(Names) /\ 0 \in 0..n
    BY <1>1
  <2> QED
    BY <2>1, <2>2
<1>8. ASSUME NEW i \in 1..n, i - 1 \in T PROVE i \in T
  <2>1. f[i - 1] = g[i - 1] /\ f[i - 1] \in Seq(Names) /\ text[i] \in Parts
    BY <1>2, <1>8
  <2>2. f[i] = g[i] /\ f[i] \in Seq(Names)
    BY <1>5, <1>6, <2>1, CleanedIsWalked, WalkedType
  <2> QED
    BY <1>1, <2>2
<1> HIDE DEF T
<1>9. \A i \in 0..n : i \in T
  BY <1>1, <1>7, <1>8, Upwards
<1> QED
  BY <1>1, <1>3, <1>4, <1>9 DEF T

\* So it is for the text of the top itself, which is not taken for an absolute one.
LEMMA CleanTop ==
  ASSUME NEW text, text = <<Empty>>
  PROVE  Clean(text) = <<>>
<1>1. Len(text) = 1 /\ text[1] = Empty
  OBVIOUS
<1>2. PICK f : IsTrip(f, Mode(text), <<>>, text, 1) /\ Clean(text) = f[1]
  BY <1>1, CleanTrip
<1>3. f[0] = <<>> /\ \A i \in 1..1 : f[i] = Taken(Mode(text), f[i - 1], text[i])
  BY <1>2 DEF IsTrip
<1>4. f[1] = Taken(Mode(text), f[1 - 1], text[1])
  BY <1>3
<1>5. 1 - 1 = 0
  OBVIOUS
<1>6. f[1] = Taken(Mode(text), <<>>, Empty)
  BY <1>1, <1>3, <1>4, <1>5
<1> QED
  BY <1>2, <1>6 DEF Taken, Mode, Cleaned

\* A place is where its own names lead from the top.
LEMMA WalkPlace ==
  ASSUME NEW place \in Seq(Names)
  PROVE  Walk(<<>>, place) = place
<1> DEFINE n == Len(place)
<1>1. n \in Nat
  OBVIOUS
<1>2. PICK f : IsTrip(f, "walk", <<>>, place, n) /\ Walk(<<>>, place) = f[n]
  BY <1>1, WalkTrip
<1>3. f[0] = <<>> /\ \A i \in 1..n : f[i] = Walked(f[i - 1], place[i])
  BY <1>2 DEF IsTrip, Taken
<1>4. ASSUME NEW i \in 1..n
      PROVE  SubSeq(place, 1, i) = Append(SubSeq(place, 1, i - 1), place[i]) /\ place[i] \in Names
  OBVIOUS
<1>5. SubSeq(place, 1, 0) = <<>> /\ SubSeq(place, 1, n) = place
  OBVIOUS
<1> HIDE DEF n
<1> DEFINE T == {i \in 0..n : f[i] = SubSeq(place, 1, i)}
<1>6. 0 \in T
  <2>1. f[0] = <<>>
    BY <1>3
  <2>2. SubSeq(place, 1, 0) = <<>> /\ 0 \in 0..n
    BY <1>1, <1>5
  <2> QED
    BY <2>1, <2>2
<1>7. ASSUME NEW i \in 1..n, i - 1 \in T PROVE i \in T
  <2>1. f[i - 1] = SubSeq(place, 1, i - 1) /\ i \in 0..n
    BY <1>7
  <2>2. place[i] \in Names /\ place[i] \notin {Empty, ".", ".."}
    BY <1>4, PartFacts
  <2>3. f[i] = Append(SubSeq(place, 1, i - 1), place[i])
    BY <1>3, <2>1, <2>2 DEF Walked
  <2> QED
    BY <1>4, <2>1, <2>3
<1> HIDE DEF T
<1>8. \A i \in 0..n : i \in T
  BY <1>1, <1>6, <1>7, Upwards
<1> QED
  BY <1>1, <1>2, <1>5, <1>8 DEF T

\* Join leads from a place along a text.
LEMMA JoinIsWalk ==
  ASSUME NEW place \in Seq(Names), NEW text \in Seq(Parts)
  PROVE  Join(place, text) = Walk(place, text)
<1> DEFINE whole == <<Empty>> \o place \o text
           n == Len(place)
           m == Len(whole)
<1>1. place \in Seq(Parts) /\ Empty \in Parts /\ <<Empty>> \in Seq(Parts)
  BY PartFacts, SeqMonotonic
<1>2. n \in Nat /\ m \in Nat /\ m = 1 + n + Len(text) /\ Len(text) \in Nat /\ 1 + n \in Nat
  BY <1>1
<1>3. whole \in Seq(Parts) /\ whole[1] = Empty
  BY <1>1
<1>4. GoesOn(whole, 1, place, n)
  BY <1>1 DEF GoesOn
<1>5. GoesOn(whole, 1 + n, text, Len(text))
  BY <1>1 DEF GoesOn
<1>6. Join(place, text) = Clean(whole)
  BY DEF Join
<1>7. CASE m = 1
  <2>1. n = 0 /\ Len(text) = 0
    BY <1>2, <1>7
  <2>2. place = <<>> /\ text = <<>>
    BY <2>1
  <2>3. whole = <<Empty>>
    BY <2>2
  <2> QED
    BY <1>6, <2>2, <2>3, CleanTop, WalkEmpty
<1>8. CASE m # 1
  <2> HIDE DEF whole, n
  <2>1. m > 1 /\ IsAbs(whole)
    BY <1>2, <1>3, <1>8 DEF IsAbs
  <2>2. PICK g : IsTrip(g, "walk", <<>>, whole, m) /\ Walk(<<>>, whole) = g[m]
    BY <1>2, WalkTrip
  <2> HIDE DEF m
  <2>3. g[1] = <<>>
    <3>1. g[0] = <<>> /\ \A i \in 1..m : g[i] = Taken("walk", g[i - 1], whole[i])
      BY <2>2 DEF IsTrip
    <3>2. 1 \in 1..m /\ 1 - 1 = 0
      BY <1>2, <2>1
    <3>3. g[1] = Taken("walk", <<>>, Empty)
      BY <1>3, <3>1, <3>2
    <3> QED
      BY <3>3 DEF Taken, Walked
  <2>4. ASSUME NEW d \in Nat, d = 1 PROVE g[1 + n] = place
    <3>1. Passes(g, <<>>, whole, m, <<>>, d, place)
      BY <1>4, <2>2, <2>3, <2>4 DEF Passes, n
    <3>2. d + Len(place) = 1 + n /\ d + Len(place) <= m
      BY <1>2, <2>4 DEF n
    <3>3. g[d + Len(place)] = Walk(<<>>, place)
      BY <1>1, <1>2, <3>1, <3>2, WalkRest
    <3> QED
      BY <3>2, <3>3, WalkPlace
  <2>5. ASSUME NEW d \in Nat, d = 1 + n PROVE g[m] = Walk(place, text)
    <3>1. Passes(g, <<>>, whole, m, place, d, text)
      BY <1>5, <2>2, <2>4, <2>5 DEF Passes
    <3>2. d + Len(text) = m /\ d + Len(text) <= m
      BY <1>2, <2>5
    <3> QED
      BY <1>2, <3>1, <3>2, WalkRest
  <2>6. g[m] = Walk(place, text)
    BY <1>2, <2>5
  <2> QED
    BY <1>3, <1>6, <2>1, <2>2, <2>6, CleanAbsolute
<1> QED
  BY <1>7, <1>8

\* What a cleaned relative text has: no empty parts and no dots.
Plain == Parts \ {Empty, "."}

\* Cleaning a part of a relative text leads a walk where the part does.
LEMMA CleanedWalks ==
  ASSUME NEW from \in Seq(Names), NEW text \in Seq(Plain), NEW part \in Parts
  PROVE  /\ Cleaned(FALSE, text, part) \in Seq(Plain)
         /\ Walk(from, Cleaned(FALSE, text, part)) = Walked(Walk(from, text), part)
<1>1. text \in Seq(Parts)
  BY SeqMonotonic DEF Plain
<1>2. CASE part \in {Empty, "."}
  BY <1>2 DEF Cleaned, Walked
<1>3. CASE part = ".." /\ text # <<>> /\ Last(text) # ".."
  <2> DEFINE front == Front(text)
             name == Last(text)
  <2>1. front \in Seq(Plain) /\ name \in Plain /\ text = Append(front, name)
    BY <1>3, FrontLast
  <2>2. name \in Parts /\ name \in Names /\ name \notin {Empty, ".", ".."}
    BY <1>3, <2>1 DEF Plain, Names
  <2>3. Cleaned(FALSE, text, part) = front
    BY <1>3, EmptyFacts DEF Cleaned
  <2>4. front \in Seq(Parts)
    BY <2>1, SeqMonotonic DEF Plain
  <2> HIDE DEF front, name
  <2>5. Walk(from, text) = Append(Walk(from, front), name)
    <3>1. Walk(from, text) = Walked(Walk(from, front), name)
      BY <2>1, <2>2, <2>4, WalkAppend
    <3> QED
      BY <2>2, <3>1 DEF Walked
  <2>6. Walk(from, front) \in Seq(Names)
    BY <2>4, WalkType
  <2>7. Front(Walk(from, text)) = Walk(from, front) /\ Walk(from, text) # <<>>
    BY <2>2, <2>5, <2>6, FrontAppend
  <2>8. Walked(Walk(from, text), part) = Walk(from, front)
    BY <1>3, <2>7, EmptyFacts DEF Walked
  <2> QED
    BY <2>1, <2>3, <2>8
<1>4. CASE /\ part \notin {Empty, "."}
           /\ ~(part = ".." /\ text # <<>> /\ Last(text) # "..")
  <2>1. Cleaned(FALSE, text, part) = Append(text, part)
    BY <1>4 DEF Cleaned
  <2>2. part \in Plain
    BY <1>4 DEF Plain
  <2>3. Append(text, part) \in Seq(Plain)
    BY <2>2
  <2> QED
    BY <1>1, <2>1, <2>3, WalkAppend
<1> QED
  BY <1>2, <1>3, <1>4

\* A relative text leads to the same place before and after it is cleaned.
LEMMA WalkClean ==
  ASSUME NEW from \in Seq(Names), NEW text \in Seq(Parts), ~IsAbs(text)
  PROVE  Clean(text) \in Seq(Parts) /\ Walk(from, Clean(text)) = Walk(from, text)
<1> DEFINE n == Len(text)
<1>1. n \in Nat
  OBVIOUS
<1>2. \A i \in 1..n : text[i] \in Parts
  OBVIOUS
<1> HIDE DEF n
<1>3. PICK f : IsTrip(f, "walk", from, text, n) /\ Walk(from, text) = f[n]
  BY <1>1, WalkTrip DEF n
<1>4. PICK g : IsTrip(g, "relative", <<>>, text, n) /\ Clean(text) = g[n]
  BY <1>1, CleanTrip DEF n, Mode
<1>5. f[0] = from /\ \A i \in 1..n : f[i] = Walked(f[i - 1], text[i])
  BY <1>3 DEF IsTrip, Taken
<1>6. g[0] = <<>> /\ \A i \in 1..n : g[i] = Cleaned(FALSE, g[i - 1], text[i])
  BY <1>4 DEF IsTrip, Taken
<1> DEFINE T == {i \in 0..n : g[i] \in Seq(Plain) /\ Walk(from, g[i]) = f[i]}
<1>7. 0 \in T
  <2>1. g[0] = <<>> /\ f[0] = from /\ Walk(from, <<>>) = from
    BY <1>5, <1>6, WalkEmpty
  <2>2. <<>> \in Seq(Plain) /\ 0 \in 0..n
    BY <1>1
  <2> QED
    BY <2>1, <2>2
<1>8. ASSUME NEW i \in 1..n, i - 1 \in T PROVE i \in T
  <2>1. g[i - 1] \in Seq(Plain) /\ Walk(from, g[i - 1]) = f[i - 1] /\ text[i] \in Parts
    BY <1>2, <1>8
  <2>2. g[i] = Cleaned(FALSE, g[i - 1], text[i]) /\ f[i] = Walked(f[i - 1], text[i])
    BY <1>5, <1>6
  <2>3. g[i] \in Seq(Plain) /\ Walk(from, g[i]) = f[i]
    BY <2>1, <2>2, CleanedWalks
  <2> QED
    BY <1>1, <2>3
<1> HIDE DEF T
<1>9. \A i \in 0..n : i \in T
  BY <1>1, <1>7, <1>8, Upwards
<1>10. g[n] \in Seq(Plain) /\ Walk(from, g[n]) = f[n]
  BY <1>1, <1>9 DEF T
<1>11. g[n] \in Seq(Parts)
  BY <1>10, SeqMonotonic DEF Plain
<1> QED
  BY <1>3, <1>4, <1>10, <1>11

\* A prefix is an initial part.
LEMMA PrefixFacts ==
  ASSUME NEW S, NEW s \in Seq(S), NEW t \in Seq(S)
  PROVE  IsPrefix(s, t) <=> Len(s) <= Len(t) /\ s = SubSeq(t, 1, Len(s))
  BY SubSeqFull DEF IsPrefix

\* The longest common prefix of two sequences is one of them, and as long as any.
LEMMA LongestCommon ==
  ASSUME NEW S, NEW s \in Seq(S), NEW t \in Seq(S)
  PROVE  LET l == Len(LongestCommonPrefix({s, t})) IN
           /\ l \in 0..Len(s) /\ l <= Len(t)
           /\ SubSeq(s, 1, l) = SubSeq(t, 1, l)
           /\ IsPrefix(s, t) => l = Len(s)
<1> DEFINE Common == CommonPrefixes({s, t})
           longest == LongestCommonPrefix({s, t})
<1>1. /\ \A n \in 0..Len(s) : SubSeq(s, 1, n) \in Seq(S) /\ Len(SubSeq(s, 1, n)) = n
      /\ \A n \in 0..Len(t) : SubSeq(t, 1, n) \in Seq(S) /\ Len(SubSeq(t, 1, n)) = n
  OBVIOUS
<1>2. ASSUME NEW p \in Common
      PROVE  /\ p \in Seq(S) /\ Len(p) \in 0..Len(s) /\ Len(p) <= Len(t)
             /\ p = SubSeq(s, 1, Len(p)) /\ p = SubSeq(t, 1, Len(p))
  <2>1. p \in Prefixes(s) \/ p \in Prefixes(t)
    BY <1>2 DEF CommonPrefixes
  <2>2. p \in Seq(S)
    BY <1>1, <2>1 DEF Prefixes
  <2>3. IsPrefix(p, s) /\ IsPrefix(p, t)
    BY <1>2 DEF CommonPrefixes
  <2> QED
    BY <2>2, <2>3, PrefixFacts
<1>3. <<>> \in Common
  <2>1. <<>> = SubSeq(s, 1, 0) /\ 0 \in 0..Len(s) /\ <<>> \in Seq(S) /\ Len(<<>>) = 0
    OBVIOUS
  <2>2. <<>> \in Prefixes(s)
    BY <2>1 DEF Prefixes
  <2>3. <<>> = SubSeq(t, 1, 0) /\ 0 <= Len(s) /\ 0 <= Len(t)
    OBVIOUS
  <2>4. IsPrefix(<<>>, s) /\ IsPrefix(<<>>, t)
    BY <2>1, <2>3, PrefixFacts
  <2> QED
    BY <2>2, <2>4 DEF CommonPrefixes
<1>4. IsPrefix(s, t) => s \in Common
  <2>1. s = SubSeq(s, 1, Len(s)) /\ Len(s) \in 0..Len(s) /\ Len(s) <= Len(s)
    BY SubSeqFull
  <2>2. s \in Prefixes(s)
    BY <2>1 DEF Prefixes
  <2>3. IsPrefix(s, s)
    BY <2>1, PrefixFacts
  <2> QED
    BY <2>2, <2>3 DEF CommonPrefixes
<1> HIDE DEF Common
<1>5. \E p \in Common : \A q \in Common : Len(q) <= Len(p)
  <2> DEFINE Above == {Len(s) - Len(p) : p \in Common}
  <2>1. Above \subseteq Nat /\ Above # {}
    BY <1>2, <1>3
  <2>2. PICK m \in Above : \A n \in Above : ~ (<<n, m>> \in OpToRel(<, Nat))
    BY <2>1, WFMin, NatLessThanWellFounded
  <2>3. \A n \in Above : ~ (n < m)
    BY <2>1, <2>2 DEF OpToRel
  <2>4. PICK p \in Common : m = Len(s) - Len(p)
    OBVIOUS
  <2>5. ASSUME NEW q \in Common PROVE Len(q) <= Len(p)
    <3>1. ~ (Len(s) - Len(q) < Len(s) - Len(p))
      BY <2>3, <2>4
    <3> QED
      BY <1>2, <3>1
  <2> QED
    BY <2>5
<1>6. longest \in Common /\ \A q \in Common : Len(q) <= Len(longest)
  BY <1>5 DEF LongestCommonPrefix, Common
<1> HIDE DEF longest
<1>7. /\ Len(longest) \in 0..Len(s) /\ Len(longest) <= Len(t)
      /\ SubSeq(s, 1, Len(longest)) = SubSeq(t, 1, Len(longest))
  BY <1>2, <1>6
<1>8. IsPrefix(s, t) => Len(longest) = Len(s)
  BY <1>4, <1>6, <1>7
<1> QED
  BY <1>7, <1>8 DEF longest

\* isPathWithinRoot tells whether the root leads to a place.
LEMMA WithinIsPrefix ==
  ASSUME NEW place \in Seq(Names), Root \in Seq(Names)
  PROVE  IsPathWithinRoot(place) <=> IsPrefix(Root, place)
<1> DEFINE l == Len(LongestCommonPrefix({Root, place}))
           up == [i \in 1..(Len(Root) - l) |-> ".."]
           down == SubSeq(place, l + 1, Len(place))
<1>1. /\ l \in 0..Len(Root) /\ l <= Len(place)
      /\ SubSeq(Root, 1, l) = SubSeq(place, 1, l)
      /\ IsPrefix(Root, place) => l = Len(Root)
  BY LongestCommon
<1>2. Rel(Root, place) = up \o down
  BY DEF Rel
<1> HIDE DEF l
<1>3. up \in Seq({".."}) /\ Len(up) = Len(Root) - l /\ \A i \in 1..Len(up) : up[i] = ".."
  <2>1. Len(Root) - l \in Nat
    BY <1>1
  <2> QED
    BY <2>1
<1>4. down \in Seq(Names)
  BY <1>1
<1> HIDE DEF up, down
<1>5. CASE IsPrefix(Root, place)
  <2>1. up = <<>>
    BY <1>1, <1>3, <1>5
  <2>2. up \o down = down
    BY <1>4, <2>1, ConcatEmptySeq
  <2>3. down = <<>> \/ down[1] \in Names
    BY <1>4
  <2> QED
    BY <1>2, <1>5, <2>2, <2>3, PartFacts DEF IsPathWithinRoot
<1>6. CASE ~IsPrefix(Root, place)
  <2>1. l # Len(Root)
    <3>1. ASSUME l = Len(Root) PROVE FALSE
      <4>1. SubSeq(Root, 1, Len(Root)) = Root
        BY SubSeqFull
      <4> QED
        BY <1>1, <1>6, <3>1, <4>1, PrefixFacts
    <3> QED
      BY <3>1
  <2>2. Len(up) >= 1 /\ up[1] = ".."
    BY <1>1, <1>3, <2>1
  <2>3. up \o down \in Seq(Parts) /\ up \o down # <<>> /\ (up \o down)[1] = ".."
    <3>1. up \in Seq(Parts) /\ down \in Seq(Parts)
      BY <1>3, <1>4, PartFacts, SeqMonotonic
    <3> QED
      BY <2>2, <3>1
  <2> QED
    BY <1>2, <1>6, <2>3 DEF IsPathWithinRoot
<1> QED
  BY <1>5, <1>6

\* A text of one part is one step.
LEMMA WalkSingle ==
  ASSUME NEW from, NEW part \in Parts
  PROVE  Walk(from, <<part>>) = Walked(from, part)
<1>1. <<>> \in Seq(Parts) /\ Append(<<>>, part) = <<part>>
  OBVIOUS
<1>2. Walk(from, Append(<<>>, part)) = Walked(Walk(from, <<>>), part)
  BY <1>1, WalkAppend
<1> QED
  BY <1>1, <1>2, WalkEmpty

\* From a prefix of a place the rest of its names lead to it.
LEMMA WalkBelow ==
  ASSUME NEW place \in Seq(Names), NEW base \in Seq(Names), IsPrefix(base, place)
  PROVE  Walk(base, SubSeq(place, Len(base) + 1, Len(place))) = place
<1> DEFINE r == Len(base)
           n == Len(place) - Len(base)
           down == SubSeq(place, Len(base) + 1, Len(place))
<1>1. /\ n \in Nat /\ r \in Nat /\ Len(down) = n /\ base = SubSeq(place, 1, r)
      /\ \A i \in 1..n : down[i] = place[r + i]
  BY PrefixFacts
<1>2. PICK f : IsTrip(f, "walk", base, down, n) /\ Walk(base, down) = f[n]
  BY <1>1, WalkTrip
<1>3. f[0] = base /\ \A i \in 1..n : f[i] = Walked(f[i - 1], down[i])
  BY <1>2 DEF IsTrip, Taken
<1>4. ASSUME NEW i \in 1..n
      PROVE  /\ SubSeq(place, 1, r + i) = Append(SubSeq(place, 1, r + i - 1), place[r + i])
             /\ place[r + i] \in Names
  <2>1. r + i \in 1..Len(place)
    BY <1>1
  <2>2. ASSUME NEW k \in 1..Len(place)
        PROVE  SubSeq(place, 1, k) = Append(SubSeq(place, 1, k - 1), place[k]) /\ place[k] \in Names
    OBVIOUS
  <2> QED
    BY <2>1, <2>2
<1>5. SubSeq(place, 1, r + n) = place
  <2>1. r + n = Len(place)
    BY <1>1
  <2>2. SubSeq(place, 1, Len(place)) = place
    OBVIOUS
  <2> QED
    BY <2>1, <2>2
<1> HIDE DEF n, r, down
<1> DEFINE T == {i \in 0..n : f[i] = SubSeq(place, 1, r + i)}
<1>6. 0 \in T
  <2>1. r + 0 = r /\ 0 \in 0..n
    BY <1>1
  <2> QED
    BY <1>1, <1>3, <2>1
<1>7. ASSUME NEW i \in 1..n, i - 1 \in T PROVE i \in T
  <2>1. f[i - 1] = SubSeq(place, 1, r + i - 1) /\ i \in 0..n
    <3>1. r + (i - 1) = r + i - 1 /\ i \in 0..n
      BY <1>1, <1>7
    <3> QED
      BY <1>7, <3>1
  <2>2. place[r + i] \in Names /\ place[r + i] \notin {Empty, ".", ".."}
    BY <1>4, PartFacts
  <2>3. f[i] = Append(SubSeq(place, 1, r + i - 1), place[r + i])
    BY <1>1, <1>3, <2>1, <2>2 DEF Walked
  <2> QED
    BY <1>4, <2>1, <2>3
<1> HIDE DEF T
<1>8. \A i \in 0..n : i \in T
  BY <1>1, <1>6, <1>7, Upwards
<1>9. n \in 0..n
  BY <1>1
<1>10. f[n] = SubSeq(place, 1, r + n)
  BY <1>8, <1>9 DEF T
<1> QED
  BY <1>2, <1>5, <1>10 DEF down

\* Inside the root a relative path is the rest of the place's names.
LEMMA RelBelow ==
  ASSUME NEW place \in Seq(Names), Root \in Seq(Names), IsPrefix(Root, place)
  PROVE  Rel(Root, place) = SubSeq(place, Len(Root) + 1, Len(place))
<1> DEFINE l == Len(LongestCommonPrefix({Root, place}))
           up == [i \in 1..(Len(Root) - l) |-> ".."]
           down == SubSeq(place, l + 1, Len(place))
<1>1. l = Len(Root)
  BY LongestCommon
<1>2. Rel(Root, place) = up \o down
  BY DEF Rel
<1> HIDE DEF l
<1>3. up = <<>>
  <2>1. Len(Root) - l = 0
    BY <1>1
  <2> QED
    BY <2>1
<1>4. down \in Seq(Names)
  BY <1>1
<1> HIDE DEF up
<1> QED
  BY <1>1, <1>2, <1>3, <1>4, ConcatEmptySeq

\* Read from the root, the text of a place inside it leads back to the place.  The text
\* is one name exactly for what lies right below the root.
LEMMA RelTextLeads ==
  ASSUME NEW place \in Seq(Names), Root \in Seq(Names), IsPrefix(Root, place)
  PROVE  /\ Walk(Root, RelText(place)) = place
         /\ Len(RelText(place)) = 1 /\ RelText(place)[1] \notin Dotted <=>
              \E name \in Names \ Dotted : place = Append(Root, name)
<1> DEFINE down == SubSeq(place, Len(Root) + 1, Len(place))
<1>1. Len(Root) \in Nat /\ Len(place) \in Nat /\ Len(Root) <= Len(place)
  BY PrefixFacts
<1>2. CASE place = Root
  <2>1. RelText(place) = <<".">>
    BY <1>2 DEF RelText
  <2>2. Walk(Root, <<".">>) = Root
    <3>1. Walk(Root, <<".">>) = Walked(Root, ".")
      BY LangGraphAssumption, WalkSingle
    <3> QED
      BY <3>1 DEF Walked
  <2>3. <<".">>[1] \in Dotted
    BY LangGraphAssumption
  <2>4. \A name \in Names : Root # Append(Root, name)
    <3>1. ASSUME NEW name \in Names PROVE Len(Append(Root, name)) = Len(Root) + 1
      OBVIOUS
    <3> QED
      BY <1>1, <3>1
  <2> QED
    BY <1>2, <2>1, <2>2, <2>3, <2>4
<1>3. CASE place # Root
  <2>1. RelText(place) = down
    BY <1>3, RelBelow DEF RelText
  <2>2. Walk(Root, down) = place
    BY WalkBelow
  <2>3. Len(down) = Len(place) - Len(Root) /\ \A i \in 1..Len(down) : down[i] = place[Len(Root) + i]
    BY <1>1
  <2>4. ASSUME Len(down) = 1 /\ down[1] \notin Dotted
        PROVE  \E name \in Names \ Dotted : place = Append(Root, name)
    <3>1. down[1] \in Names /\ down = <<down[1]>> /\ down[1] \notin {Empty, ".", ".."}
      <4>1. down \in Seq(Names)
        BY <1>1
      <4> HIDE DEF down
      <4> QED
        BY <2>4, <4>1, PartFacts
    <3> HIDE DEF down
    <3>2. Walk(Root, <<down[1]>>) = Walked(Root, down[1])
      BY <3>1, PartFacts, WalkSingle
    <3>3. Walked(Root, down[1]) = Append(Root, down[1])
      BY <3>1 DEF Walked
    <3> QED
      BY <2>2, <2>4, <3>1, <3>2, <3>3
  <2>5. ASSUME NEW name \in Names \ Dotted, place = Append(Root, name)
        PROVE  Len(down) = 1 /\ down[1] \notin Dotted
    <3>1. Len(place) = Len(Root) + 1 /\ place[Len(Root) + 1] = name
      BY <2>5
    <3> HIDE DEF down
    <3> QED
      BY <1>1, <2>3, <2>5, <3>1
  <2> HIDE DEF down
  <2> QED
    BY <2>1, <2>2, <2>4, <2>5
<1> QED
  BY <1>2, <1>3

-----------------------------------------------------------------------------
(* What is judged and built.                                               *)

\* The place checked for a relative text is where the text leads.
LEMMA PlaceOfText ==
  ASSUME NEW text, IsText(text), ~IsAbs(text)
  PROVE  /\ Join(Root, Clean(text)) = Walk(Root, text)
         /\ IsPathWithinRoot(Walk(Root, text)) <=> Inside(text)
         /\ Walk(Root, text) \in Seq(Names)
<1>1. Root \in Seq(Names) /\ text \in Seq(Parts)
  BY LangGraphAssumption DEF IsText
<1>2. Clean(text) \in Seq(Parts) /\ Walk(Root, Clean(text)) = Walk(Root, text)
  BY <1>1, WalkClean
<1>3. Walk(Root, text) \in Seq(Names)
  BY <1>1, WalkType
<1> QED
  BY <1>1, <1>2, <1>3, JoinIsWalk, WithinIsPrefix DEF Inside

\* A text is taken for a path unless it is one name.
LEMMA PathUnlessBare ==
  ASSUME NEW text, IsText(text)
  PROVE  LooksLikePath(text) <=> ~Bare(text)
<1>1. Len(text) \in Nat /\ Len(text) # 0
  BY DEF IsText
<1>3. \A n \in Nat : n # 0 => (n > 1 <=> n # 1)
  OBVIOUS
<1>2. Len(text) > 1 <=> Len(text) # 1
  BY <1>1, <1>3, Zenon
<1> QED
  BY <1>2, Zenon DEF LooksLikePath, Bare

\* A graph is accepted if it is a module or an existing file inside the repository.
LEMMA AcceptedIsRunnable ==
  ASSUME NEW target, IsText(target.path)
  PROVE  TargetAccepted(target) <=> Runnable(target)
<1> DEFINE text == target.path
<1>1. LooksLikePath(text) <=> ~Bare(text)
  BY PathUnlessBare
<1>2. ~IsAbs(text) => /\ Join(Root, Clean(text)) = Walk(Root, text)
                      /\ IsPathWithinRoot(Walk(Root, text)) <=> Inside(text)
  BY PlaceOfText
<1>3. Inside(text) => ~IsAbs(text)
  BY DEF Inside
<1> QED
  BY <1>1, <1>2, <1>3 DEF TargetAccepted, Runnable

\* The manifests are names.
LEMMA ManifestNames == Manifests \subseteq Names /\ Requirements \in Manifests
<1>1. Requirements \in Manifests /\ Manifests \subseteq Parts
  BY LangGraphAssumption DEF Manifests
<1>2. \A name \in Manifests : name \notin {Empty, ".", ".."}
  BY DEF Manifests, Requirements, Empty
<1> QED
  BY <1>1, <1>2 DEF Names

\* A place inside the root, one name more below it.
LEMMA OneBelow ==
  ASSUME NEW place \in Seq(Names), Root \in Seq(Names), IsPrefix(Root, place), NEW name \in Names
  PROVE  Append(place, name) \in Seq(Names) /\ IsPrefix(Root, Append(place, name))
<1>1. Len(Root) <= Len(place) /\ Root = SubSeq(place, 1, Len(Root))
  BY PrefixFacts
<1>2. Append(place, name) \in Seq(Names)
  OBVIOUS
<1>3. SubSeq(Append(place, name), 1, Len(Root)) = SubSeq(place, 1, Len(Root))
  BY <1>1
<1>4. Len(Root) <= Len(Append(place, name))
  BY <1>1
<1> QED
  BY <1>1, <1>2, <1>3, <1>4, PrefixFacts

\* What can be said of a command with -r, and of one without, for a path.
LEMMA CommandLeads ==
  ASSUME NEW text, ~Bare(text), NEW led \in Seq(Names), Root \in Seq(Names), IsPrefix(Root, led),
         NEW place, place = Walk(Root, text),
         \/ /\ Install(text) = <<"-r", RelText(led)>>
            /\ led \in Files \cap {place, Append(place, Requirements)}
         \/ /\ Install(text) = <<"directory", RelText(led)>>
            /\ led = place /\ place \in Dirs /\ Append(place, Requirements) \notin Files
            /\ \E name \in Manifests : Append(place, name) \in Files
  PROVE  Install(text) # <<>> /\ LeadsToDependency(text)
<1> DEFINE install == Install(text)
           t == RelText(led)
<1>1. /\ Walk(Root, t) = led
      /\ Len(t) = 1 /\ t[1] \notin Dotted <=> \E name \in Names \ Dotted : led = Append(Root, name)
  BY RelTextLeads
<1> HIDE DEF t
<1>2. CASE /\ install = <<"-r", t>>
           /\ led \in Files \cap {place, Append(place, Requirements)}
  <2>1. install # <<>> /\ install[1] = "-r" /\ install[2] = t
    BY <1>2
  <2> HIDE DEF install
  <2>2. install[1] # "directory"
    BY <2>1
  <2>3. ~FromIndex(install)
    BY <2>1 DEF FromIndex
  <2> QED
    BY <1>1, <1>2, <2>1, <2>2, <2>3 DEF LeadsToDependency, install
<1>3. CASE /\ install = <<"directory", t>>
           /\ led = place /\ place \in Dirs /\ Append(place, Requirements) \notin Files
           /\ \E name \in Manifests : Append(place, name) \in Files
  <2>1. install # <<>> /\ install[1] = "directory" /\ install[2] = t
    BY <1>3
  <2> HIDE DEF install
  <2>2. install[1] # "-r"
    BY <2>1
  <2>3. FromIndex(install) <=> \E name \in Names \ Dotted : place = Append(Root, name)
    BY <1>1, <1>3, <2>1, <2>2 DEF FromIndex
  <2> QED
    BY <1>1, <1>3, <2>1, <2>3 DEF LeadsToDependency, install
<1> QED
  BY <1>2, <1>3 DEF t

\* A dependency is installed if it is a package, or a requirements file or a directory
\* with a manifest inside the repository, and the command leads to it.
LEMMA InstallIsInstallable ==
  ASSUME NEW text, IsText(text)
  PROVE  /\ Install(text) # <<>> <=> Installable(text)
         /\ LeadsToDependency(text)
<1> DEFINE place == Walk(Root, text)
           Has(name) == Append(place, name) \in Files
<1>1. LooksLikePath(text) <=> ~Bare(text)
  BY PathUnlessBare
<1>2. CASE Bare(text)
  <2>1. text = <<Empty>> => Install(text) = <<>>
    BY DEF Install
  <2>2. text # <<Empty>> => Install(text) = <<"package", text>>
    BY <1>1, <1>2 DEF Install
  <2>3. Installable(text) <=> text # <<Empty>>
    BY <1>2 DEF Installable
  <2>4. <<"package", text>> # <<>>
    OBVIOUS
  <2> QED
    BY <1>2, <2>1, <2>2, <2>3, <2>4 DEF LeadsToDependency
<1>3. CASE ~Bare(text)
  <2>1. text # <<Empty>>
    <3>1. ASSUME text = <<Empty>> PROVE FALSE
      <4>1. Len(text) = 1 /\ text[1] = Empty
        BY <3>1
      <4> QED
        BY <1>3, <4>1, EmptyFacts DEF Bare
    <3> QED
      BY <3>1
  <2>2. CASE ~Inside(text)
    <3>1. IsAbs(text) \/ ~IsPathWithinRoot(Join(Root, Clean(text)))
      BY <2>2, PlaceOfText
    <3>2. Install(text) = <<>>
      BY <1>1, <1>3, <2>1, <3>1 DEF Install
    <3>3. ~Installable(text)
      BY <1>3, <2>2 DEF Installable
    <3> QED
      BY <3>2, <3>3 DEF LeadsToDependency
  <2>3. CASE Inside(text)
    <3>1. /\ ~IsAbs(text) /\ IsPrefix(Root, place)
          /\ Join(Root, Clean(text)) = place /\ IsPathWithinRoot(place)
          /\ place \in Seq(Names) /\ Root \in Seq(Names)
      BY <2>3, PlaceOfText, LangGraphAssumption DEF Inside
    <3>9. /\ Append(place, Requirements) \in Seq(Names)
          /\ IsPrefix(Root, Append(place, Requirements))
      BY <3>1, ManifestNames, OneBelow
    <3>10. place = Walk(Root, text)
      OBVIOUS
    <3> HIDE DEF place
    <3>2. Install(text) =
            IF place \in Files
              THEN IF Last(place) \in RequirementsNames THEN <<"-r", RelText(place)>> ELSE <<>>
            ELSE IF place \notin Dirs \/ \A name \in Manifests : ~Has(name) THEN <<>>
            ELSE IF Has(Requirements) THEN <<"-r", RelText(Append(place, Requirements))>>
            ELSE <<"directory", RelText(place)>>
      BY <1>1, <1>3, <2>1, <3>1 DEF Install
    <3>3. Installable(text) <=>
            \/ place \in Files /\ Last(place) \in RequirementsNames
            \/ place \in Dirs /\ \E name \in Manifests : Has(name)
      BY <1>3, <2>3 DEF Installable, place
    <3>4. place \in Files => place \notin Dirs
      BY LangGraphAssumption
    <3>5. CASE place \in Files /\ Last(place) \in RequirementsNames
      <4>1. Install(text) = <<"-r", RelText(place)>> /\ Installable(text)
        BY <3>2, <3>3, <3>5
      <4> QED
        BY <1>3, <3>1, <3>5, <3>10, <4>1, CommandLeads
    <3>6. CASE \/ place \in Files /\ Last(place) \notin RequirementsNames
               \/ place \notin Files /\ (place \notin Dirs \/ \A name \in Manifests : ~Has(name))
      <4>1. Install(text) = <<>> /\ ~Installable(text)
        BY <3>2, <3>3, <3>4, <3>6
      <4> QED
        BY <4>1 DEF LeadsToDependency
    <3>7. CASE place \notin Files /\ place \in Dirs /\ Has(Requirements)
      <4>1. Install(text) = <<"-r", RelText(Append(place, Requirements))>> /\ Installable(text)
        BY <3>2, <3>3, <3>7, ManifestNames
      <4> QED
        BY <1>3, <3>1, <3>7, <3>9, <3>10, <4>1, CommandLeads
    <3>8. CASE /\ place \notin Files /\ place \in Dirs /\ ~Has(Requirements)
               /\ \E name \in Manifests : Has(name)
      <4>1. Install(text) = <<"directory", RelText(place)>> /\ Installable(text)
        BY <3>2, <3>3, <3>8
      <4> QED
        BY <1>3, <3>1, <3>8, <3>10, <4>1, CommandLeads
    <3> QED
      BY <3>5, <3>6, <3>7, <3>8
  <2> QED
    BY <2>2, <2>3
<1> QED
  BY <1>2, <1>3

\* The texts of a configuration are texts.
LEMMA ConfigTexts ==
  ASSUME NEW config \in Configs
  PROVE  /\ \A target \in config.targets : IsText(target.path)
         /\ \A text \in Dependencies(config) : IsText(text)
<1>1. <<".">> \in Seq(Parts) /\ <<".">> # <<>>
  BY LangGraphAssumption
<1>2. IsText(<<".">>)
  BY <1>1 DEF IsText
<1> QED
  BY <1>2, LangGraphAssumption DEF Dependencies

\* Validate accepts what can be run and installed.
LEMMA ValidIsAcceptable ==
  ASSUME NEW config \in Configs
  PROVE  /\ Validate(config) <=> Acceptable(config)
         /\ \A text \in Dependencies(config) : LeadsToDependency(text)
<1>1. \A target \in config.targets : TargetAccepted(target) <=> Runnable(target)
  BY ConfigTexts, AcceptedIsRunnable
<1>2. \A text \in Dependencies(config) :
        (Install(text) # <<>> <=> Installable(text)) /\ LeadsToDependency(text)
  BY ConfigTexts, InstallIsInstallable
<1> QED
  BY <1>1, <1>2 DEF Validate, Acceptable

\* The text without a first part that is empty or a dot.
Shortened(text, part) == IF Len(text) > 1 /\ text[1] = part THEN Tail(text) ELSE text

\* It leads to the same place.
LEMMA ShortenedWalks ==
  ASSUME NEW from, NEW text, IsText(text), NEW part, Skipped(part)
  PROVE  IsText(Shortened(text, part)) /\ Walk(from, Shortened(text, part)) = Walk(from, text)
<1>1. text \in Seq(Parts)
  BY DEF IsText
<1>2. CASE Len(text) > 1 /\ text[1] = part
  <2>1. Tail(text) \in Seq(Parts) /\ Tail(text) # <<>>
    <3>1. text # <<>> /\ Len(text) > 1
      BY <1>2 DEF IsText
    <3>2. Tail(text) \in Seq(Parts) /\ Len(Tail(text)) = Len(text) - 1
      BY <1>1, <3>1, HeadTailProperties
    <3>3. Len(Tail(text)) # 0
      BY <1>1, <3>1, <3>2
    <3> QED
      BY <3>2, <3>3, EmptySeq
  <2>2. Walk(from, Tail(text)) = Walk(from, text)
    BY <1>1, <1>2, WalkTail
  <2> QED
    BY <1>2, <2>1, <2>2 DEF Shortened, IsText
<1>3. CASE ~(Len(text) > 1 /\ text[1] = part)
  BY <1>3 DEF Shortened
<1> QED
  BY <1>2, <1>3

\* BuildKit gets the directory repo_path names.
LEMMA ContextIsKept ==
  ASSUME NEW text, IsText(text)
  PROVE  Walk(<<>>, ContextPath(text)) = Walk(<<>>, text)
<1>1. Empty \in Parts /\ "." \in Parts /\ Skipped(Empty) /\ Skipped(".")
  BY LangGraphAssumption DEF Skipped
<1>2. Walk(<<>>, <<Empty>>) = <<>> /\ Walk(<<>>, <<".">>) = <<>>
  BY <1>1, WalkSingle DEF Walked
<1>3. Walk(<<>>, <<Empty, Empty>>) = <<>>
  <2>1. ASSUME NEW part \in Parts
        PROVE  /\ <<part, part>> \in Seq(Parts) /\ Tail(<<part, part>>) = <<part>>
               /\ Len(<<part, part>>) > 1 /\ <<part, part>>[1] = part
    OBVIOUS
  <2>2. Walk(<<>>, Tail(<<Empty, Empty>>)) = Walk(<<>>, <<Empty, Empty>>)
    BY <1>1, <2>1, WalkTail
  <2> QED
    BY <1>1, <1>2, <2>1, <2>2
<1>4. CASE text \in {<<Empty>>, <<".">>, <<Empty, Empty>>}
  <2>1. ContextPath(text) = <<Empty>>
    BY <1>4 DEF ContextPath
  <2>2. Walk(<<>>, text) = <<>>
    BY <1>2, <1>3, <1>4
  <2> QED
    BY <1>2, <2>1, <2>2
<1>5. CASE text \notin {<<Empty>>, <<".">>, <<Empty, Empty>>}
  <2>1. ContextPath(text) = Shortened(Shortened(text, "."), Empty)
    BY <1>5 DEF ContextPath, Shortened
  <2>2. IsText(Shortened(text, ".")) /\ Walk(<<>>, Shortened(text, ".")) = Walk(<<>>, text)
    BY <1>1, ShortenedWalks
  <2> QED
    BY <1>1, <2>1, <2>2, ShortenedWalks
<1> QED
  BY <1>4, <1>5

\* For any repository, any langgraph.json and any repo_path: a source is accepted if and
\* only if a walk of the tree finds what it names inside the repository; the command for a
\* path leads pip to that, except for a project right below the root without a
\* requirements file, which pip looks up in its index; and BuildKit gets the directory
\* repo_path names, whatever dots, "..", doubled and leading slashes the texts contain
\* (langgraph.go Validate, normalizeDependency, BuildKitJobSpec).
THEOREM SourcesAreExact == Spec => []SourceIsExact
<1> USE DEF Answered
<1>1. Init => SourceIsExact
  BY DEF Init, SourceIsExact, NoAnswer
<1>2. SourceIsExact /\ [Next]_vars => SourceIsExact'
  <2> SUFFICES ASSUME SourceIsExact, [Next]_vars PROVE SourceIsExact'
    OBVIOUS
  <2>1. CASE BuildStep /\ answer' = NoAnswer
    BY <2>1 DEF SourceIsExact, NoAnswer
  <2>2. ASSUME NEW config \in Configs, answer' = Answered("validate", config, Validate(config))
        PROVE  SourceIsExact'
    BY <2>2, ValidIsAcceptable DEF SourceIsExact
  <2>3. ASSUME NEW text \in RepoPaths, answer' = Answered("job", text, ContextPath(text))
        PROVE  SourceIsExact'
    <3>1. Walk(<<>>, ContextPath(text)) = Walk(<<>>, text)
      BY BuilderAssumption, ContextIsKept
    <3> QED
      BY <2>3, <3>1 DEF SourceIsExact
  <2>4. CASE UNCHANGED vars
    BY <2>4 DEF vars, SourceIsExact
  <2> QED
    BY <2>1, <2>2, <2>3, <2>4 DEF Next, ValidateSource, BuildJob
<1> QED
  BY <1>1, <1>2, PTL DEF Spec
=============================================================================
