------------------------------- MODULE Builder -------------------------------
(***************************************************************************)
(* The builder: builds are Kubernetes jobs, their records are kept in      *)
(* memory and in table builds, and a job's status is looked up when        *)
(* somebody reads the build.  Every reader writes what it found: to the    *)
(* gauges, to memory and to the row, from the copy it began with.          *)
(*                                                                         *)
(* A step is one SQL statement or one call to Kubernetes, or one turn of   *)
(* the process under its lock.  The control plane is the client of a       *)
(* trigger: when the call fails it inserts a row of its own.  A job is     *)
(* named after the build it was created for.  Digests, labels and texts    *)
(* of logs are left out.                                                   *)
(***************************************************************************)
EXTENDS LangGraph, FiniteSets, Integers

CONSTANTS
  Requests,    \* requests in flight
  Builds,      \* identifiers of builds
  RepoPaths,   \* texts a repo_path may be
  Sources,     \* what builds name: {}, or the one configuration of langgraph.json
  ExecuteJobs, \* BUILDKIT_EXECUTE_JOBS
  NoBuild,     \* not a build
  MaxReads, MaxFaults, MaxRestarts  \* bounds; Builds bounds the triggers

ASSUME BuilderAssumption ==
  /\ \A text \in RepoPaths : IsText(text)
  /\ \A source \in Sources : source \subseteq Configs
  /\ ExecuteJobs \in BOOLEAN
  /\ NoBuild \notin Builds
  /\ {MaxReads, MaxFaults, MaxRestarts} \subseteq Nat

VARIABLES
  jobs,      \* Kubernetes: the status of each build's job, NoJob if there is none
  rows,      \* table builds
  builds,    \* memory: the record of each build
  metrics,   \* memory: status last counted per build, gauges, failures
  logged,    \* memory: builds with a text of logs
  executing, \* there is a client of Kubernetes: executeJobs, kube
  deployed,  \* the deployment exists
  pc, kind, build, copy, next,  \* requests: step, operation, build, record, status found
  shared,    \* history: builds two requests were at work on at once
  lost,      \* history: builds a statement for which was lost
  used,      \* history: identifiers given out
  shown,     \* history: builds a client was told have succeeded
  answer,    \* what validate or buildJob answered in the last step, or NoAnswer
  reads, faults, restarts

memory == <<builds, metrics, logged, executing>>
requests == <<pc, kind, build, copy, next>>
history == <<shared, lost, used, shown>>
bounds == <<reads, faults, restarts>>
vars == <<jobs, rows, memory, deployed, requests, history, answer, bounds>>

Statuses == {"queued", "running", "succeeded", "failed"}
Records == [status : Statuses, job : BOOLEAN]  \* job: its logs_ref names a job
NoRecord == [status |-> "none", job |-> FALSE]
JobStatuses == [active : BOOLEAN, succeeded : BOOLEAN, failed : BOOLEAN,
                condition : {"none", "Complete", "Failed"}]
NewJob == [active |-> FALSE, succeeded |-> FALSE, failed |-> FALSE, condition |-> "none"]
NoJob == [NewJob EXCEPT !.condition = "absent"]
Steps == {"idle", "submit", "insert", "placeholder", "lookup", "refresh", "update",
          "settle", "fetch"}
Kinds == {"none", "trigger", "get", "text", "logs", "rowlogs"}

TypeOK ==
  /\ jobs \in [Builds -> JobStatuses \cup {NoJob}]
  /\ rows \in [Builds -> Records \cup {NoRecord}]
  /\ builds \in [Builds -> Records \cup {NoRecord}]
  /\ metrics.status \in [Builds -> Statuses \cup {"none"}]
  /\ metrics.gauge \in [Statuses -> Int]
  /\ metrics.failures \in Nat
  /\ logged \subseteq Builds
  /\ executing \in BOOLEAN /\ deployed \in BOOLEAN
  /\ pc \in [Requests -> Steps]
  /\ kind \in [Requests -> Kinds]
  /\ build \in [Requests -> Builds \cup {NoBuild}]
  /\ copy \in [Requests -> Records \cup {NoRecord}]
  /\ next \in [Requests -> Statuses \cup {"none"}]
  /\ \A q \in Requests : pc[q] \notin {"idle", "placeholder"} =>
       build[q] \in Builds /\ copy[q] \in Records
  /\ shared \subseteq Builds /\ lost \subseteq Builds
  /\ used \subseteq Builds /\ shown \subseteq Builds
  /\ answer.kind \in {"none", "validate", "job"}
  /\ reads \in 0..MaxReads
  /\ faults \in 0..MaxFaults /\ restarts \in 0..MaxRestarts

Answered(k, subject, result) == [kind |-> k, subject |-> subject, result |-> result]
NoAnswer == Answered("none", <<>>, <<>>)

EmptyMetrics == [status |-> [b \in Builds |-> "none"],
                 gauge |-> [s \in Statuses |-> 0], failures |-> 0]

(* New: an empty memory; initKubeClient may fail, jobs are then not executed *)
New(hasClient) ==
  /\ builds' = [b \in Builds |-> NoRecord]
  /\ metrics' = EmptyMetrics
  /\ logged' = {}
  /\ executing' = (ExecuteJobs /\ hasClient)

Init ==
  /\ jobs = [b \in Builds |-> NoJob]
  /\ rows = [b \in Builds |-> NoRecord]
  /\ builds = [b \in Builds |-> NoRecord]
  /\ metrics = EmptyMetrics
  /\ logged = {}
  /\ executing = ExecuteJobs
  /\ deployed = TRUE
  /\ pc = [q \in Requests |-> "idle"]
  /\ kind = [q \in Requests |-> "none"]
  /\ build = [q \in Requests |-> NoBuild]
  /\ copy = [q \in Requests |-> NoRecord]
  /\ next = [q \in Requests |-> "none"]
  /\ shared = {} /\ lost = {} /\ used = {} /\ shown = {}
  /\ answer = NoAnswer
  /\ reads = 0 /\ faults = 0 /\ restarts = 0

-----------------------------------------------------------------------------
MutantCounted(m, b, given, status) ==
  LET prev == IF given = "none" THEN m.status[b] ELSE given
      Shift(s) == (IF s = status THEN 1 ELSE 0) - (IF s = prev THEN 1 ELSE 0)
  IN  [status |-> [m.status EXCEPT ![b] = status],
       gauge |-> [s \in Statuses |-> m.gauge[s] + Shift(s)],
       failures |-> m.failures + (IF status = "failed" THEN 1 ELSE 0)]

(* updateBuildMetricsLocked: with no status given, the one last counted    *)
Counted(m, b, given, status) ==
  LET prev == IF given = "none" THEN m.status[b] ELSE given
      Shift(s) == (IF s = status THEN 1 ELSE 0) - (IF s = prev THEN 1 ELSE 0)
  IN  IF prev = status THEN m
      ELSE [status |-> [m.status EXCEPT ![b] = status],
            gauge |-> [s \in Statuses |-> m.gauge[s] + Shift(s)],
            failures |-> m.failures + (IF status = "failed" THEN 1 ELSE 0)]

(* lookupJobStatus                                                         *)
JobStatus(job) ==
  IF job.succeeded THEN "succeeded"
  ELSE IF job.failed THEN "failed"
  ELSE IF job.condition = "Complete" THEN "succeeded"
  ELSE IF job.condition = "Failed" THEN "failed"
  ELSE IF job.active THEN "running" ELSE "queued"

Busy(b) == {q \in Requests : pc[q] # "idle" /\ build[q] = b}

(* A request takes up a build others may be at work on                     *)
Takes(q, k, b, rec) ==
  /\ kind' = [kind EXCEPT ![q] = k]
  /\ build' = [build EXCEPT ![q] = b]
  /\ copy' = [copy EXCEPT ![q] = rec]
  /\ shared' = IF Busy(b) \subseteq {q} THEN shared ELSE shared \cup {b}

Goes(q, step) == pc' = [pc EXCEPT ![q] = step]

Answers(q) ==
  /\ pc' = [pc EXCEPT ![q] = "idle"]
  /\ kind' = [kind EXCEPT ![q] = "none"]
  /\ build' = [build EXCEPT ![q] = NoBuild]
  /\ copy' = [copy EXCEPT ![q] = NoRecord]
  /\ next' = [next EXCEPT ![q] = "none"]

Shows(b, rec) == shown' = IF rec.status = "succeeded" THEN shown \cup {b} ELSE shown

Fault ==
  /\ faults < MaxFaults
  /\ faults' = faults + 1

-----------------------------------------------------------------------------
Remember(b, rec) ==
  /\ builds' = [builds EXCEPT ![b] = rec]
  /\ metrics' = Counted(metrics, b, "none", rec.status)
  /\ logged' = logged \cup {b}

(* triggerBuild up to the submission.  A trigger without repo_path, {}, is *)
(* not validated; without a client of Kubernetes it succeeds on the spot.  *)
TriggerBuild(q, b, source) ==
  LET rec == [status |-> IF executing THEN "queued" ELSE "succeeded", job |-> executing]
  IN  /\ pc[q] = "idle" /\ deployed /\ b \notin used
      /\ \A config \in source : Validate(config)
      /\ used' = used \cup {b}
      /\ Takes(q, "trigger", b, rec)
      /\ IF executing
         THEN Goes(q, "submit") /\ UNCHANGED <<builds, metrics, logged>>
         ELSE Goes(q, "insert") /\ Remember(b, rec)
      /\ UNCHANGED <<jobs, rows, executing, deployed, next, lost, shown, bounds>>

(* submitBuildJob, and the record in memory                                *)
SubmitBuildJob(q) ==
  /\ pc[q] = "submit"
  /\ jobs' = [jobs EXCEPT ![build[q]] = NewJob]
  /\ Remember(build[q], copy[q])
  /\ Goes(q, "insert")
  /\ UNCHANGED <<rows, executing, deployed, kind, build, copy, next, history, bounds>>

(* The call fails, and may have created the job all the same: 502          *)
SubmitFails(q) ==
  /\ pc[q] = "submit"
  /\ Fault
  /\ jobs' \in {jobs, [jobs EXCEPT ![build[q]] = NewJob]}
  /\ Answers(q)
  /\ UNCHANGED <<rows, memory, deployed, history, reads, restarts>>

InsertBuild(q) ==
  /\ pc[q] = "insert" /\ deployed
  /\ rows' = [rows EXCEPT ![build[q]] = copy[q]]
  /\ Shows(build[q], copy[q])
  /\ Answers(q)
  /\ UNCHANGED <<jobs, memory, deployed, shared, lost, used, bounds>>

(* 500 to the client, while job and record stay                            *)
InsertFails(q) ==
  /\ pc[q] = "insert"
  /\ IF deployed THEN Fault ELSE UNCHANGED faults
  /\ Answers(q)
  /\ UNCHANGED <<jobs, rows, memory, deployed, history, reads, restarts>>

(* The control plane gets no answer to its call, before or after what the  *)
(* builder was doing took effect: the build is given up for a row of its   *)
(* own                                                                     *)
CallFails(q) ==
  /\ pc[q] \in {"submit", "insert"} \/ (pc[q] = "idle" /\ deployed)
  /\ Fault
  /\ IF pc[q] = "submit"
     THEN jobs' \in {jobs, [jobs EXCEPT ![build[q]] = NewJob]} ELSE UNCHANGED jobs
  /\ IF pc[q] = "insert" /\ deployed
     THEN rows' \in {rows, [rows EXCEPT ![build[q]] = copy[q]]} ELSE UNCHANGED rows
  /\ Goes(q, "placeholder")
  /\ build' = [build EXCEPT ![q] = NoBuild]
  /\ UNCHANGED <<memory, deployed, kind, copy, next, history, reads, restarts>>

InsertPlaceholder(q, b) ==
  /\ pc[q] = "placeholder" /\ b \notin used
  /\ used' = used \cup {b}
  /\ rows' = IF deployed THEN [rows EXCEPT ![b] = [status |-> "queued", job |-> FALSE]] ELSE rows
  /\ Answers(q)
  /\ UNCHANGED <<jobs, memory, deployed, shared, lost, shown, bounds>>

-----------------------------------------------------------------------------
(* Where a request with a record goes: refreshBuildRuntimeStatus, if there *)
(* is a job to ask for                                                     *)
AfterRead(rec) == IF executing /\ rec.job THEN "lookup" ELSE "settle"

MutantGetBuild(q, b) ==
  LET rec == IF builds[b] # NoRecord THEN builds[b] ELSE rows[b]
  IN  /\ pc[q] = "idle" /\ reads < MaxReads
      /\ reads' = reads + 1
      /\ Takes(q, "get", b, rec)
      /\ Goes(q, AfterRead(rec))
      /\ UNCHANGED <<jobs, rows, memory, deployed, next, lost, used, shown, faults, restarts>>

(* getBuild: the record in memory, otherwise the row                       *)
GetBuild(q, b) ==
  LET rec == IF builds[b] # NoRecord THEN builds[b] ELSE rows[b]
  IN  /\ pc[q] = "idle" /\ reads < MaxReads
      /\ rec # NoRecord
      /\ reads' = reads + 1
      /\ Takes(q, "get", b, rec)
      /\ Goes(q, AfterRead(rec))
      /\ UNCHANGED <<jobs, rows, memory, deployed, next, lost, used, shown, faults, restarts>>

(* The control plane's check of a client bound to a project                *)
InScope(b, scoped) == scoped => rows[b] # NoRecord

(* getBuildLogs: from the job if memory knows it ("text" if it has a text  *)
(* of logs as well), otherwise from the row                                *)
GetBuildLogs(q, b, scoped) ==
  LET known == builds[b] # NoRecord /\ executing /\ builds[b].job
  IN  /\ pc[q] = "idle" /\ reads < MaxReads
      /\ InScope(b, scoped)
      /\ reads' = reads + 1
      /\ \/ /\ known
            /\ Takes(q, IF b \in logged THEN "text" ELSE "logs", b, builds[b])
            /\ Goes(q, "fetch")
         \/ /\ ~known /\ b \notin logged /\ rows[b] # NoRecord
            /\ Takes(q, "rowlogs", b, rows[b])
            /\ Goes(q, AfterRead(rows[b]))
      /\ UNCHANGED <<jobs, rows, memory, deployed, next, lost, used, shown, faults, restarts>>

LookupJobStatus(q) ==
  LET status == JobStatus(jobs[build[q]])
  IN  /\ pc[q] = "lookup"
      /\ jobs[build[q]] # NoJob
      /\ IF status = copy[q].status
         THEN Goes(q, "settle") /\ UNCHANGED next
         ELSE Goes(q, "refresh") /\ next' = [next EXCEPT ![q] = status]
      /\ UNCHANGED <<jobs, rows, memory, deployed, kind, build, copy, history, bounds>>

MutantLookupFails(q) ==
  /\ pc[q] = "lookup"
  /\ Goes(q, "refresh")
  /\ next' = [next EXCEPT ![q] = "queued"]
  /\ UNCHANGED <<jobs, rows, memory, deployed, kind, build, copy, history, bounds>>

LookupFails(q) ==
  /\ pc[q] = "lookup"
  /\ Goes(q, "settle")
  /\ UNCHANGED <<jobs, rows, memory, deployed, kind, build, copy, next, history, bounds>>

MutantRefresh(q) ==
  LET rec == [status |-> next[q], job |-> TRUE]
  IN  /\ pc[q] = "refresh"
      /\ copy' = [copy EXCEPT ![q] = rec]
      /\ metrics' = Counted(metrics, build[q], copy[q].status, next[q])
      /\ builds' = builds
      /\ next' = [next EXCEPT ![q] = "none"]
      /\ Goes(q, "update")
      /\ UNCHANGED <<jobs, rows, logged, executing, deployed, kind, build,
                     history, bounds>>

(* Under the lock: gauges from the copy's status to the one found, and the *)
(* copy over the record                                                    *)
Refresh(q) ==
  LET rec == [status |-> next[q], job |-> TRUE]
  IN  /\ pc[q] = "refresh"
      /\ copy' = [copy EXCEPT ![q] = rec]
      /\ metrics' = Counted(metrics, build[q], copy[q].status, next[q])
      /\ builds' = [builds EXCEPT ![build[q]] = rec]
      /\ next' = [next EXCEPT ![q] = "none"]
      /\ Goes(q, "update")
      /\ UNCHANGED <<jobs, rows, logged, executing, deployed, kind, build,
                     history, bounds>>

UpdateRow(q) ==
  /\ pc[q] = "update"
  /\ rows' = IF rows[build[q]] = NoRecord THEN rows
             ELSE [rows EXCEPT ![build[q]].status = copy[q].status]
  /\ Goes(q, "settle")
  /\ UNCHANGED <<jobs, memory, deployed, kind, build, copy, next, history, bounds>>

(* The error is ignored                                                    *)
UpdateFails(q) ==
  /\ pc[q] = "update"
  /\ Fault
  /\ lost' = lost \cup {build[q]}
  /\ Goes(q, "settle")
  /\ UNCHANGED <<jobs, rows, memory, deployed, kind, build, copy, next, shared, used,
                 shown, reads, restarts>>

(* The gauges once more, from what was last counted to the copy's status   *)
Settle(q) ==
  /\ pc[q] = "settle"
  /\ metrics' = Counted(metrics, build[q], "none", copy[q].status)
  /\ IF kind[q] = "rowlogs" /\ executing /\ copy[q].job
     THEN Goes(q, "fetch") /\ UNCHANGED <<kind, build, copy, next>>
     ELSE Answers(q)
  /\ IF kind[q] = "get" THEN Shows(build[q], copy[q]) ELSE UNCHANGED shown
  /\ UNCHANGED <<jobs, rows, builds, logged, executing, deployed, shared, lost, used, bounds>>

FetchJobLogs(q) ==
  /\ pc[q] = "fetch"
  /\ jobs[build[q]] # NoJob
  /\ logged' = logged \cup {build[q]}
  /\ Answers(q)
  /\ UNCHANGED <<jobs, rows, builds, metrics, executing, deployed, history, bounds>>

(* No pod, no text, or an error: the text memory had when the request      *)
(* came, or else by the row                                                *)
FetchFails(q) ==
  LET rec == rows[build[q]]
  IN  /\ pc[q] = "fetch"
      /\ IF kind[q] = "logs" /\ rec # NoRecord
         THEN /\ Takes(q, "rowlogs", build[q], rec)
              /\ Goes(q, AfterRead(rec))
              /\ UNCHANGED next
         ELSE Answers(q) /\ UNCHANGED shared
      /\ UNCHANGED <<jobs, rows, memory, deployed, lost, used, shown, bounds>>

(* The control plane's list of builds: rows as they are                    *)
ListBuilds ==
  /\ shown' = shown \cup {b \in Builds : rows[b].status = "succeeded"}
  /\ UNCHANGED <<jobs, rows, memory, deployed, requests, shared, lost, used, bounds>>

(* Its getBuild for a client of one project, or when the builder does not  *)
(* answer                                                                  *)
ReadRow(b) ==
  /\ rows[b] # NoRecord
  /\ Shows(b, rows[b])
  /\ UNCHANGED <<jobs, rows, memory, deployed, requests, shared, lost, used, bounds>>

-----------------------------------------------------------------------------
(* The job controller: a pod starts, and succeeds or fails and is replaced *)
(* until the controller gives up                                           *)
Pods(job) ==
  IF job.active
  THEN {[job EXCEPT !.active = FALSE, !.failed = TRUE],
        [job EXCEPT !.active = FALSE, !.succeeded = TRUE, !.condition = "Complete"]}
  ELSE {[job EXCEPT !.active = TRUE], [job EXCEPT !.condition = "Failed"]}

JobProgresses(b) ==
  /\ jobs[b] # NoJob /\ jobs[b].condition = "none"
  /\ \E job \in Pods(jobs[b]) : jobs' = [jobs EXCEPT ![b] = job]
  /\ UNCHANGED <<rows, memory, deployed, requests, history, bounds>>

JobIsRemoved(b) ==
  /\ jobs[b] # NoJob
  /\ jobs' = [jobs EXCEPT ![b] = NoJob]
  /\ UNCHANGED <<rows, memory, deployed, requests, history, bounds>>

(* The control plane deletes the deployment and its builds; the builder is *)
(* not told                                                                *)
DeleteDeployment ==
  /\ deployed
  /\ deployed' = FALSE
  /\ rows' = [b \in Builds |-> NoRecord]
  /\ UNCHANGED <<jobs, memory, requests, history, bounds>>

(* The builder starts anew; triggers in flight are left to CallFails' row  *)
Restart ==
  LET called == {q \in Requests : pc[q] \in {"submit", "insert", "placeholder"}}
  IN  /\ restarts < MaxRestarts
      /\ restarts' = restarts + 1
      /\ \E hasClient \in BOOLEAN : New(hasClient)
      /\ pc' = [q \in Requests |-> IF q \in called THEN "placeholder" ELSE "idle"]
      /\ kind' = [q \in Requests |-> IF q \in called THEN "trigger" ELSE "none"]
      /\ build' = [q \in Requests |-> NoBuild]
      /\ copy' = [q \in Requests |-> NoRecord]
      /\ next' = [q \in Requests |-> "none"]
      /\ UNCHANGED <<jobs, rows, deployed, history, reads, faults>>

Request(q) ==
  \/ \E b \in Builds, source \in Sources : TriggerBuild(q, b, source)
  \/ SubmitBuildJob(q)
  \/ SubmitFails(q)
  \/ InsertBuild(q)
  \/ InsertFails(q)
  \/ CallFails(q)
  \/ \E b \in Builds : InsertPlaceholder(q, b) \/ GetBuild(q, b)
  \/ \E b \in Builds, scoped \in BOOLEAN : GetBuildLogs(q, b, scoped)
  \/ LookupJobStatus(q)
  \/ LookupFails(q)
  \/ Refresh(q)
  \/ UpdateRow(q)
  \/ UpdateFails(q)
  \/ Settle(q)
  \/ FetchJobLogs(q)
  \/ FetchFails(q)

(* validate and buildJob, which keep nothing.  Bound: one of them, before  *)
(* any build.                                                              *)
ValidateSource ==
  \E config \in Configs : answer' = Answered("validate", config, Validate(config))

BuildJob == \E text \in RepoPaths : answer' = Answered("job", text, ContextPath(text))

Idle == answer = NoAnswer /\ used = {} /\ faults = 0 /\ restarts = 0 /\ deployed

BuildStep ==
  \/ \E q \in Requests : Request(q)
  \/ \E b \in Builds : ReadRow(b) \/ JobProgresses(b) \/ JobIsRemoved(b)
  \/ ListBuilds
  \/ DeleteDeployment
  \/ Restart

Unchanging == UNCHANGED <<jobs, rows, memory, deployed, requests, history, bounds>>

Next ==
  \/ BuildStep /\ answer' = NoAnswer
  \/ Idle /\ ValidateSource /\ Unchanging
  \/ Idle /\ BuildJob /\ Unchanging

Spec == Init /\ [][Next]_vars

-----------------------------------------------------------------------------
(* A source is judged and built from the place its texts name, whatever    *)
(* "..", dots and doubled slashes they contain: what is accepted is what   *)
(* can be run and installed; the command for a path leads pip to what the  *)
(* path names, except for a project right below the root that has no       *)
(* requirements file, which pip looks up in its index; and BuildKit gets   *)
(* the directory repo_path names (langgraph.go Validate,                   *)
(* normalizeDependency, BuildKitJobSpec).                                  *)
SourceIsExact ==
  /\ answer.kind = "validate" =>
       /\ answer.result <=> Acceptable(answer.subject)
       /\ \A text \in Dependencies(answer.subject) : LeadsToDependency(text)
  /\ answer.kind = "job" => Walk(<<>>, answer.result) = Walk(<<>>, answer.subject)

(* A build's row agrees with the record in memory once nobody is at work   *)
(* on it, unless an UPDATE was lost or two readers overlapped: then the    *)
(* row may stay wrong, for later readers find memory right and do not      *)
(* write (api.go refreshBuildRuntimeStatus).                               *)
RowFollowsMemory ==
  \A b \in Builds :
    (builds[b] # NoRecord /\ rows[b] # NoRecord /\ Busy(b) = {} /\ b \notin shared \cup lost)
      => rows[b] = builds[b]

(* As long as no two requests worked on one build and the builder has not  *)
(* restarted, the gauges count the builds in memory and the placeholders   *)
(* somebody read, and no build is counted as a failure twice, though every *)
(* reader counts twice (api.go updateBuildMetricsLocked and its callers).  *)
GaugesCountBuilds ==
  shared = {} /\ restarts = 0 =>
    /\ \A s \in Statuses :
         metrics.gauge[s] = Cardinality({b \in Builds :
           s = IF builds[b] # NoRecord THEN builds[b].status ELSE metrics.status[b]})
    /\ metrics.failures <= Cardinality({b \in Builds : builds[b] # NoRecord})

(* What a client was told stays so: a build once shown as succeeded is so  *)
(* in memory and in the row, for clients who read either, unless readers   *)
(* overlapped or an UPDATE was lost; no failing call, old row, retried pod *)
(* or restart takes it back (api.go getBuild, httpapi.go getBuild).        *)
SuccessStaysShown ==
  \A b \in shown \ (shared \cup lost) :
    /\ builds[b] # NoRecord => builds[b].status = "succeeded"
    /\ rows[b] # NoRecord => rows[b].status = "succeeded"
=============================================================================
