------------------------------ MODULE Ownership ------------------------------
(***************************************************************************)
(* Who owns what in Postgres: deployments own assistants, assistants       *)
(* threads, runs and cron jobs, runs their deliveries.  The handlers that  *)
(* create rows look at the parents in statements of their own, those that  *)
(* delete a row delete what refers to it table by table in one             *)
(* transaction, and the foreign keys turn what was missed into an error.   *)
(*                                                                         *)
(* A step is one statement at READ COMMITTED, the last one with its        *)
(* COMMIT.  A statement that needs a row another transaction has written   *)
(* waits.  Nothing inserts into checkpoints: their deletion is left out.   *)
(***************************************************************************)
EXTENDS Naturals, Sequences, FiniteSets

CONSTANTS
  Handlers,     \* requests in flight
  Projects,
  Deployments, Builds, Assistants, Threads, States, Runs, CronJobs,  \* identifiers of rows
  Executions, Deliveries,
  ProjectOf,    \* the project of each deployment
  FirstRows, FirstOwners,  \* rows there are at first, and what they refer to
  Strategies,   \* multitask strategies in use
  Outcomes,     \* what an execution reports: active statuses too
  Nobody,       \* not a handler, not a row
  MaxRequests,  \* bound: requests
  MaxWork       \* bound: steps of workers

Rows == UNION {Deployments, Builds, Assistants, Threads, States, Runs, CronJobs,
               Executions, Deliveries}

(* The foreign keys: what a row refers to, by its table                    *)
Refers(row, owners) ==
  \/ row \in Deployments /\ owners = {}
  \/ row \in Builds \cup Assistants /\ \E deployment \in Deployments : owners = {deployment}
  \/ row \in Threads \cup CronJobs /\ \E assistant \in Assistants : owners = {assistant}
  \/ row \in States /\ \E thread \in Threads : owners = {thread}
  \/ row \in Runs /\ \E assistant \in Assistants :
       owners = {assistant} \/ \E thread \in Threads : owners = {thread, assistant}
  \/ row \in Executions /\ \E job \in CronJobs, run \in Runs : owners = {job, run}
  \/ row \in Deliveries /\ \E run \in Runs : owners = {run}

Active == {"pending", "running"}

(* A row is of one table, and no run has been created at first             *)
ASSUME OwnershipAssumption ==
  /\ Builds \cap Deployments = {}
  /\ Assistants \cap (Deployments \cup Builds) = {}
  /\ Threads \cap (Deployments \cup Builds \cup Assistants) = {}
  /\ States \cap (Deployments \cup Builds \cup Assistants \cup Threads) = {}
  /\ Runs \cap (Deployments \cup Builds \cup Assistants \cup Threads \cup States) = {}
  /\ CronJobs \cap (Deployments \cup Builds \cup Assistants \cup Threads \cup States \cup Runs) = {}
  /\ (Executions \cup Deliveries) \cap (Deployments \cup Builds \cup Assistants \cup Threads
                                       \cup States \cup Runs \cup CronJobs) = {}
  /\ Executions \cap Deliveries = {}
  /\ ProjectOf \in [Deployments -> Projects]
  /\ FirstRows \subseteq Rows \ Runs
  /\ FirstOwners \in [FirstRows -> SUBSET FirstRows]
  /\ \A row \in FirstRows : Refers(row, FirstOwners[row])
  /\ Strategies \subseteq {"reject", "interrupt", "rollback", "enqueue"}
  /\ Outcomes \subseteq Active \cup {"interrupted", "done"}
  /\ Nobody \notin Handlers \cup Rows
  /\ {MaxRequests, MaxWork} \subseteq Nat

VARIABLES
  live,     \* committed rows
  parents,  \* what each row refers to
  status,   \* column status of runs
  held,     \* runs a worker executes
  ended,    \* runs a worker has recorded the result of
  used,     \* identifiers given out
  req,      \* handlers: operation, the row it names, the owner of a new row, project, strategy
  step,     \* handlers: the next statement, 0 without a request
  added, gone,  \* handlers: rows the transaction has inserted and deleted
  active,   \* handlers: the active run createRun has selected
  alone,    \* history: the request that has been alone since it began, or Nobody
  crowded,  \* history: threads with overlapping creates, an enqueue, or a run that
            \* was active again when its execution ended
  reborn,   \* history: threads whose identifier was used again
  failed,   \* history: the deletion a foreign key refused in the last step, if it was alone
  requests, work

tables == <<live, parents, status, used>>
transaction == <<req, step, added, gone, active>>
history == <<crowded, reborn, requests, work>>
workers == <<held, ended>>
vars == <<tables, workers, transaction, alone, failed, history>>

SimpleCreates == {"createAssistant", "createThread", "createStatelessRun", "createCron",
                  "updateThreadState"}
Deletes == {"deleteRun", "deleteThread", "deleteAssistant", "deleteCron", "deleteDeployment"}

Request(kind, target, owner, project, strategy) ==
  [kind |-> kind, target |-> target, owner |-> owner, project |-> project,
   strategy |-> strategy]
NoRequest == Request("none", Nobody, Nobody, Nobody, "none")

Requests ==
  [kind : SimpleCreates \cup Deletes \cup {"createRun", "none"},
   target : Rows \cup {Nobody}, owner : Rows \cup {Nobody},
   project : Projects \cup {Nobody}, strategy : Strategies \cup {"none"}]

(* A committed row refers to committed rows; what a transaction has written *)
(* is its own                                                              *)
TypeOK ==
  /\ live \subseteq used /\ used \subseteq Rows
  /\ parents \in [Rows -> SUBSET Rows]
  /\ \A row \in live : Refers(row, parents[row]) /\ parents[row] \subseteq live
  /\ status \in [Runs -> {"none", "pending", "running", "interrupted", "done"}]
  /\ held \subseteq Runs /\ ended \subseteq Runs
  /\ req \in [Handlers -> Requests]
  /\ step \in [Handlers -> 0..9]
  /\ added \in [Handlers -> SUBSET Threads]
  /\ gone \in [Handlers -> SUBSET Rows]
  /\ active \in [Handlers -> Runs \cup {Nobody}]
  /\ \A h \in Handlers :
       /\ step[h] = 0 <=> req[h].kind = "none"
       /\ added[h] \cap live = {} /\ gone[h] \subseteq live
       /\ \A other \in Handlers \ {h} :
            gone[h] \cap gone[other] = {} /\ added[h] \cap added[other] = {}
  /\ alone \in Handlers \cup {Nobody}
  /\ crowded \subseteq Threads /\ reborn \subseteq Threads
  /\ failed \in Requests
  /\ requests \in 0..MaxRequests /\ work \in 0..MaxWork

Init ==
  /\ live = FirstRows /\ used = FirstRows
  /\ parents = [row \in Rows |-> IF row \in FirstRows THEN FirstOwners[row] ELSE {}]
  /\ status = [r \in Runs |-> "none"]
  /\ held = {} /\ ended = {}
  /\ req = [h \in Handlers |-> NoRequest]
  /\ step = [h \in Handlers |-> 0]
  /\ added = [h \in Handlers |-> {}]
  /\ gone = [h \in Handlers |-> {}]
  /\ active = [h \in Handlers |-> Nobody]
  /\ alone = Nobody
  /\ crowded = {} /\ reborn = {}
  /\ failed = NoRequest
  /\ requests = 0 /\ work = 0

-----------------------------------------------------------------------------
(* What a statement sees, and what makes it wait or fail                   *)
Seen(h) == (live \cup added[h]) \ gone[h]
Unused(table) == table \ (used \cup UNION {added[h] : h \in Handlers})

Children(rows, table, owners) == {row \in rows \cap table : parents[row] \cap owners # {}}

Owner(row, table) == CHOOSE owner \in table : owner \in parents[row]
Project(row) ==
  LET assistant == IF row \in Assistants THEN row ELSE Owner(row, Assistants)
  IN  ProjectOf[IF row \in Deployments THEN row ELSE Owner(assistant, Deployments)]

(* The scope checks: SELECT EXISTS with joins up to the deployment         *)
InProject(h, row) == row \in Seen(h) /\ Project(row) = req[h].project

Others(h) == Handlers \ {h}
DeletedBy(handlers) == UNION {gone[h] : h \in handlers}
AddedBy(handlers) == UNION {added[h] : h \in handlers}

(* An INSERT waits for whoever deletes a row it refers to, or inserts its  *)
(* own identifier                                                          *)
InsertWaits(h, row, owners) ==
  \/ owners \cap DeletedBy(Others(h)) # {}
  \/ row \in DeletedBy(Others(h)) \cup AddedBy(Others(h))

(* A DELETE waits for whoever has deleted one of its rows or a row that    *)
(* refers to one, or has inserted one that does                            *)
DeleteWaits(h, rows) ==
  \E row \in DeletedBy(Others(h)) \cup AddedBy(Others(h)) :
    row \in rows \/ parents[row] \cap rows # {}

(* ON DELETE CASCADE: states of a thread.  Any other reference refuses     *)
Cascade(h, rows) == Children(Seen(h), States, rows)
Refused(h, rows) == Children(Seen(h), Rows \ States, rows) # {}

Ends(h) ==
  /\ req' = [req EXCEPT ![h] = NoRequest]
  /\ step' = [step EXCEPT ![h] = 0]
  /\ added' = [added EXCEPT ![h] = {}]
  /\ gone' = [gone EXCEPT ![h] = {}]
  /\ active' = [active EXCEPT ![h] = Nobody]
  /\ alone' = IF alone = h THEN Nobody ELSE alone

Continues(h) ==
  /\ step' = [step EXCEPT ![h] = @ + 1]
  /\ failed' = NoRequest
  /\ UNCHANGED <<req, alone, workers, crowded, requests, work>>

(* An error or a refusal: the transaction is rolled back                   *)
RollsBack(h) ==
  /\ Ends(h)
  /\ failed' = NoRequest
  /\ UNCHANGED <<tables, workers, history>>

(* An INSERT of the last statement and the COMMIT                          *)
Inserts(h, row, owners) ==
  /\ live' = live \cup added[h] \cup {row}
  /\ used' = used \cup added[h] \cup {row}
  /\ parents' = [parents EXCEPT ![row] = owners]
  /\ reborn' = reborn \cup (added[h] \cap used)
  /\ Ends(h)
  /\ failed' = NoRequest
  /\ UNCHANGED <<workers, crowded, requests, work>>

-----------------------------------------------------------------------------
(* Requests.  Keys belong to a project; identifiers are known ones, but    *)
(* for the thread of createRun, which the client chooses                   *)
OwnerTable == [createAssistant |-> Deployments, createThread |-> Assistants,
               createStatelessRun |-> Assistants, createCron |-> Assistants,
               updateThreadState |-> Threads]
TargetTable == [deleteRun |-> Runs, deleteThread |-> Threads, deleteAssistant |-> Assistants,
                deleteCron |-> CronJobs, deleteDeployment |-> Deployments]

Creations(kind) ==
  {Request(kind, Nobody, owner, project, "none") :
     owner \in OwnerTable[kind] \cap used, project \in Projects}
Deletions(kind) ==
  {Request(kind, target, Nobody, project, "none") :
     target \in TargetTable[kind] \cap used, project \in Projects}
RunCreations ==
  {Request("createRun", thread, assistant, project, strategy) :
     thread \in Threads, assistant \in Assistants \cap used, project \in Projects,
     strategy \in Strategies}
Asked == RunCreations \cup (UNION {Creations(kind) : kind \in SimpleCreates})
                      \cup (UNION {Deletions(kind) : kind \in Deletes})

Overlaps(h, request) ==
  \/ request.strategy = "enqueue"
  \/ \E other \in Others(h) : req[other].kind = "createRun" /\ req[other].target = request.target

BeginRequest(h) ==
  /\ step[h] = 0 /\ requests < MaxRequests
  /\ requests' = requests + 1
  /\ alone' = IF \A other \in Handlers : step[other] = 0 THEN h ELSE Nobody
  /\ failed' = NoRequest
  /\ \E request \in Asked :
       /\ req' = [req EXCEPT ![h] = request]
       /\ step' = [step EXCEPT ![h] = IF request.kind = "deleteCron" THEN 2 ELSE 1]
       /\ crowded' = IF request.kind = "createRun" /\ Overlaps(h, request)
                     THEN crowded \cup {request.target} ELSE crowded
  /\ UNCHANGED <<tables, workers, added, gone, active, reborn, work>>

(* The client hangs up, the database fails, or it ends a deadlock          *)
Abort(h) == step[h] # 0 /\ RollsBack(h)

-----------------------------------------------------------------------------
(* A scope check, then the INSERT; or the owner is gone by then, and the   *)
(* foreign key refuses                                                     *)
CheckOwner(h) ==
  /\ step[h] = 1
  /\ IF InProject(h, req[h].owner)
     THEN Continues(h) /\ UNCHANGED <<tables, added, gone, active, reborn>>
     ELSE RollsBack(h)

InsertRow(h, table) ==
  /\ step[h] = 2
  /\ \E row \in Unused(table) :
       /\ ~InsertWaits(h, row, {req[h].owner})
       /\ req[h].owner \in live
       /\ Inserts(h, row, {req[h].owner})
       /\ status' = IF row \in Runs THEN [status EXCEPT ![row] = "pending"] ELSE status

InsertRefused(h) == step[h] = 2 /\ req[h].owner \notin live /\ RollsBack(h)

CheckAndInsert(h, table) == CheckOwner(h) \/ InsertRow(h, table) \/ InsertRefused(h)

CreateAssistant(h) == req[h].kind = "createAssistant" /\ CheckAndInsert(h, Assistants)
CreateThread(h) == req[h].kind = "createThread" /\ CheckAndInsert(h, Threads)
CreateStatelessRun(h) == req[h].kind = "createStatelessRun" /\ CheckAndInsert(h, Runs)
CreateCron(h) == req[h].kind = "createCron" /\ CheckAndInsert(h, CronJobs)

(* The state and its transition are inserted in one transaction            *)
UpdateThreadState(h) == req[h].kind = "updateThreadState" /\ CheckAndInsert(h, States)

-----------------------------------------------------------------------------
(* createRun: two scope checks, the thread if it is new, the active run,   *)
(* what the strategy does to it, and the run                               *)
CheckAssistant(h) ==
  /\ req[h].kind = "createRun" /\ step[h] = 1
  /\ IF InProject(h, req[h].owner)
     THEN Continues(h) /\ UNCHANGED <<tables, added, gone, active, reborn>>
     ELSE RollsBack(h)

MutantThreadAllowed(h) == req[h].target \in live
ThreadAllowed(h) == InProject(h, req[h].target)

CheckThread(h) ==
  /\ req[h].kind = "createRun" /\ step[h] = 2
  /\ \/ /\ ThreadAllowed(h)
        /\ step' = [step EXCEPT ![h] = 5]
        /\ failed' = NoRequest
        /\ UNCHANGED <<tables, workers, req, added, gone, active, alone, history>>
     \/ /\ ~ThreadAllowed(h)
        /\ Continues(h)
        /\ UNCHANGED <<tables, added, gone, active, reborn>>

(* Is there such a thread at all?  Then it is of another project           *)
CheckThreadGlobal(h) ==
  /\ req[h].kind = "createRun" /\ step[h] = 3
  /\ IF req[h].target \in live THEN RollsBack(h)
     ELSE Continues(h) /\ UNCHANGED <<tables, added, gone, active, reborn>>

MutantInsertThread(h) ==
  /\ req[h].kind = "createRun" /\ step[h] = 4
  /\ ~InsertWaits(h, req[h].target, {req[h].owner})
  /\ added' = [added EXCEPT ![h] = {req[h].target}]
  /\ parents' = [parents EXCEPT ![req[h].target] = {req[h].owner}]
  /\ Continues(h)
  /\ UNCHANGED <<live, status, used, gone, active, reborn>>

InsertThread(h) ==
  /\ req[h].kind = "createRun" /\ step[h] = 4
  /\ ~InsertWaits(h, req[h].target, {req[h].owner})
  /\ IF req[h].target \notin live /\ req[h].owner \in live
     THEN /\ added' = [added EXCEPT ![h] = {req[h].target}]
          /\ parents' = [parents EXCEPT ![req[h].target] = {req[h].owner}]
          /\ Continues(h)
          /\ UNCHANGED <<live, status, used, gone, active, reborn>>
     ELSE RollsBack(h)

MutantActiveRuns(h) ==
  {r \in Children(live, Runs, {req[h].target}) : status[r] = "pending"}
ActiveRuns(h) ==
  {r \in Children(live, Runs, {req[h].target}) : status[r] \in Active}

(* ORDER BY created_at: clocks of several API servers, so any of them      *)
SelectActiveRun(h) ==
  /\ req[h].kind = "createRun" /\ step[h] = 5
  /\ \/ /\ ActiveRuns(h) # {} /\ req[h].strategy = "reject"
        /\ RollsBack(h)
     \/ /\ ActiveRuns(h) # {} /\ req[h].strategy # "reject"
        /\ \E r \in ActiveRuns(h) : active' = [active EXCEPT ![h] = r]
        /\ Continues(h)
        /\ UNCHANGED <<tables, added, gone, reborn>>
     \/ /\ ActiveRuns(h) = {}
        /\ Continues(h)
        /\ UNCHANGED <<tables, added, gone, active, reborn>>

(* The UPDATE or DELETE of the active run, by id, the INSERT and the COMMIT *)
Replaces(h) == IF req[h].strategy \in {"interrupt", "rollback"} THEN {active[h]} \cap live ELSE {}
RolledBack(h) == IF req[h].strategy = "rollback" THEN Replaces(h) ELSE {}
CommitRunWaits(h) ==
  \/ InsertWaits(h, Nobody, {req[h].target, req[h].owner} \cup Replaces(h))
  \/ DeleteWaits(h, RolledBack(h))
CommitRunFails(h) ==
  \/ ~({req[h].target, req[h].owner} \subseteq Seen(h))
  \/ Refused(h, RolledBack(h))

CommitRun(h) ==
  /\ req[h].kind = "createRun" /\ step[h] = 6
  /\ ~CommitRunWaits(h) /\ ~CommitRunFails(h)
  /\ \E r \in Unused(Runs) :
       /\ live' = ((live \cup added[h]) \ RolledBack(h)) \cup {r}
       /\ used' = used \cup added[h] \cup {r}
       /\ parents' = [parents EXCEPT ![r] = {req[h].target, req[h].owner}]
       /\ status' = [other \in Runs |->
            IF other = r THEN "pending"
            ELSE IF other \in Replaces(h) \ RolledBack(h) THEN "interrupted" ELSE status[other]]
       /\ reborn' = reborn \cup (added[h] \cap used)
  /\ Ends(h)
  /\ failed' = NoRequest
  /\ UNCHANGED <<workers, crowded, requests, work>>

CommitRunRefused(h) ==
  /\ req[h].kind = "createRun" /\ step[h] = 6
  /\ ~CommitRunWaits(h) /\ CommitRunFails(h)
  /\ RollsBack(h)

-----------------------------------------------------------------------------
(* Deletions: for each statement the rows it deletes, after those before it *)
DeletedOf(h, table, owners) == Children(Seen(h), table, owners)

DeleteRunPlan(h) ==
  LET run == {req[h].target}
  IN  <<DeletedOf(h, Deliveries, run), run>>

DeleteThreadPlan(h) ==
  LET thread == {req[h].target}
      runs == DeletedOf(h, Runs, thread)
  IN  <<DeletedOf(h, Deliveries, runs), runs, thread>>

(* What an assistant or several own, in the order of the statements        *)
AssistantsPlan(h, assistants) ==
  LET jobs == DeletedOf(h, CronJobs, assistants)
      runs == DeletedOf(h, Runs, assistants)
  IN  <<DeletedOf(h, Deliveries, runs), DeletedOf(h, Executions, jobs), jobs, runs,
        DeletedOf(h, Threads, assistants), assistants>>

MutantDeleteAssistantPlan(h) ==
  LET plan == AssistantsPlan(h, {req[h].target})
  IN  <<plan[1], plan[3], plan[4], plan[5], plan[6]>>
DeleteAssistantPlan(h) == AssistantsPlan(h, {req[h].target})

DeleteDeploymentPlan(h) ==
  LET deployment == {req[h].target}
  IN  AssistantsPlan(h, DeletedOf(h, Assistants, deployment))
        \o <<DeletedOf(h, Builds, deployment), deployment>>

(* A single statement, which joins up to the deployment                    *)
DeleteCronPlan(h) == <<IF InProject(h, req[h].target) THEN {req[h].target} ELSE {}>>

Plan(h) ==
  IF req[h].kind = "deleteRun" THEN DeleteRunPlan(h)
  ELSE IF req[h].kind = "deleteThread" THEN DeleteThreadPlan(h)
  ELSE IF req[h].kind = "deleteAssistant" THEN DeleteAssistantPlan(h)
  ELSE IF req[h].kind = "deleteDeployment" THEN DeleteDeploymentPlan(h)
  ELSE DeleteCronPlan(h)

CheckTarget(h) ==
  /\ req[h].kind \in Deletes /\ step[h] = 1
  /\ IF InProject(h, req[h].target)
     THEN Continues(h) /\ UNCHANGED <<tables, added, gone, active, reborn>>
     ELSE RollsBack(h)

(* The target may have been deleted since the check: the statement then    *)
(* deletes nothing                                                         *)
Statement(h) == Plan(h)[step[h] - 1] \cap Seen(h)

DeleteRows(h) ==
  /\ req[h].kind \in Deletes /\ step[h] >= 2
  /\ ~DeleteWaits(h, Statement(h)) /\ ~Refused(h, Statement(h))
  /\ LET deleted == gone[h] \cup Statement(h) \cup Cascade(h, Statement(h))
     IN  IF step[h] - 1 < Len(Plan(h))
         THEN /\ gone' = [gone EXCEPT ![h] = deleted]
              /\ Continues(h)
              /\ UNCHANGED <<tables, added, active, reborn>>
         ELSE /\ live' = live \ deleted
              /\ Ends(h)
              /\ failed' = NoRequest
              /\ UNCHANGED <<parents, status, used, workers, history>>

(* The error of any statement but the last is ignored, but Postgres takes  *)
(* none after it, so the last one fails                                    *)
DeleteRefused(h) ==
  /\ req[h].kind \in Deletes /\ step[h] >= 2
  /\ ~DeleteWaits(h, Statement(h)) /\ Refused(h, Statement(h))
  /\ Ends(h)
  /\ failed' = IF alone = h THEN req[h] ELSE NoRequest
  /\ UNCHANGED <<tables, workers, history>>

-----------------------------------------------------------------------------
(* What workers write meanwhile, in steps that take no lock for longer     *)
Works ==
  /\ work < MaxWork /\ work' = work + 1
  /\ alone' = Nobody /\ failed' = NoRequest
  /\ UNCHANGED <<transaction, reborn, requests>>

CreateRunForCron(job) ==
  /\ job \in live
  /\ ({job} \cup parents[job]) \cap DeletedBy(Handlers) = {}
  /\ \E r \in Unused(Runs), x \in Unused(Executions) :
       /\ live' = live \cup {r, x} /\ used' = used \cup {r, x}
       /\ parents' = [parents EXCEPT ![r] = parents[job], ![x] = {job, r}]
       /\ status' = [status EXCEPT ![r] = "pending"]
  /\ Works /\ UNCHANGED <<workers, crowded>>

FetchNextPendingRun(r) ==
  /\ r \in live /\ status[r] = "pending"
  /\ ({r} \cup parents[r]) \cap DeletedBy(Handlers) = {}
  /\ status' = [status EXCEPT ![r] = "running"]
  /\ held' = held \cup {r}
  /\ Works /\ UNCHANGED <<live, parents, used, ended, crowded>>

(* The status the graph has returned, whatever the row says meanwhile      *)
UpdateRunResult(r) ==
  /\ r \in held /\ r \notin DeletedBy(Handlers)
  /\ held' = held \ {r} /\ ended' = ended \cup {r}
  /\ \/ r \notin live /\ UNCHANGED <<status, crowded>>
     \/ /\ r \in live
        /\ \E s \in Outcomes :
             /\ status' = [status EXCEPT ![r] = s]
             /\ crowded' = IF s \in Active /\ status[r] \notin Active
                           THEN crowded \cup (parents[r] \cap Threads) ELSE crowded
  /\ Works /\ UNCHANGED <<live, parents, used>>

RollbackRun(r) ==
  /\ r \in held /\ r \notin DeletedBy(Handlers)
  /\ Children(live, Rows, {r}) = {}
  /\ held' = held \ {r}
  /\ live' = live \ {r}
  /\ Works /\ UNCHANGED <<parents, status, used, ended, crowded>>

EnqueueWebhookForRun(r) ==
  /\ r \in live \cap ended /\ r \notin DeletedBy(Handlers)
  /\ Children(live, Deliveries, {r}) = {}
  /\ \E v \in Unused(Deliveries) :
       /\ live' = live \cup {v} /\ used' = used \cup {v}
       /\ parents' = [parents EXCEPT ![v] = {r}]
  /\ Works /\ UNCHANGED <<status, workers, crowded>>

-----------------------------------------------------------------------------
Create(h) ==
  \/ CreateAssistant(h) \/ CreateThread(h) \/ CreateStatelessRun(h) \/ CreateCron(h)
  \/ UpdateThreadState(h)
  \/ CheckAssistant(h) \/ CheckThread(h) \/ CheckThreadGlobal(h) \/ InsertThread(h)
  \/ SelectActiveRun(h)
  \/ CommitRun(h) \/ CommitRunRefused(h)

Delete(h) == CheckTarget(h) \/ DeleteRows(h) \/ DeleteRefused(h)

Next ==
  \/ \E h \in Handlers : BeginRequest(h) \/ Create(h) \/ Delete(h) \/ Abort(h)
  \/ \E job \in CronJobs : CreateRunForCron(job)
  \/ \E r \in Runs : FetchNextPendingRun(r) \/ UpdateRunResult(r) \/ RollbackRun(r)
                       \/ EnqueueWebhookForRun(r)

Spec == Init /\ [][Next]_vars

-----------------------------------------------------------------------------
HasExecution(row) == Children(live, Executions, {row}) # {}

(* A run of one assistant on a thread of another                           *)
Crossed(assistants) ==
  \E r \in live \cap Runs :
    /\ parents[r] \cap assistants = {}
    /\ parents[r] \cap Children(live, Threads, assistants) # {}

(* A deletion with no other request beside it is refused by a foreign key  *)
(* only in three cases: a run or a job with an execution, which deleteRun  *)
(* and deleteCron leave in place, and an assistant or deployment that has  *)
(* a thread with a run of another assistant.  Whatever else was created,   *)
(* executed or delivered before, its statements find it all and delete it  *)
(* in an order the references allow.                                       *)
LoneDeletionSucceeds ==
  failed # NoRequest =>
    \/ failed.kind \in {"deleteRun", "deleteCron"} /\ HasExecution(failed.target)
    \/ failed.kind = "deleteAssistant" /\ Crossed({failed.target})
    \/ /\ failed.kind = "deleteDeployment"
       /\ Crossed(Children(live, Assistants, {failed.target}))

(* A run and its thread are of one project, although they are checked      *)
(* statements before the run is inserted: unless the thread was deleted    *)
(* and its identifier, which a client chooses, used again.                 *)
OneProject ==
  \A r \in live \cap Runs : \A thread \in (parents[r] \cap Threads) \ reborn :
    Project(thread) = Project(r)

(* Nothing but clients keeps a second active run off a thread: createRun   *)
(* looks for one in a statement of its own.  There are two only after      *)
(* creates on the thread that overlapped, an enqueue, or an execution that *)
(* reports an active status for a run which another one has replaced: the  *)
(* worker writes it without a look at the row.                             *)
SecondActiveNeedsOverlap ==
  \A thread \in Threads \ crowded :
    Cardinality({r \in Children(live, Runs, {thread}) :
                   status[r] \in Active}) <= 1
=============================================================================
