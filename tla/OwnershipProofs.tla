--------------------------- MODULE OwnershipProofs ---------------------------
(***************************************************************************)
(* Proofs about Ownership, for any handlers, rows and requests: the types  *)
(* with the foreign keys and the locks, the project of a run, the active   *)
(* runs on a thread, and what a lone deletion may be refused.              *)
(***************************************************************************)
EXTENDS Ownership, FiniteSetTheorems, SequenceTheorems, TLAPS

-----------------------------------------------------------------------------
(* Tables and foreign keys.                                                *)

\* A row is of one of the tables.
LEMMA RowTables ==
  Rows = Deployments \cup Builds \cup Assistants \cup Threads \cup States \cup Runs
           \cup CronJobs \cup Executions \cup Deliveries
  BY DEF Rows

\* The table a request names by its kind.
LEMMA NamedTables ==
  /\ OwnerTable["createAssistant"] = Deployments
  /\ OwnerTable["createThread"] = Assistants
  /\ OwnerTable["createStatelessRun"] = Assistants
  /\ OwnerTable["createCron"] = Assistants
  /\ OwnerTable["updateThreadState"] = Threads
  /\ TargetTable["deleteRun"] = Runs
  /\ TargetTable["deleteThread"] = Threads
  /\ TargetTable["deleteAssistant"] = Assistants
  /\ TargetTable["deleteCron"] = CronJobs
  /\ TargetTable["deleteDeployment"] = Deployments
  BY DEF OwnerTable, TargetTable

\* By the foreign keys, what refers to a row is of certain tables.
LEMMA Keys ==
  ASSUME NEW row, NEW owners, Refers(row, owners)
  PROVE  /\ row \in Rows /\ owners \subseteq Rows
         /\ owners \cap (Builds \cup States \cup Executions \cup Deliveries) = {}
         /\ owners \cap Deployments # {} => row \in Builds \cup Assistants
         /\ owners \cap Assistants # {} => row \in Threads \cup CronJobs \cup Runs
         /\ owners \cap Threads # {} => row \in States \cup Runs
         /\ owners \cap CronJobs # {} => row \in Executions
         /\ owners \cap Runs # {} => row \in Executions \cup Deliveries
  BY OwnershipAssumption, RowTables DEF Refers

\* And a row refers to what its table says.
LEMMA KeysOf ==
  ASSUME NEW row, NEW owners, Refers(row, owners)
  PROVE  /\ row \in Deployments => owners = {}
         /\ row \in Builds \cup Assistants =>
              \E deployment \in Deployments : owners = {deployment}
         /\ row \in Threads \cup CronJobs => \E assistant \in Assistants : owners = {assistant}
         /\ row \in States => \E thread \in Threads : owners = {thread}
         /\ row \in Runs => \E assistant \in Assistants :
              owners = {assistant} \/ \E thread \in Threads : owners = {thread, assistant}
         /\ row \in Executions => \E job \in CronJobs, run \in Runs : owners = {job, run}
         /\ row \in Deliveries => \E run \in Runs : owners = {run}
  BY OwnershipAssumption DEF Refers

-----------------------------------------------------------------------------
(* The invariants of transactions.                                         *)

\* How far a request of each kind has come, and what its transaction has written.
RequestOf(h) ==
  /\ req[h].kind \in SimpleCreates =>
       step[h] \in 1..2 /\ req[h].owner \in OwnerTable[req[h].kind]
  /\ req[h].kind = "createRun" =>
       /\ step[h] \in 1..6
       /\ req[h].target \in Threads /\ req[h].owner \in Assistants \cap used
       /\ req[h].strategy \in Strategies
  /\ added[h] # {} =>
       /\ req[h].kind = "createRun"
       /\ added[h] = {req[h].target} /\ parents[req[h].target] = {req[h].owner}
  /\ gone[h] # {} => req[h].kind \in Deletes
  /\ req[h].kind \in Deletes => req[h].target \in TargetTable[req[h].kind]
RequestInv == \A h \in Handlers : RequestOf(h)

\* No row that stays refers to one that a transaction has deleted.
LockInv ==
  \A h \in Handlers :
    /\ \A row \in live \ gone[h] : parents[row] \cap gone[h] = {}
    /\ \A other \in Handlers \ {h} : \A row \in added[other] : parents[row] \cap gone[h] = {}

Sound == TypeOK /\ RequestInv /\ LockInv

\* A handler without a request, and one that a step leaves alone.
Ended(h) == /\ req[h] = NoRequest /\ step[h] = 0 /\ added[h] = {} /\ gone[h] = {}
            /\ active[h] = Nobody
Same(h) == UNCHANGED <<req[h], step[h], added[h], gone[h], active[h]>>

TransactionTypes ==
  /\ req \in [Handlers -> Requests]
  /\ step \in [Handlers -> 0..9]
  /\ added \in [Handlers -> SUBSET Threads]
  /\ gone \in [Handlers -> SUBSET Rows]
  /\ active \in [Handlers -> Runs \cup {Nobody}]
  /\ alone \in Handlers \cup {Nobody}

\* No request is a request with the right fields.
LEMMA NoRequestType == NoRequest \in Requests /\ NoRequest.kind = "none"
  BY DEF NoRequest, Request, Requests

\* What may be asked.
LEMMA AskedRequests ==
  ASSUME TypeOK, NEW request \in Asked
  PROVE  /\ request \in Requests
         /\ request.kind \in SimpleCreates \cup Deletes \cup {"createRun"}
         /\ request.kind \in SimpleCreates =>
              request.owner \in OwnerTable[request.kind] \cap used
         /\ request.kind \in Deletes => request.target \in TargetTable[request.kind]
         /\ request.kind = "createRun" =>
              /\ request.target \in Threads /\ request.owner \in Assistants \cap used
              /\ request.strategy \in Strategies
<1>1. used \subseteq Rows /\ Threads \subseteq Rows
  BY RowTables DEF TypeOK
<1>2. SimpleCreates \cap Deletes = {} /\ "createRun" \notin SimpleCreates \cup Deletes
  BY DEF SimpleCreates, Deletes
<1>3. ASSUME NEW kind \in SimpleCreates, NEW owner \in OwnerTable[kind] \cap used,
             NEW project \in Projects, request = Request(kind, Nobody, owner, project, "none")
      PROVE  /\ request \in Requests /\ request.kind = kind /\ request.owner = owner
  BY <1>1, <1>3 DEF Request, Requests
<1>4. ASSUME NEW kind \in Deletes, NEW target \in TargetTable[kind] \cap used,
             NEW project \in Projects, request = Request(kind, target, Nobody, project, "none")
      PROVE  /\ request \in Requests /\ request.kind = kind /\ request.target = target
  BY <1>1, <1>4 DEF Request, Requests
<1>5. ASSUME NEW thread \in Threads, NEW assistant \in Assistants \cap used,
             NEW project \in Projects, NEW strategy \in Strategies,
             request = Request("createRun", thread, assistant, project, strategy)
      PROVE  /\ request \in Requests /\ request.kind = "createRun"
             /\ request.target = thread /\ request.owner = assistant
             /\ request.strategy = strategy
  BY <1>1, <1>5 DEF Request, Requests
<1>6. \/ \E kind \in SimpleCreates : request \in Creations(kind)
      \/ \E kind \in Deletes : request \in Deletions(kind)
      \/ request \in RunCreations
  BY DEF Asked
<1>7. CASE \E kind \in SimpleCreates : request \in Creations(kind)
  <2>1. PICK kind \in SimpleCreates : request \in Creations(kind)
    BY <1>7
  <2>2. request \in Requests /\ request.kind = kind /\ request.owner \in OwnerTable[kind] \cap used
    BY <1>3, <2>1 DEF Creations
  <2> QED
    BY <1>2, <2>2
<1>8. CASE \E kind \in Deletes : request \in Deletions(kind)
  <2>1. PICK kind \in Deletes : request \in Deletions(kind)
    BY <1>8
  <2>2. request \in Requests /\ request.kind = kind /\ request.target \in TargetTable[kind]
    BY <1>4, <2>1 DEF Deletions
  <2> QED
    BY <1>2, <2>2
<1>9. CASE request \in RunCreations
  BY <1>2, <1>5, <1>9 DEF RunCreations
<1> QED
  BY <1>6, <1>7, <1>8, <1>9

\* The end of a request.
LEMMA EndsEffect ==
  ASSUME TypeOK, NEW h \in Handlers, Ends(h)
  PROVE  /\ TransactionTypes' /\ Ended(h)'
         /\ \A o \in Handlers \ {h} : Same(o)
         /\ alone' # h /\ alone' \in {alone, Nobody}
<1>1. Nobody \notin Handlers /\ 0 \in 0..9 /\ NoRequest \in Requests
  BY OwnershipAssumption, NoRequestType
<1>2. /\ req' = [req EXCEPT ![h] = NoRequest]
      /\ step' = [step EXCEPT ![h] = 0]
      /\ added' = [added EXCEPT ![h] = {}]
      /\ gone' = [gone EXCEPT ![h] = {}]
      /\ active' = [active EXCEPT ![h] = Nobody]
      /\ alone' = IF alone = h THEN Nobody ELSE alone
  BY DEF Ends
<1>3. TransactionTypes'
  BY <1>1, <1>2 DEF TypeOK, TransactionTypes
<1>4. Ended(h)' /\ \A o \in Handlers \ {h} : Same(o)
  BY <1>2 DEF TypeOK, Ended, Same
<1> QED
  BY <1>1, <1>2, <1>3, <1>4

\* The next statement of a request.
LEMMA ContinuesEffect ==
  ASSUME TypeOK, NEW h \in Handlers, Continues(h), step[h] <= 8
  PROVE  /\ step' \in [Handlers -> 0..9] /\ step'[h] = step[h] + 1
         /\ \A o \in Handlers \ {h} : step'[o] = step[o]
         /\ UNCHANGED <<req, alone, workers, crowded, requests, work>> /\ failed' = NoRequest
<1>1. step[h] \in 0..9 /\ step[h] + 1 \in 0..9
  BY DEF TypeOK
<1> QED
  BY <1>1 DEF TypeOK, Continues

\* A step that leaves a handler alone leaves its request sound.
LEMMA OthersKeep ==
  ASSUME Sound, NEW o \in Handlers, Same(o), used \subseteq used',
         \A row \in added[o] : parents'[row] = parents[row]
  PROVE  RequestOf(o)'
<1>1. RequestOf(o)
  BY DEF Sound, RequestInv
<1> QED
  BY <1>1 DEF RequestOf, Same

\* A step that writes to no table and at most gives up what a transaction has written.
LEMMA QuietStep ==
  ASSUME Sound, NEW h \in Handlers, UNCHANGED <<live, parents, status, used, workers, reborn>>,
         TransactionTypes', \A o \in Handlers \ {h} : Same(o),
         \/ added'[h] = added[h] /\ gone'[h] = gone[h]
         \/ added'[h] = {} /\ gone'[h] = {},
         step'[h] = 0 <=> req'[h].kind = "none", RequestOf(h)',
         crowded' \subseteq Threads, failed' \in Requests,
         requests' \in 0..MaxRequests, work' \in 0..MaxWork
  PROVE  Sound'
<1>1. TypeOK /\ LockInv
  BY DEF Sound
<1>2. \A o \in Handlers : RequestOf(o)'
  BY OthersKeep
<1>3. \A o \in Handlers \ {h} : /\ req'[o] = req[o] /\ step'[o] = step[o]
                              /\ added'[o] = added[o] /\ gone'[o] = gone[o]
  BY DEF Same
<1>4. \A o \in Handlers : added'[o] \subseteq added[o] /\ gone'[o] \subseteq gone[o]
  BY <1>3
<1>5. \A o \in Handlers : /\ gone'[o] = gone[o] \/ gone'[o] = {}
  BY <1>3
<1>6. LockInv'
  BY <1>1, <1>4, <1>5 DEF LockInv
<1>7. ASSUME NEW o \in Handlers
      PROVE  /\ step'[o] = 0 <=> req'[o].kind = "none"
             /\ added'[o] \cap live' = {} /\ gone'[o] \subseteq live'
             /\ \A other \in Handlers \ {o} :
                  gone'[o] \cap gone'[other] = {} /\ added'[o] \cap added'[other] = {}
  BY <1>1, <1>3, <1>4 DEF TypeOK
<1>8. TypeOK'
  BY <1>1, <1>7 DEF TypeOK, workers, TransactionTypes
<1> QED
  BY <1>2, <1>6, <1>8 DEF Sound, RequestInv
-----------------------------------------------------------------------------
(* The steps that write to no table.                                       *)

\* A handler without a request is as it should be.
LEMMA EndedRequest ==
  ASSUME NEW h, Ended(h)'
  PROVE  RequestOf(h)' /\ (step'[h] = 0 <=> req'[h].kind = "none")
<1>1. "none" \notin SimpleCreates \cup Deletes \cup {"createRun"}
  BY DEF SimpleCreates, Deletes
<1> QED
  BY <1>1, NoRequestType DEF Ended, RequestOf

\* A new request.
LEMMA BeginStep ==
  ASSUME Sound, NEW h \in Handlers, BeginRequest(h)
  PROVE  Sound'
<1>1. TypeOK /\ RequestOf(h)
  BY DEF Sound, RequestInv
<1>2. PICK request \in Asked :
        /\ req' = [req EXCEPT ![h] = request]
        /\ step' = [step EXCEPT ![h] = IF request.kind = "deleteCron" THEN 2 ELSE 1]
        /\ crowded' = IF request.kind = "createRun" /\ Overlaps(h, request)
                      THEN crowded \cup {request.target} ELSE crowded
  BY DEF BeginRequest
<1>3. /\ request \in Requests
      /\ request.kind \in SimpleCreates \cup Deletes \cup {"createRun"}
      /\ request.kind \in SimpleCreates =>
           request.owner \in OwnerTable[request.kind] \cap used
      /\ request.kind = "createRun" =>
           /\ request.target \in Threads /\ request.owner \in Assistants \cap used
           /\ request.strategy \in Strategies
      /\ request.kind \in Deletes => request.target \in TargetTable[request.kind]
  BY <1>1, AskedRequests
<1>4. /\ step[h] = 0 /\ requests < MaxRequests
      /\ requests' = requests + 1 /\ failed' = NoRequest
      /\ alone' \in {h, Nobody}
      /\ UNCHANGED <<tables, workers, added, gone, active, reborn, work>>
  BY DEF BeginRequest
<1>5. req[h].kind = "none" /\ added[h] = {} /\ gone[h] = {}
  BY <1>1, <1>4 DEF TypeOK, RequestOf, Deletes
<1>6. /\ req' \in [Handlers -> Requests] /\ req'[h] = request
      /\ \A o \in Handlers \ {h} : req'[o] = req[o]
  BY <1>1, <1>2, <1>3 DEF TypeOK
<1>7. /\ step' \in [Handlers -> 0..9] /\ step'[h] \in 1..2
      /\ request.kind # "deleteCron" => step'[h] = 1
      /\ \A o \in Handlers \ {h} : step'[o] = step[o]
  <2>1. (IF request.kind = "deleteCron" THEN 2 ELSE 1) \in 0..9
    OBVIOUS
  <2> QED
    BY <1>1, <1>2, <2>1 DEF TypeOK
<1>8. TransactionTypes'
  BY <1>1, <1>4, <1>6, <1>7 DEF TypeOK, TransactionTypes
<1>9. \A o \in Handlers \ {h} : Same(o)
  BY <1>4, <1>6, <1>7 DEF Same
<1>10. step'[h] = 0 <=> req'[h].kind = "none"
  BY <1>3, <1>6, <1>7 DEF SimpleCreates, Deletes
<1>11. RequestOf(h)'
  BY <1>3, <1>4, <1>5, <1>6, <1>7 DEF RequestOf, tables, SimpleCreates
<1>12. crowded' \subseteq Threads
  BY <1>1, <1>2, <1>3 DEF TypeOK
<1>13. requests' \in 0..MaxRequests /\ work' \in 0..MaxWork
  BY <1>1, <1>4, OwnershipAssumption DEF TypeOK
<1>14. UNCHANGED <<live, parents, status, used, workers, reborn>>
  BY <1>4 DEF tables
<1> QED
  BY <1>4, <1>8, <1>9, <1>10, <1>11, <1>12, <1>13, <1>14, NoRequestType, QuietStep

\* A request ends without effect.
LEMMA RollbackStep ==
  ASSUME Sound, NEW h \in Handlers, Ends(h), failed' \in Requests,
         UNCHANGED <<tables, workers, history>>
  PROVE  Sound'
<1>1. TypeOK
  BY DEF Sound
<1>2. TransactionTypes' /\ Ended(h)' /\ \A o \in Handlers \ {h} : Same(o)
  BY <1>1, EndsEffect
<1>3. RequestOf(h)' /\ (step'[h] = 0 <=> req'[h].kind = "none")
  BY <1>2, EndedRequest
<1>4. added'[h] = {} /\ gone'[h] = {}
  BY <1>2 DEF Ended
<1>5. UNCHANGED <<live, parents, status, used, workers, reborn, crowded, requests, work>>
  BY DEF tables, history
<1>6. crowded' \subseteq Threads /\ requests' \in 0..MaxRequests /\ work' \in 0..MaxWork
  BY <1>1, <1>5 DEF TypeOK
<1> QED
  BY <1>2, <1>3, <1>4, <1>5, <1>6, QuietStep

\* A transaction is rolled back.
LEMMA RollsBackStep ==
  ASSUME Sound, NEW h \in Handlers, RollsBack(h)
  PROVE  Sound'
  BY RollbackStep, NoRequestType DEF RollsBack

\* A request goes on to a later statement, and has at most selected a run.
LEMMA Advance ==
  ASSUME Sound, NEW h \in Handlers, step[h] # 0, req[h].kind \in Deletes \/ step'[h] <= 6,
         req[h].kind \in SimpleCreates => step'[h] <= 2,
         step' \in [Handlers -> 0..9], step'[h] # 0,
         \A o \in Handlers \ {h} : step'[o] = step[o] /\ active'[o] = active[o],
         active' \in [Handlers -> Runs \cup {Nobody}], failed' = NoRequest,
         UNCHANGED <<tables, added, gone, reborn>>,
         UNCHANGED <<req, alone, workers, crowded, requests, work>>
  PROVE  Sound'
<1>1. TypeOK /\ RequestOf(h)
  BY DEF Sound, RequestInv
<1>2. TransactionTypes'
  BY <1>1 DEF TypeOK, TransactionTypes
<1>3. \A o \in Handlers \ {h} : Same(o)
  BY DEF Same
<1>4. step'[h] \in 0..9
  OBVIOUS
<1>5. SimpleCreates \cap Deletes = {} /\ "createRun" \notin Deletes
  BY DEF SimpleCreates, Deletes
<1>6. RequestOf(h)'
  BY <1>1, <1>4, <1>5 DEF RequestOf, tables
<1>7. step'[h] = 0 <=> req'[h].kind = "none"
  BY <1>1 DEF TypeOK
<1>8. crowded' \subseteq Threads /\ requests' \in 0..MaxRequests /\ work' \in 0..MaxWork
  BY <1>1 DEF TypeOK
<1>9. UNCHANGED <<live, parents, status, used, workers, reborn>>
  BY DEF tables
<1> QED
  BY <1>2, <1>3, <1>6, <1>7, <1>8, <1>9, NoRequestType, QuietStep

\* What the checks of a request do: the next statement, or the end.
LEMMA CheckStep ==
  ASSUME Sound, NEW h \in Handlers, step[h] # 0,
         step[h] <= 5, req[h].kind \in SimpleCreates => step[h] = 1,
         \/ RollsBack(h)
         \/ Continues(h) /\ UNCHANGED <<tables, added, gone, active, reborn>>
  PROVE  Sound'
<1>1. CASE RollsBack(h)
  BY <1>1, RollsBackStep
<1>2. CASE Continues(h) /\ UNCHANGED <<tables, added, gone, active, reborn>>
  <2>1. TypeOK
    BY DEF Sound
  <2>2. /\ step' \in [Handlers -> 0..9] /\ step'[h] = step[h] + 1
        /\ \A o \in Handlers \ {h} : step'[o] = step[o]
        /\ UNCHANGED <<req, alone, workers, crowded, requests, work>> /\ failed' = NoRequest
    <3>1. step[h] \in 0..9 /\ step[h] <= 8
      BY <2>1 DEF TypeOK
    <3> QED
      BY <1>2, <2>1, <3>1, ContinuesEffect
  <2>3. step[h] \in 0..9 /\ step'[h] # 0 /\ step'[h] <= 6
    BY <2>1, <2>2 DEF TypeOK
  <2>4. req[h].kind \in SimpleCreates => step'[h] <= 2
    BY <2>2
  <2>5. /\ active' \in [Handlers -> Runs \cup {Nobody}]
        /\ \A o \in Handlers \ {h} : step'[o] = step[o] /\ active'[o] = active[o]
        /\ UNCHANGED <<tables, added, gone, reborn>>
    BY <1>2, <2>1, <2>2 DEF TypeOK
  <2> QED
    BY <2>2, <2>3, <2>4, <2>5, Advance
<1> QED
  BY <1>1, <1>2

\* The checks before an INSERT and before a deletion.
LEMMA ChecksStep ==
  ASSUME Sound, NEW h \in Handlers,
         \/ req[h].kind \in SimpleCreates /\ CheckOwner(h)
         \/ CheckAssistant(h) \/ CheckTarget(h)
  PROVE  Sound'
<1>1. step[h] = 1
  BY DEF CheckOwner, CheckAssistant, CheckTarget
<1>2. \/ RollsBack(h)
      \/ Continues(h) /\ UNCHANGED <<tables, added, gone, active, reborn>>
  BY DEF CheckOwner, CheckAssistant, CheckTarget
<1> QED
  BY <1>1, <1>2, CheckStep

\* createRun is no other kind of request.
LEMMA CreateRunKind ==
  "createRun" \notin SimpleCreates \cup Deletes /\ SimpleCreates \cap Deletes = {}
  BY DEF SimpleCreates, Deletes

\* The check of the thread of createRun.
LEMMA CheckThreadStep ==
  ASSUME Sound, NEW h \in Handlers, CheckThread(h)
  PROVE  Sound'
<1>1. /\ TypeOK /\ req[h].kind = "createRun" /\ step[h] = 2
      /\ req[h].kind \notin SimpleCreates
  BY CreateRunKind DEF Sound, CheckThread
<1>2. CASE step' = [step EXCEPT ![h] = 5] /\ failed' = NoRequest
           /\ UNCHANGED <<tables, workers, req, added, gone, active, alone, history>>
  <2>1. /\ step' \in [Handlers -> 0..9] /\ step'[h] = 5
        /\ \A o \in Handlers \ {h} : step'[o] = step[o] /\ active'[o] = active[o]
    BY <1>1, <1>2 DEF TypeOK
  <2>2. /\ UNCHANGED <<tables, added, gone, reborn>>
        /\ UNCHANGED <<req, alone, workers, crowded, requests, work>>
        /\ active' \in [Handlers -> Runs \cup {Nobody}]
    BY <1>1, <1>2 DEF history, TypeOK
  <2> QED
    BY <1>1, <1>2, <2>1, <2>2, Advance
<1>3. CASE \/ RollsBack(h)
           \/ Continues(h) /\ UNCHANGED <<tables, added, gone, active, reborn>>
  BY <1>1, <1>3, CheckStep
<1> QED
  BY <1>2, <1>3 DEF CheckThread

\* The look for the thread in any project.
LEMMA CheckThreadGlobalStep ==
  ASSUME Sound, NEW h \in Handlers, CheckThreadGlobal(h)
  PROVE  Sound'
<1>1. step[h] = 3 /\ req[h].kind \notin SimpleCreates
  BY CreateRunKind DEF CheckThreadGlobal
<1>2. \/ RollsBack(h)
      \/ Continues(h) /\ UNCHANGED <<tables, added, gone, active, reborn>>
  BY DEF CheckThreadGlobal
<1> QED
  BY <1>1, <1>2, CheckStep

\* The choice of the active run.
LEMMA SelectStep ==
  ASSUME Sound, NEW h \in Handlers, SelectActiveRun(h)
  PROVE  Sound'
<1>1. /\ TypeOK /\ req[h].kind = "createRun" /\ step[h] = 5
      /\ req[h].kind \notin SimpleCreates
  BY CreateRunKind DEF Sound, SelectActiveRun
<1>2. ASSUME NEW r \in ActiveRuns(h), active' = [active EXCEPT ![h] = r], Continues(h),
             UNCHANGED <<tables, added, gone, reborn>>
      PROVE  Sound'
  <2>1. r \in Runs
    BY DEF ActiveRuns, Children
  <2>2. /\ active' \in [Handlers -> Runs \cup {Nobody}]
        /\ \A o \in Handlers \ {h} : active'[o] = active[o]
    BY <1>1, <1>2, <2>1 DEF TypeOK
  <2>3. /\ step' \in [Handlers -> 0..9] /\ step'[h] = 6
        /\ \A o \in Handlers \ {h} : step'[o] = step[o]
        /\ UNCHANGED <<req, alone, workers, crowded, requests, work>> /\ failed' = NoRequest
    BY <1>1, <1>2, ContinuesEffect
  <2> QED
    BY <1>1, <1>2, <2>2, <2>3, Advance
<1>3. CASE \/ RollsBack(h)
           \/ Continues(h) /\ UNCHANGED <<tables, added, gone, active, reborn>>
  BY <1>1, <1>3, CheckStep
<1> QED
  BY <1>2, <1>3 DEF SelectActiveRun

-----------------------------------------------------------------------------
(* The steps that insert rows.                                             *)

\* New rows, inserted by a request that ends or by a worker: what they refer to is
\* there, and no transaction has deleted it.
LEMMA Insertion ==
  ASSUME Sound, NEW new \in SUBSET Rows, live' = live \cup new, used' = used \cup new,
         new \cap used = {}, \A o \in Handlers : added[o] \cap new = {},
         parents' \in [Rows -> SUBSET Rows],
         \A row \in Rows \ new : parents'[row] = parents[row],
         \A row \in new : /\ Refers(row, parents'[row]) /\ parents'[row] \subseteq live'
                          /\ \A o \in Handlers : parents'[row] \cap gone[o] = {},
         TransactionTypes', \A o \in Handlers : Same(o) \/ Ended(o)',
         status' \in [Runs -> {"none", "pending", "running", "interrupted", "done"}],
         held' \subseteq Runs /\ ended' \subseteq Runs, crowded' \subseteq Threads, reborn' \subseteq Threads,
         failed' \in Requests, requests' \in 0..MaxRequests, work' \in 0..MaxWork
  PROVE  Sound'
<1>1. TypeOK /\ LockInv
  BY DEF Sound
<1>2. \A row \in live : row \notin new /\ parents'[row] = parents[row]
  BY <1>1 DEF TypeOK
<1>3. \A o \in Handlers : \A row \in added[o] : parents'[row] = parents[row]
  <2>1. \A o \in Handlers : added[o] \subseteq Rows
    BY <1>1, RowTables DEF TypeOK
  <2> QED
    BY <2>1
<1>4. \A o \in Handlers : RequestOf(o)'
  <2>1. ASSUME NEW o \in Handlers, Same(o)
        PROVE  RequestOf(o)'
    BY <1>3, <2>1, OthersKeep
  <2> QED
    BY <2>1, EndedRequest
<1>5. \A o \in Handlers : /\ added'[o] = added[o] \/ added'[o] = {}
                          /\ gone'[o] = gone[o] \/ gone'[o] = {}
                          /\ step'[o] = 0 <=> req'[o].kind = "none"
  <2>1. ASSUME NEW o \in Handlers, Same(o)
        PROVE  /\ added'[o] = added[o] /\ gone'[o] = gone[o]
               /\ step'[o] = 0 <=> req'[o].kind = "none"
    BY <1>1, <2>1 DEF TypeOK, Same
  <2>2. ASSUME NEW o \in Handlers, Ended(o)'
        PROVE  /\ added'[o] = {} /\ gone'[o] = {}
               /\ step'[o] = 0 <=> req'[o].kind = "none"
    BY <2>2, EndedRequest DEF Ended
  <2> QED
    BY <2>1, <2>2
<1>6. \A o \in Handlers : /\ \A row \in live' \ gone[o] : parents'[row] \cap gone[o] = {}
                          /\ \A other \in Handlers \ {o} :
                               \A row \in added[other] : parents'[row] \cap gone[o] = {}
  BY <1>1, <1>2, <1>3 DEF LockInv
<1>7. LockInv'
  BY <1>5, <1>6 DEF LockInv
<1>8. \A row \in live' : Refers(row, parents'[row]) /\ parents'[row] \subseteq live'
  BY <1>1, <1>2 DEF TypeOK
<1>9. live' \subseteq used' /\ used' \subseteq Rows
  BY <1>1 DEF TypeOK
<1>10. ASSUME NEW o \in Handlers
       PROVE  /\ added'[o] \cap live' = {} /\ gone'[o] \subseteq live'
              /\ \A other \in Handlers \ {o} :
                   gone'[o] \cap gone'[other] = {} /\ added'[o] \cap added'[other] = {}
  BY <1>1, <1>5 DEF TypeOK
<1>11. TypeOK'
  BY <1>5, <1>8, <1>9, <1>10 DEF TypeOK, TransactionTypes
<1> QED
  BY <1>4, <1>7, <1>11 DEF Sound, RequestInv

\* The INSERT of a row that refers to one other.
LEMMA InsertRowStep ==
  ASSUME Sound, NEW h \in Handlers, req[h].kind \in SimpleCreates, NEW table \in SUBSET Rows,
         \A row \in table : Refers(row, {req[h].owner}), InsertRow(h, table)
  PROVE  Sound'
<1>1. TypeOK /\ RequestOf(h)
  BY DEF Sound, RequestInv
<1>2. PICK row \in Unused(table) :
        /\ ~InsertWaits(h, row, {req[h].owner}) /\ req[h].owner \in live
        /\ Inserts(h, row, {req[h].owner})
        /\ status' = IF row \in Runs THEN [status EXCEPT ![row] = "pending"] ELSE status
  BY DEF InsertRow
<1>3. added[h] = {} /\ gone[h] = {}
  BY <1>1, CreateRunKind DEF RequestOf
<1>4. row \in table /\ row \in Rows /\ row \notin used /\ \A o \in Handlers : row \notin added[o]
  BY <1>2 DEF Unused
<1>5. TransactionTypes' /\ \A o \in Handlers : Same(o) \/ Ended(o)'
  BY <1>1, <1>2, EndsEffect DEF Inserts
<1>6. /\ live' = live \cup {row} /\ used' = used \cup {row}
      /\ parents' = [parents EXCEPT ![row] = {req[h].owner}]
      /\ reborn' = reborn \cup (added[h] \cap used)
      /\ UNCHANGED <<workers, crowded, requests, work>> /\ failed' = NoRequest
  BY <1>2, <1>3 DEF Inserts
<1>7. req[h].owner \in Rows /\ req[h].owner \in live'
  BY <1>1, <1>2, <1>6 DEF TypeOK
<1>8. /\ parents' \in [Rows -> SUBSET Rows] /\ parents'[row] = {req[h].owner}
      /\ \A other \in Rows \ {row} : parents'[other] = parents[other]
  BY <1>1, <1>4, <1>6, <1>7 DEF TypeOK
<1>9. \A o \in Handlers : req[h].owner \notin gone[o]
  BY <1>2, <1>3 DEF InsertWaits, DeletedBy, Others
<1>10. status' \in [Runs -> {"none", "pending", "running", "interrupted", "done"}]
  BY <1>1, <1>2 DEF TypeOK
<1>11. reborn' \subseteq Threads
  BY <1>1, <1>3, <1>6 DEF TypeOK
<1>12. /\ held' \subseteq Runs /\ ended' \subseteq Runs /\ crowded' \subseteq Threads
       /\ requests' \in 0..MaxRequests /\ work' \in 0..MaxWork
       /\ failed' \in Requests
  BY <1>1, <1>6, NoRequestType DEF TypeOK, workers
<1> DEFINE new == {row}
<1>13. /\ new \in SUBSET Rows /\ live' = live \cup new /\ used' = used \cup new
       /\ new \cap used = {} /\ \A o \in Handlers : added[o] \cap new = {}
       /\ \A other \in Rows \ new : parents'[other] = parents[other]
       /\ \A other \in new : /\ Refers(other, parents'[other]) /\ parents'[other] \subseteq live'
                             /\ \A o \in Handlers : parents'[other] \cap gone[o] = {}
  <2>1. Refers(row, parents'[row])
    BY <1>4, <1>8
  <2>2. parents'[row] \subseteq live' /\ \A o \in Handlers : parents'[row] \cap gone[o] = {}
    BY <1>7, <1>8, <1>9
  <2> QED
    BY <1>4, <1>6, <1>8, <2>1, <2>2
<1> HIDE DEF new
<1> QED
  BY <1>5, <1>8, <1>10, <1>11, <1>12, <1>13, Insertion

\* The simple creates: the check, the INSERT, or the refusal.
LEMMA SimpleCreateStep ==
  ASSUME Sound, NEW h \in Handlers,
         \/ CreateAssistant(h) \/ CreateThread(h) \/ CreateStatelessRun(h) \/ CreateCron(h)
         \/ UpdateThreadState(h)
  PROVE  Sound'
<1>1. RequestOf(h) /\ TypeOK
  BY DEF Sound, RequestInv
<1>2. ASSUME NEW kind \in SimpleCreates, req[h].kind = kind, NEW table \in SUBSET Rows,
             CheckAndInsert(h, table),
             \A row \in table, owner \in OwnerTable[kind] : Refers(row, {owner})
      PROVE  Sound'
  <2>1. req[h].owner \in OwnerTable[kind]
    BY <1>1, <1>2 DEF RequestOf
  <2>2. \A row \in table : Refers(row, {req[h].owner})
    BY <1>2, <2>1
  <2>3. CASE CheckOwner(h)
    BY <1>2, <2>3, ChecksStep
  <2>4. CASE InsertRow(h, table)
    BY <1>2, <2>2, <2>4, InsertRowStep
  <2>5. CASE InsertRefused(h)
    BY <2>5, RollsBackStep DEF InsertRefused
  <2> QED
    BY <1>2, <2>3, <2>4, <2>5 DEF CheckAndInsert
<1>3. /\ Assistants \in SUBSET Rows /\ Threads \in SUBSET Rows /\ Runs \in SUBSET Rows
      /\ CronJobs \in SUBSET Rows /\ States \in SUBSET Rows
  BY RowTables
<1>4. CASE CreateAssistant(h)
  <2>1. "createAssistant" \in SimpleCreates
    BY DEF SimpleCreates
  <2>2. \A row \in Assistants, owner \in OwnerTable["createAssistant"] : Refers(row, {owner})
    BY NamedTables DEF Refers
  <2> QED
    BY <1>2, <1>3, <1>4, <2>1, <2>2 DEF CreateAssistant
<1>5. CASE CreateThread(h)
  <2>1. "createThread" \in SimpleCreates
    BY DEF SimpleCreates
  <2>2. \A row \in Threads, owner \in OwnerTable["createThread"] : Refers(row, {owner})
    BY NamedTables DEF Refers
  <2> QED
    BY <1>2, <1>3, <1>5, <2>1, <2>2 DEF CreateThread
<1>6. CASE CreateStatelessRun(h)
  <2>1. "createStatelessRun" \in SimpleCreates
    BY DEF SimpleCreates
  <2>2. \A row \in Runs, owner \in OwnerTable["createStatelessRun"] : Refers(row, {owner})
    BY NamedTables DEF Refers
  <2> QED
    BY <1>2, <1>3, <1>6, <2>1, <2>2 DEF CreateStatelessRun
<1>7. CASE CreateCron(h)
  <2>1. "createCron" \in SimpleCreates
    BY DEF SimpleCreates
  <2>2. \A row \in CronJobs, owner \in OwnerTable["createCron"] : Refers(row, {owner})
    BY NamedTables DEF Refers
  <2> QED
    BY <1>2, <1>3, <1>7, <2>1, <2>2 DEF CreateCron
<1>8. CASE UpdateThreadState(h)
  <2>1. "updateThreadState" \in SimpleCreates
    BY DEF SimpleCreates
  <2>2. \A row \in States, owner \in OwnerTable["updateThreadState"] : Refers(row, {owner})
    BY NamedTables DEF Refers
  <2> QED
    BY <1>2, <1>3, <1>8, <2>1, <2>2 DEF UpdateThreadState
<1> QED
  BY <1>4, <1>5, <1>6, <1>7, <1>8

\* The INSERT of the thread of createRun, which is not committed yet.
LEMMA InsertThreadStep ==
  ASSUME Sound, NEW h \in Handlers, InsertThread(h)
  PROVE  Sound'
<1>1. /\ TypeOK /\ RequestOf(h) /\ LockInv
      /\ req[h].kind = "createRun" /\ step[h] = 4
      /\ ~InsertWaits(h, req[h].target, {req[h].owner})
  BY DEF Sound, RequestInv, InsertThread
<1>2. CASE RollsBack(h)
  BY <1>2, RollsBackStep
<1>3. ASSUME req[h].target \notin live, req[h].owner \in live,
             added' = [added EXCEPT ![h] = {req[h].target}],
             parents' = [parents EXCEPT ![req[h].target] = {req[h].owner}],
             Continues(h), UNCHANGED <<live, status, used, gone, active, reborn>>
      PROVE  Sound'
  <2> DEFINE thread == req[h].target
             owner == req[h].owner
  <2>1. /\ thread \in Threads /\ owner \in Assistants /\ thread \in Rows /\ owner \in Rows
        /\ thread \notin live /\ owner \in live
    BY <1>1, <1>3, RowTables DEF RequestOf
  <2>2. /\ added' = [added EXCEPT ![h] = {thread}]
        /\ parents' = [parents EXCEPT ![thread] = {owner}]
    BY <1>3
  <2>3. gone[h] = {}
    BY <1>1, CreateRunKind DEF RequestOf
  <2>4. \A o \in Handlers \ {h} : thread \notin added[o] /\ owner \notin gone[o]
    BY <1>1 DEF InsertWaits, DeletedBy, AddedBy, Others
  <2>5. /\ step' \in [Handlers -> 0..9] /\ step'[h] = 5
        /\ \A o \in Handlers \ {h} : step'[o] = step[o]
        /\ UNCHANGED <<req, alone, workers, crowded, requests, work>> /\ failed' = NoRequest
    BY <1>1, <1>3, ContinuesEffect
  <2>6. req'[h].kind = "createRun" /\ req'[h].target = thread /\ req'[h].owner = owner
    BY <1>1, <2>5
  <2> HIDE DEF thread, owner
  <2>7. /\ added' \in [Handlers -> SUBSET Threads] /\ added'[h] = {thread}
        /\ \A o \in Handlers \ {h} : added'[o] = added[o]
    BY <1>1, <2>1, <2>2 DEF TypeOK
  <2>8. /\ parents' \in [Rows -> SUBSET Rows] /\ parents'[thread] = {owner}
        /\ \A row \in Rows \ {thread} : parents'[row] = parents[row]
    BY <1>1, <2>1, <2>2 DEF TypeOK
  <2>9. /\ \A row \in live : parents'[row] = parents[row]
        /\ \A o \in Handlers \ {h} : \A row \in added[o] : parents'[row] = parents[row]
    <3>1. live \subseteq Rows /\ \A o \in Handlers : added[o] \subseteq Rows
      BY <1>1, RowTables DEF TypeOK
    <3> QED
      BY <2>1, <2>4, <2>8, <3>1
  <2>10. UNCHANGED <<live, status, used, gone, active, reborn>>
    BY <1>3
  <2>11. \A o \in Handlers : RequestOf(o)'
    <3>1. RequestOf(h)'
      <4>1. /\ gone'[h] = {} /\ thread \in Threads /\ owner \in Assistants \cap used'
            /\ req'[h].strategy \in Strategies
        BY <1>1, <2>1, <2>3, <2>5, <2>10 DEF TypeOK, RequestOf
      <4> QED
        BY <2>5, <2>6, <2>7, <2>8, <4>1, CreateRunKind DEF RequestOf
    <3>2. ASSUME NEW o \in Handlers \ {h}
          PROVE  RequestOf(o)'
      BY <2>5, <2>7, <2>9, <2>10, <3>2, OthersKeep DEF Same
    <3> QED
      BY <3>1, <3>2
  <2>12. LockInv'
    <3>1. gone' = gone /\ live' = live
      BY <2>10
    <3>2. \A o \in Handlers : \A row \in live \ gone[o] : parents'[row] \cap gone[o] = {}
      BY <1>1, <2>9 DEF LockInv
    <3>3. \A o \in Handlers : \A other \in Handlers \ {o, h} :
            \A row \in added[other] : parents'[row] \cap gone[o] = {}
      BY <1>1, <2>9 DEF LockInv
    <3>4. \A o \in Handlers \ {h} : \A row \in added'[h] : parents'[row] \cap gone[o] = {}
      BY <2>4, <2>7, <2>8
    <3> QED
      BY <2>7, <3>1, <3>2, <3>3, <3>4 DEF LockInv
  <2>13. TypeOK'
    <3>1. \A row \in live' : Refers(row, parents'[row]) /\ parents'[row] \subseteq live'
      BY <1>1, <2>9, <2>10 DEF TypeOK
    <3>2. ASSUME NEW o \in Handlers
          PROVE  /\ step'[o] = 0 <=> req'[o].kind = "none"
                 /\ added'[o] \cap live' = {} /\ gone'[o] \subseteq live'
                 /\ \A other \in Handlers \ {o} :
                      gone'[o] \cap gone'[other] = {} /\ added'[o] \cap added'[other] = {}
      <4>1. step'[o] = 0 <=> req'[o].kind = "none"
        BY <1>1, <2>5, <2>6 DEF TypeOK
      <4>2. added'[o] \cap live' = {} /\ gone'[o] \subseteq live'
        BY <1>1, <2>1, <2>7, <2>10 DEF TypeOK
      <4>3. \A other \in Handlers \ {o} : gone'[o] \cap gone'[other] = {}
        BY <1>1, <2>10 DEF TypeOK
      <4>4. \A other \in Handlers \ {o} : added'[o] \cap added'[other] = {}
        BY <1>1, <2>4, <2>7 DEF TypeOK
      <4> QED
        BY <4>1, <4>2, <4>3, <4>4
    <3> QED
      BY <1>1, <2>5, <2>7, <2>8, <2>10, <3>1, <3>2, NoRequestType DEF TypeOK, workers
  <2> QED
    BY <2>11, <2>12, <2>13 DEF Sound, RequestInv
<1> QED
  BY <1>2, <1>3 DEF InsertThread

\* The last statement of createRun and its COMMIT.
LEMMA CommitRunStep ==
  ASSUME Sound, NEW h \in Handlers, CommitRun(h)
  PROVE  Sound'
<1>1. /\ TypeOK /\ RequestOf(h) /\ LockInv
      /\ req[h].kind = "createRun" /\ step[h] = 6
      /\ ~CommitRunWaits(h) /\ ~CommitRunFails(h)
  BY DEF Sound, RequestInv, CommitRun
<1> DEFINE thread == req[h].target
           owner == req[h].owner
           rolled == RolledBack(h)
<1>2. PICK r \in Unused(Runs) :
        /\ live' = ((live \cup added[h]) \ rolled) \cup {r}
        /\ used' = used \cup added[h] \cup {r}
        /\ parents' = [parents EXCEPT ![r] = {thread, owner}]
        /\ status' = [other \in Runs |->
             IF other = r THEN "pending"
             ELSE IF other \in Replaces(h) \ RolledBack(h) THEN "interrupted" ELSE status[other]]
        /\ reborn' = reborn \cup (added[h] \cap used)
  BY DEF CommitRun
<1>3. /\ thread \in Threads /\ owner \in Assistants /\ gone[h] = {}
      /\ added[h] # {} => added[h] = {thread} /\ parents[thread] = {owner}
  BY <1>1, CreateRunKind DEF RequestOf
<1>4. /\ r \in Runs /\ r \in Rows /\ r \notin used /\ r \notin live
      /\ \A o \in Handlers : r \notin added[o] /\ r \notin gone[o]
  BY <1>1, <1>2, RowTables DEF Unused, TypeOK
<1>5. rolled \subseteq Runs /\ rolled \subseteq live /\ Replaces(h) \subseteq Runs
  <2>1. active[h] \in Runs \cup {Nobody} /\ live \subseteq Rows /\ Nobody \notin Rows
    BY <1>1, OwnershipAssumption DEF TypeOK
  <2> QED
    BY <2>1 DEF RolledBack, Replaces
<1>6. Seen(h) = live \cup added[h]
  BY <1>3 DEF Seen
<1>7. thread \in live \cup added[h] /\ owner \in live \cup added[h]
  BY <1>1, <1>6 DEF CommitRunFails
<1>8. /\ owner \in live /\ owner \notin rolled /\ thread \notin rolled
      /\ owner # thread /\ owner \in Rows /\ thread \in Rows
  BY <1>3, <1>5, <1>7, OwnershipAssumption, RowTables
<1>9. \A o \in Handlers \ {h} : /\ thread \notin gone[o] /\ owner \notin gone[o]
                                /\ rolled \cap gone[o] = {}
  <2>1. \A o \in Handlers \ {h} :
          ({req[h].target, req[h].owner} \cup Replaces(h)) \cap gone[o] = {}
    BY <1>1 DEF CommitRunWaits, InsertWaits, DeletedBy, Others
  <2>2. rolled \subseteq Replaces(h)
    BY DEF RolledBack
  <2> QED
    BY <2>1, <2>2
<1>10. \A row \in live : Refers(row, parents[row]) /\ parents[row] \subseteq live
  BY <1>1 DEF TypeOK
<1>11. \A row \in live \cup added[h] : parents[row] \cap rolled = {}
  <2>1. ASSUME NEW row \in live, parents[row] \cap rolled # {}
        PROVE  FALSE
    <3>1. parents[row] \cap Runs # {} /\ Refers(row, parents[row])
      BY <1>5, <1>10, <2>1
    <3>2. row \in Executions \cup Deliveries
      BY <3>1, Keys
    <3>3. row \in Rows \ States
      BY <3>2, RowTables, OwnershipAssumption
    <3>4. row \in Children(Seen(h), Rows \ States, rolled)
      BY <1>6, <2>1, <3>3 DEF Children
    <3> QED
      BY <1>1, <3>4 DEF CommitRunFails, Refused
  <2>2. ASSUME NEW row \in added[h]
        PROVE  parents[row] \cap rolled = {}
    BY <1>3, <1>8, <2>2
  <2> QED
    BY <2>1, <2>2
<1>12. /\ Ends(h) /\ UNCHANGED <<workers, crowded, requests, work>> /\ failed' = NoRequest
  BY DEF CommitRun
<1>13. TransactionTypes' /\ Ended(h)' /\ \A o \in Handlers \ {h} : Same(o)
  BY <1>1, <1>12, EndsEffect
<1> HIDE DEF thread, owner, rolled
<1>14. /\ parents' \in [Rows -> SUBSET Rows] /\ parents'[r] = {thread, owner}
       /\ \A row \in Rows \ {r} : parents'[row] = parents[row]
  BY <1>1, <1>2, <1>4, <1>8 DEF TypeOK
<1>15. /\ \A o \in Handlers : \A row \in added[o] : parents'[row] = parents[row]
       /\ \A row \in live : parents'[row] = parents[row]
  <2>1. live \subseteq Rows /\ \A o \in Handlers : added[o] \subseteq Rows
    BY <1>1, RowTables DEF TypeOK
  <2> QED
    BY <1>4, <1>14, <2>1
<1>16. \A row \in live' : Refers(row, parents'[row]) /\ parents'[row] \subseteq live'
  <2>1. ASSUME NEW row \in live, row \notin rolled
        PROVE  Refers(row, parents'[row]) /\ parents'[row] \subseteq live'
    BY <1>2, <1>10, <1>11, <1>15, <2>1
  <2>2. ASSUME NEW row \in added[h]
        PROVE  Refers(row, parents'[row]) /\ parents'[row] \subseteq live'
    <3>1. row = thread /\ parents'[row] = {owner}
      BY <1>3, <1>15, <2>2
    <3>2. Refers(thread, {owner})
      BY <1>3 DEF Refers
    <3> QED
      BY <1>2, <1>8, <3>1, <3>2
  <2>3. Refers(r, parents'[r]) /\ parents'[r] \subseteq live'
    <3>1. Refers(r, {thread, owner})
      BY <1>3, <1>4 DEF Refers
    <3> QED
      BY <1>2, <1>7, <1>8, <1>14, <3>1
  <2> QED
    BY <1>2, <2>1, <2>2, <2>3
<1>17. /\ added'[h] = {} /\ gone'[h] = {}
       /\ \A o \in Handlers \ {h} : added'[o] = added[o] /\ gone'[o] = gone[o]
       /\ \A o \in Handlers : step'[o] = 0 <=> req'[o].kind = "none"
  <2>1. added'[h] = {} /\ gone'[h] = {} /\ (step'[h] = 0 <=> req'[h].kind = "none")
    BY <1>13, EndedRequest DEF Ended
  <2>2. \A o \in Handlers \ {h} : /\ added'[o] = added[o] /\ gone'[o] = gone[o]
                                  /\ step'[o] = 0 <=> req'[o].kind = "none"
    BY <1>1, <1>13 DEF Same, TypeOK
  <2> QED
    BY <2>1, <2>2
<1>18. ASSUME NEW o \in Handlers
       PROVE  /\ added'[o] \cap live' = {} /\ gone'[o] \subseteq live'
              /\ \A other \in Handlers \ {o} :
                   gone'[o] \cap gone'[other] = {} /\ added'[o] \cap added'[other] = {}
  <2>1. ASSUME o # h
        PROVE  added[o] \cap live' = {} /\ gone[o] \subseteq live'
    BY <1>1, <1>2, <1>4, <1>9, <2>1 DEF TypeOK
  <2>2. \A other \in Handlers \ {o} :
          gone[o] \cap gone[other] = {} /\ added[o] \cap added[other] = {}
    BY <1>1 DEF TypeOK
  <2> QED
    BY <1>17, <2>1, <2>2
<1>19. status' \in [Runs -> {"none", "pending", "running", "interrupted", "done"}]
  BY <1>1, <1>2 DEF TypeOK
<1>20. live' \subseteq used' /\ used' \subseteq Rows /\ reborn' \subseteq Threads
  <2>1. added[h] \subseteq Threads /\ Threads \subseteq Rows
    BY <1>1, RowTables DEF TypeOK
  <2> QED
    BY <1>1, <1>2, <1>4, <2>1 DEF TypeOK
<1>21. TypeOK'
  BY <1>1, <1>12, <1>13, <1>14, <1>16, <1>17, <1>18, <1>19, <1>20, NoRequestType
     DEF TypeOK, workers, TransactionTypes
<1>22. \A o \in Handlers : RequestOf(o)'
  <2>1. used \subseteq used'
    BY <1>2
  <2> QED
    BY <1>13, <1>15, <2>1, OthersKeep, EndedRequest
<1>23. LockInv'
  <2>1. ASSUME NEW o \in Handlers \ {h}, NEW row \in live' \ gone[o]
        PROVE  parents'[row] \cap gone[o] = {}
    <3>1. CASE row \in live
      BY <1>1, <1>15, <2>1, <3>1 DEF LockInv
    <3>2. CASE row \in added[h]
      BY <1>1, <1>15, <3>2 DEF LockInv
    <3>3. CASE row = r
      BY <1>9, <1>14, <3>3
    <3> QED
      BY <1>2, <3>1, <3>2, <3>3
  <2>2. ASSUME NEW o \in Handlers, NEW other \in Handlers \ {o}, NEW row \in added[other]
        PROVE  parents'[row] \cap gone[o] = {}
    BY <1>1, <1>15 DEF LockInv
  <2> QED
    BY <1>17, <2>1, <2>2 DEF LockInv
<1> QED
  BY <1>21, <1>22, <1>23 DEF Sound, RequestInv

-----------------------------------------------------------------------------
(* The steps that delete rows.                                             *)

\* No plan has more than eight statements.
LEMMA PlanLength ==
  ASSUME NEW h
  PROVE  Len(Plan(h)) \in 1..8
<1>1. Len(DeleteRunPlan(h)) = 2 /\ Len(DeleteThreadPlan(h)) = 3 /\ Len(DeleteCronPlan(h)) = 1
  BY DEF DeleteRunPlan, DeleteThreadPlan, DeleteCronPlan
<1>2. ASSUME NEW assistants
      PROVE  Len(AssistantsPlan(h, assistants)) = 6
  BY DEF AssistantsPlan
<1>3. Len(DeleteDeploymentPlan(h)) = 8
  BY DEF AssistantsPlan, DeleteDeploymentPlan
<1> QED
  BY <1>1, <1>2, <1>3 DEF Plan, DeleteAssistantPlan

\* What a transaction has deleted after a statement.
Deleted(h, rows) == gone[h] \cup rows \cup Cascade(h, rows)

\* What a statement deletes is there and not deleted yet; what stays does not refer
\* to it, and nobody else has deleted it or inserted what refers to it.
LEMMA StatementEffect ==
  ASSUME Sound, NEW h \in Handlers, req[h].kind \in Deletes, NEW rows, rows \subseteq Seen(h),
         ~DeleteWaits(h, rows), ~Refused(h, rows)
  PROVE  /\ added[h] = {} /\ Deleted(h, rows) \subseteq live
         /\ \A row \in live \ Deleted(h, rows) : parents[row] \cap Deleted(h, rows) = {}
         /\ \A other \in Handlers \ {h} :
              /\ gone[other] \cap Deleted(h, rows) = {}
              /\ \A row \in added[other] : parents[row] \cap Deleted(h, rows) = {}
<1> DEFINE deleted == gone[h] \cup rows \cup Cascade(h, rows)
<1>1. TypeOK /\ LockInv /\ \A o \in Handlers : RequestOf(o)
  BY DEF Sound, RequestInv
<1>2. added[h] = {}
  BY <1>1, CreateRunKind DEF RequestOf
<1>3. Seen(h) = live \ gone[h] /\ gone[h] \subseteq live
  BY <1>1, <1>2 DEF Seen, TypeOK
<1>4. Cascade(h, rows) = {row \in (live \ gone[h]) \cap States : parents[row] \cap rows # {}}
  BY <1>3 DEF Cascade, Children
<1>5. \A row \in live : row \in Rows /\ Refers(row, parents[row])
  BY <1>1 DEF TypeOK
<1>6. \A row \in live \ gone[h] : row \in States \/ parents[row] \cap rows = {}
  BY <1>3, <1>5 DEF Refused, Children
<1>7. \A row \in live : parents[row] \cap States = {}
  BY <1>5, Keys
<1>8. \A other \in Handlers \ {h} : \A row \in gone[other] \cup added[other] :
        row \notin rows /\ parents[row] \cap rows = {}
  BY DEF DeleteWaits, DeletedBy, AddedBy, Others
<1>9. deleted \subseteq live
  BY <1>3, <1>4
<1>10. \A row \in live \ deleted : parents[row] \cap deleted = {}
  <2>1. \A row \in live \ gone[h] : parents[row] \cap gone[h] = {}
    BY <1>1 DEF LockInv
  <2> QED
    BY <1>4, <1>6, <1>7, <2>1
<1>11. ASSUME NEW other \in Handlers \ {h}
       PROVE  gone[other] \cap deleted = {}
  <2>1. gone[other] \cap gone[h] = {}
    BY <1>1 DEF TypeOK
  <2>2. gone[other] \cap Cascade(h, rows) = {}
    BY <1>4, <1>8
  <2> QED
    BY <1>8, <2>1, <2>2
<1>12. ASSUME NEW other \in Handlers \ {h}, NEW row \in added[other]
       PROVE  parents[row] \cap deleted = {}
  <2>1. parents[row] \cap gone[h] = {}
    BY <1>1 DEF LockInv
  <2>2. parents[row] \cap rows = {}
    BY <1>8
  <2>3. parents[row] \cap States = {}
    <3>1. parents[row] \subseteq Assistants
      BY <1>1 DEF RequestOf
    <3> QED
      BY <3>1, OwnershipAssumption
  <2> QED
    BY <1>4, <2>1, <2>2, <2>3
<1>13. Deleted(h, rows) = deleted
  BY DEF Deleted
<1> HIDE DEF deleted
<1> QED
  BY <1>2, <1>9, <1>10, <1>11, <1>12, <1>13

\* A statement of a deletion, and the COMMIT of the last one.
LEMMA DeleteRowsStep ==
  ASSUME Sound, NEW h \in Handlers, DeleteRows(h)
  PROVE  Sound'
<1> DEFINE rows == Statement(h)
           deleted == Deleted(h, rows)
<1>1. /\ TypeOK /\ LockInv /\ RequestOf(h)
      /\ req[h].kind \in Deletes /\ step[h] >= 2
      /\ ~DeleteWaits(h, rows) /\ ~Refused(h, rows) /\ rows \subseteq Seen(h)
  BY DEF Sound, RequestInv, DeleteRows, Statement
<1>2. /\ added[h] = {} /\ deleted \subseteq live
      /\ \A row \in live \ deleted : parents[row] \cap deleted = {}
      /\ \A other \in Handlers \ {h} :
           /\ gone[other] \cap deleted = {}
           /\ \A row \in added[other] : parents[row] \cap deleted = {}
  BY <1>1, StatementEffect
<1>3. \/ /\ step[h] - 1 < Len(Plan(h))
         /\ gone' = [gone EXCEPT ![h] = deleted]
         /\ Continues(h)
         /\ UNCHANGED <<tables, added, active, reborn>>
      \/ /\ live' = live \ deleted
         /\ Ends(h)
         /\ failed' = NoRequest
         /\ UNCHANGED <<parents, status, used, workers, history>>
  BY DEF DeleteRows, Deleted
<1> HIDE DEF rows, deleted
<1>4. ASSUME step[h] - 1 < Len(Plan(h)), gone' = [gone EXCEPT ![h] = deleted],
             Continues(h), UNCHANGED <<tables, added, active, reborn>>
      PROVE  Sound'
  <2>1. step[h] \in 0..9 /\ step[h] <= 8
    <3>1. Len(Plan(h)) \in 1..8 /\ step[h] \in 0..9
      BY <1>1, PlanLength DEF TypeOK
    <3>2. PICK n \in 1..8 : n = Len(Plan(h))
      BY <3>1
    <3>3. step[h] - 1 < n
      BY <1>4, <3>2
    <3> QED
      BY <3>1, <3>3
  <2>2. /\ step' \in [Handlers -> 0..9] /\ step'[h] = step[h] + 1
        /\ \A o \in Handlers \ {h} : step'[o] = step[o]
        /\ UNCHANGED <<req, alone, workers, crowded, requests, work>> /\ failed' = NoRequest
    BY <1>1, <1>4, <2>1, ContinuesEffect
  <2>3. UNCHANGED <<live, parents, status, used, added, active, reborn>>
    BY <1>4 DEF tables
  <2>4. /\ gone' \in [Handlers -> SUBSET Rows] /\ gone'[h] = deleted
        /\ \A o \in Handlers \ {h} : gone'[o] = gone[o]
    <3>1. deleted \in SUBSET Rows
      BY <1>1, <1>2 DEF TypeOK
    <3> QED
      BY <1>1, <1>4, <3>1 DEF TypeOK
  <2>5. TypeOK'
    <3>1. \A row \in live' : Refers(row, parents'[row]) /\ parents'[row] \subseteq live'
      BY <1>1, <2>3 DEF TypeOK
    <3>2. ASSUME NEW o \in Handlers
          PROVE  /\ step'[o] = 0 <=> req'[o].kind = "none"
                 /\ added'[o] \cap live' = {} /\ gone'[o] \subseteq live'
                 /\ \A other \in Handlers \ {o} :
                      gone'[o] \cap gone'[other] = {} /\ added'[o] \cap added'[other] = {}
      <4>1. step'[o] = 0 <=> req'[o].kind = "none"
        BY <1>1, <2>1, <2>2 DEF TypeOK
      <4>2. added'[o] \cap live' = {} /\ gone'[o] \subseteq live'
        BY <1>1, <1>2, <2>3, <2>4 DEF TypeOK
      <4>3. \A other \in Handlers \ {o} : gone'[o] \cap gone'[other] = {}
        BY <1>1, <1>2, <2>4 DEF TypeOK
      <4>4. \A other \in Handlers \ {o} : added'[o] \cap added'[other] = {}
        BY <1>1, <2>3 DEF TypeOK
      <4> QED
        BY <4>1, <4>2, <4>3, <4>4
    <3> QED
      BY <1>1, <2>2, <2>3, <2>4, <3>1, <3>2, NoRequestType DEF TypeOK, workers
  <2>6. LockInv'
    BY <1>1, <1>2, <2>3, <2>4 DEF LockInv
  <2>7. \A o \in Handlers : RequestOf(o)'
    <3>1. RequestOf(h)'
      BY <1>1, <1>2, <2>2, <2>3, CreateRunKind DEF RequestOf
    <3>2. ASSUME NEW o \in Handlers \ {h}
          PROVE  RequestOf(o)'
      BY <2>2, <2>3, <2>4, <3>2, OthersKeep DEF Same
    <3> QED
      BY <3>1, <3>2
  <2> QED
    BY <2>5, <2>6, <2>7 DEF Sound, RequestInv
<1>5. ASSUME live' = live \ deleted, Ends(h), failed' = NoRequest,
             UNCHANGED <<parents, status, used, workers, history>>
      PROVE  Sound'
  <2>1. TransactionTypes' /\ Ended(h)' /\ \A o \in Handlers \ {h} : Same(o)
    BY <1>1, <1>5, EndsEffect
  <2>2. UNCHANGED <<parents, status, used, workers, crowded, reborn, requests, work>>
    BY <1>5 DEF history
  <2>3. /\ added'[h] = {} /\ gone'[h] = {}
        /\ \A o \in Handlers \ {h} : added'[o] = added[o] /\ gone'[o] = gone[o]
        /\ \A o \in Handlers : step'[o] = 0 <=> req'[o].kind = "none"
    <3>1. added'[h] = {} /\ gone'[h] = {} /\ (step'[h] = 0 <=> req'[h].kind = "none")
      BY <2>1, EndedRequest DEF Ended
    <3>2. \A o \in Handlers \ {h} : /\ added'[o] = added[o] /\ gone'[o] = gone[o]
                                    /\ step'[o] = 0 <=> req'[o].kind = "none"
      BY <1>1, <2>1 DEF Same, TypeOK
    <3> QED
      BY <3>1, <3>2
  <2>4. TypeOK'
    <3>1. \A row \in live' : Refers(row, parents'[row]) /\ parents'[row] \subseteq live'
      BY <1>1, <1>2, <1>5, <2>2 DEF TypeOK
    <3>2. ASSUME NEW o \in Handlers
          PROVE  /\ added'[o] \cap live' = {} /\ gone'[o] \subseteq live'
                 /\ \A other \in Handlers \ {o} :
                      gone'[o] \cap gone'[other] = {} /\ added'[o] \cap added'[other] = {}
      <4>1. added'[o] \cap live' = {} /\ gone'[o] \subseteq live'
        BY <1>1, <1>2, <1>5, <2>3 DEF TypeOK
      <4>2. \A other \in Handlers \ {o} :
              gone'[o] \cap gone'[other] = {} /\ added'[o] \cap added'[other] = {}
        BY <1>1, <2>3 DEF TypeOK
      <4> QED
        BY <4>1, <4>2
    <3>3. live' \subseteq used'
      BY <1>1, <1>5, <2>2 DEF TypeOK
    <3> QED
      BY <1>1, <1>5, <2>1, <2>2, <2>3, <3>1, <3>2, <3>3, NoRequestType
         DEF TypeOK, workers, TransactionTypes
  <2>5. LockInv'
    BY <1>1, <1>5, <2>2, <2>3 DEF LockInv
  <2>6. \A o \in Handlers : RequestOf(o)'
    BY <2>1, <2>2, OthersKeep, EndedRequest
  <2> QED
    BY <2>4, <2>5, <2>6 DEF Sound, RequestInv
<1> QED
  BY <1>3, <1>4, <1>5

\* The last statement of a deletion finds a row that refers to what is deleted.
LEMMA DeleteRefusedStep ==
  ASSUME Sound, NEW h \in Handlers, DeleteRefused(h)
  PROVE  Sound'
<1>1. req[h] \in Requests
  BY DEF Sound, TypeOK
<1>2. failed' \in Requests /\ Ends(h) /\ UNCHANGED <<tables, workers, history>>
  BY <1>1, NoRequestType DEF DeleteRefused
<1> QED
  BY <1>2, RollbackStep

-----------------------------------------------------------------------------
(* The steps of workers.                                                   *)

\* What all steps of workers leave as it is.
LEMMA WorksEffect ==
  ASSUME Sound, Works
  PROVE  /\ TransactionTypes' /\ \A o \in Handlers : Same(o)
         /\ UNCHANGED <<req, step, added, gone, active, reborn, requests>>
         /\ failed' \in Requests /\ reborn' \subseteq Threads
         /\ requests' \in 0..MaxRequests /\ work' \in 0..MaxWork
<1>1. TypeOK
  BY DEF Sound
<1>2. /\ UNCHANGED <<req, step, added, gone, active, reborn, requests>>
      /\ failed' = NoRequest /\ alone' = Nobody /\ work < MaxWork /\ work' = work + 1
  BY DEF Works, transaction
<1>3. work' \in 0..MaxWork
  BY <1>1, <1>2, OwnershipAssumption DEF TypeOK
<1>4. TransactionTypes' /\ \A o \in Handlers : Same(o)
  BY <1>1, <1>2 DEF TypeOK, TransactionTypes, Same
<1> QED
  BY <1>1, <1>2, <1>3, <1>4, NoRequestType DEF TypeOK

\* The dispatch of a cron job inserts a run and an execution.
LEMMA CreateRunForCronStep ==
  ASSUME Sound, NEW job \in CronJobs, CreateRunForCron(job)
  PROVE  Sound'
<1>1. TypeOK /\ Works
  BY DEF Sound, CreateRunForCron
<1>2. PICK r \in Unused(Runs), x \in Unused(Executions) :
        /\ live' = live \cup {r, x} /\ used' = used \cup {r, x}
        /\ parents' = [parents EXCEPT ![r] = parents[job], ![x] = {job, r}]
        /\ status' = [status EXCEPT ![r] = "pending"]
  BY DEF CreateRunForCron
<1>3. /\ job \in live /\ UNCHANGED <<workers, crowded>>
      /\ \A o \in Handlers : ({job} \cup parents[job]) \cap gone[o] = {}
  BY DEF CreateRunForCron, DeletedBy
<1>4. /\ r \in Runs /\ x \in Executions /\ r \in Rows /\ x \in Rows /\ r # x
      /\ job \in Rows
      /\ r \notin used /\ x \notin used
      /\ \A o \in Handlers : r \notin added[o] /\ x \notin added[o]
  BY <1>2, RowTables, OwnershipAssumption DEF Unused
<1>5. /\ Refers(job, parents[job]) /\ parents[job] \subseteq live
      /\ parents[job] \in SUBSET Rows
  BY <1>1, <1>3, <1>4 DEF TypeOK
<1>6. PICK assistant \in Assistants : parents[job] = {assistant}
  BY <1>5, KeysOf
<1>7. Refers(r, parents[job]) /\ Refers(x, {job, r})
  BY <1>4, <1>6 DEF Refers
<1>8. /\ parents' \in [Rows -> SUBSET Rows]
      /\ parents'[r] = parents[job] /\ parents'[x] = {job, r}
      /\ \A row \in Rows \ {r, x} : parents'[row] = parents[row]
  BY <1>1, <1>2, <1>4, <1>5 DEF TypeOK
<1>9. \A o \in Handlers : r \notin gone[o] /\ x \notin gone[o]
  BY <1>1, <1>4 DEF TypeOK
<1> DEFINE new == {r, x}
<1>10. /\ new \in SUBSET Rows /\ live' = live \cup new /\ used' = used \cup new
       /\ new \cap used = {} /\ \A o \in Handlers : added[o] \cap new = {}
       /\ \A row \in Rows \ new : parents'[row] = parents[row]
  BY <1>2, <1>4, <1>8
<1>11. \A row \in new : /\ Refers(row, parents'[row]) /\ parents'[row] \subseteq live'
                        /\ \A o \in Handlers : parents'[row] \cap gone[o] = {}
  BY <1>2, <1>3, <1>5, <1>7, <1>8, <1>9
<1>12. status' \in [Runs -> {"none", "pending", "running", "interrupted", "done"}]
  BY <1>1, <1>2 DEF TypeOK
<1>13. held' \subseteq Runs /\ ended' \subseteq Runs /\ crowded' \subseteq Threads
  BY <1>1, <1>3 DEF TypeOK, workers
<1> HIDE DEF new
<1> QED
  BY <1>1, <1>8, <1>10, <1>11, <1>12, <1>13, WorksEffect, Insertion

\* A worker writes a status.
LEMMA StatusStep ==
  ASSUME Sound, Works, UNCHANGED <<live, parents, used>>,
         held' \subseteq Runs /\ ended' \subseteq Runs, crowded' \subseteq Threads,
         status' \in [Runs -> {"none", "pending", "running", "interrupted", "done"}]
  PROVE  Sound'
<1> DEFINE new == {}
<1>1. /\ new \in SUBSET Rows /\ live' = live \cup new /\ used' = used \cup new
      /\ new \cap used = {} /\ \A o \in Handlers : added[o] \cap new = {}
      /\ \A row \in Rows \ new : parents'[row] = parents[row]
      /\ \A row \in new : /\ Refers(row, parents'[row]) /\ parents'[row] \subseteq live'
                          /\ \A o \in Handlers : parents'[row] \cap gone[o] = {}
  OBVIOUS
<1>2. parents' \in [Rows -> SUBSET Rows]
  BY DEF Sound, TypeOK
<1> HIDE DEF new
<1> QED
  BY <1>1, <1>2, WorksEffect, Insertion

\* The rollback of an executed run, to which nothing refers.
LEMMA RollbackRunStep ==
  ASSUME Sound, NEW r \in Runs, RollbackRun(r)
  PROVE  Sound'
<1>1. /\ TypeOK /\ LockInv /\ Works
      /\ r \in held /\ \A o \in Handlers : r \notin gone[o]
      /\ held' = held \ {r} /\ live' = live \ {r}
      /\ UNCHANGED <<parents, status, used, ended, crowded>>
  BY DEF Sound, RollbackRun, DeletedBy
<1>2. \A row \in live : r \notin parents[row]
  BY <1>1 DEF RollbackRun, Children, TypeOK
<1>3. /\ UNCHANGED <<req, step, added, gone, active>> /\ TransactionTypes'
      /\ \A o \in Handlers : Same(o)
  BY <1>1, WorksEffect
<1>4. \A o \in Handlers : RequestOf(o)'
  BY <1>1, <1>3, OthersKeep
<1>5. LockInv'
  BY <1>1, <1>3 DEF LockInv
<1>6. TypeOK'
  <2>1. \A row \in live' : Refers(row, parents'[row]) /\ parents'[row] \subseteq live'
    BY <1>1, <1>2 DEF TypeOK
  <2>2. ASSUME NEW o \in Handlers
        PROVE  /\ step'[o] = 0 <=> req'[o].kind = "none"
               /\ added'[o] \cap live' = {} /\ gone'[o] \subseteq live'
               /\ \A other \in Handlers \ {o} :
                    gone'[o] \cap gone'[other] = {} /\ added'[o] \cap added'[other] = {}
    BY <1>1, <1>3 DEF TypeOK
  <2>3. live' \subseteq used' /\ used' \subseteq Rows /\ held' \subseteq Runs /\ ended' \subseteq Runs
    BY <1>1 DEF TypeOK
  <2> QED
    BY <1>1, <1>3, <2>1, <2>2, <2>3, WorksEffect DEF TypeOK, TransactionTypes
<1> QED
  BY <1>4, <1>5, <1>6 DEF Sound, RequestInv

\* The INSERT of a delivery.
LEMMA EnqueueStep ==
  ASSUME Sound, NEW r \in Runs, EnqueueWebhookForRun(r)
  PROVE  Sound'
<1>1. /\ TypeOK /\ Works /\ r \in live /\ \A o \in Handlers : r \notin gone[o]
      /\ UNCHANGED <<status, workers, crowded>>
  BY DEF Sound, EnqueueWebhookForRun, DeletedBy
<1>2. PICK v \in Unused(Deliveries) :
        /\ live' = live \cup {v} /\ used' = used \cup {v}
        /\ parents' = [parents EXCEPT ![v] = {r}]
  BY DEF EnqueueWebhookForRun
<1>3. /\ v \in Deliveries /\ v \in Rows /\ r \in Rows /\ v \notin used
      /\ \A o \in Handlers : v \notin added[o]
  BY <1>2, RowTables DEF Unused
<1>4. Refers(v, {r})
  BY <1>3 DEF Refers
<1>5. /\ parents' \in [Rows -> SUBSET Rows] /\ parents'[v] = {r}
      /\ \A row \in Rows \ {v} : parents'[row] = parents[row]
  BY <1>1, <1>2, <1>3 DEF TypeOK
<1> DEFINE new == {v}
<1>6. /\ new \in SUBSET Rows /\ live' = live \cup new /\ used' = used \cup new
      /\ new \cap used = {} /\ \A o \in Handlers : added[o] \cap new = {}
      /\ \A row \in Rows \ new : parents'[row] = parents[row]
  BY <1>2, <1>3, <1>5
<1>7. \A row \in new : /\ Refers(row, parents'[row]) /\ parents'[row] \subseteq live'
                       /\ \A o \in Handlers : parents'[row] \cap gone[o] = {}
  BY <1>1, <1>2, <1>4, <1>5
<1>8. /\ status' \in [Runs -> {"none", "pending", "running", "interrupted", "done"}]
      /\ held' \subseteq Runs /\ ended' \subseteq Runs /\ crowded' \subseteq Threads
  BY <1>1 DEF TypeOK, workers
<1> HIDE DEF new
<1> QED
  BY <1>1, <1>5, <1>6, <1>7, <1>8, WorksEffect, Insertion

\* The steps of workers.
LEMMA WorkerStep ==
  ASSUME Sound,
         \/ \E job \in CronJobs : CreateRunForCron(job)
         \/ \E r \in Runs : FetchNextPendingRun(r) \/ UpdateRunResult(r) \/ RollbackRun(r)
                              \/ EnqueueWebhookForRun(r)
  PROVE  Sound'
<1>1. TypeOK
  BY DEF Sound
<1>2. ASSUME NEW r \in Runs, FetchNextPendingRun(r)
      PROVE  Sound'
  <2>1. /\ status' \in [Runs -> {"none", "pending", "running", "interrupted", "done"}]
        /\ held' \subseteq Runs /\ ended' \subseteq Runs /\ crowded' \subseteq Threads
    BY <1>1, <1>2 DEF TypeOK, FetchNextPendingRun
  <2> QED
    BY <1>2, <2>1, StatusStep DEF FetchNextPendingRun
<1>3. ASSUME NEW r \in Runs, UpdateRunResult(r)
      PROVE  Sound'
  <2>1. /\ status' \in [Runs -> {"none", "pending", "running", "interrupted", "done"}]
        /\ held' \subseteq Runs /\ ended' \subseteq Runs /\ crowded' \subseteq Threads
    <3>1. Outcomes \subseteq {"none", "pending", "running", "interrupted", "done"}
      BY OwnershipAssumption DEF Active
    <3> QED
      BY <1>1, <1>3, <3>1 DEF TypeOK, UpdateRunResult
  <2> QED
    BY <1>3, <2>1, StatusStep DEF UpdateRunResult
<1> QED
  BY <1>2, <1>3, CreateRunForCronStep, RollbackRunStep, EnqueueStep

-----------------------------------------------------------------------------
(* The types.                                                              *)

\* Nothing is written at first.
LEMMA SoundInit == Init => Sound
<1> SUFFICES ASSUME Init
             PROVE  Sound
  OBVIOUS
<1>1. /\ NoRequest \in Requests /\ FirstRows \subseteq Rows /\ 0 \in 0..9
      /\ 0 \in 0..MaxRequests /\ 0 \in 0..MaxWork
  BY OwnershipAssumption, NoRequestType
<1>2. /\ parents \in [Rows -> SUBSET Rows]
      /\ \A row \in live : Refers(row, parents[row]) /\ parents[row] \subseteq live
  BY <1>1, OwnershipAssumption DEF Init
<1>3. \A h \in Handlers : /\ req[h] = NoRequest /\ step[h] = 0
                          /\ added[h] = {} /\ gone[h] = {}
  BY DEF Init
<1>4. RequestInv
  <2>1. "none" \notin SimpleCreates \cup Deletes \cup {"createRun"}
    BY DEF SimpleCreates, Deletes
  <2> QED
    BY <1>3, <2>1, NoRequestType DEF RequestInv, RequestOf
<1>5. LockInv
  BY <1>3 DEF LockInv
<1>6. /\ status \in [Runs -> {"none", "pending", "running", "interrupted", "done"}]
      /\ req \in [Handlers -> Requests]
      /\ step \in [Handlers -> 0..9]
      /\ added \in [Handlers -> SUBSET Threads]
      /\ gone \in [Handlers -> SUBSET Rows]
      /\ active \in [Handlers -> Runs \cup {Nobody}]
  BY <1>1 DEF Init
<1>7. TypeOK
  <2>1. /\ live \subseteq used /\ used \subseteq Rows /\ held \subseteq Runs /\ ended \subseteq Runs
        /\ alone \in Handlers \cup {Nobody} /\ crowded \subseteq Threads /\ reborn \subseteq Threads
        /\ failed \in Requests /\ requests \in 0..MaxRequests /\ work \in 0..MaxWork
    BY <1>1 DEF Init
  <2>2. \A h \in Handlers :
          /\ step[h] = 0 <=> req[h].kind = "none"
          /\ added[h] \cap live = {} /\ gone[h] \subseteq live
          /\ \A other \in Handlers \ {h} :
               gone[h] \cap gone[other] = {} /\ added[h] \cap added[other] = {}
    BY <1>3, NoRequestType
  <2> QED
    BY <1>2, <1>6, <2>1, <2>2 DEF TypeOK
<1> QED
  BY <1>4, <1>5, <1>7 DEF Sound

\* Every step keeps the types, the requests and the locks.
LEMMA SoundStep == Sound /\ [Next]_vars => Sound'
<1> SUFFICES ASSUME Sound, [Next]_vars
             PROVE  Sound'
  OBVIOUS
<1>1. ASSUME NEW h \in Handlers, BeginRequest(h)
      PROVE  Sound'
  BY <1>1, BeginStep
<1>2. ASSUME NEW h \in Handlers, Abort(h)
      PROVE  Sound'
  BY <1>2, RollsBackStep DEF Abort
<1>3. ASSUME NEW h \in Handlers, Create(h)
      PROVE  Sound'
  <2>1. CASE CommitRunRefused(h)
    BY <2>1, RollsBackStep DEF CommitRunRefused
  <2> QED
    BY <1>3, <2>1, SimpleCreateStep, ChecksStep, CheckThreadStep, CheckThreadGlobalStep,
       InsertThreadStep, SelectStep, CommitRunStep DEF Create
<1>4. ASSUME NEW h \in Handlers, Delete(h)
      PROVE  Sound'
  BY <1>4, ChecksStep, DeleteRowsStep, DeleteRefusedStep DEF Delete
<1>5. CASE \/ \E job \in CronJobs : CreateRunForCron(job)
           \/ \E r \in Runs : FetchNextPendingRun(r) \/ UpdateRunResult(r) \/ RollbackRun(r)
                                \/ EnqueueWebhookForRun(r)
  BY <1>5, WorkerStep
<1>6. CASE UNCHANGED vars
  <2>1. TypeOK'
    BY <1>6 DEF Sound, TypeOK, vars, tables, workers, transaction, history
  <2>2. RequestInv'
    BY <1>6 DEF Sound, RequestInv, RequestOf, vars, tables, transaction, history
  <2>3. LockInv'
    BY <1>6 DEF Sound, LockInv, vars, tables, transaction, history
  <2> QED
    BY <2>1, <2>2, <2>3 DEF Sound
<1> QED
  BY <1>1, <1>2, <1>3, <1>4, <1>5, <1>6 DEF Next

\* Every committed row refers to committed rows, of the tables its foreign keys
\* name; what a transaction has deleted is committed and deleted by no other, what
\* it has inserted is not committed and inserted by no other.
THEOREM TypeCorrect == Spec => []TypeOK
<1>1. Spec => []Sound
  BY SoundInit, SoundStep, PTL DEF Spec
<1>2. Sound => TypeOK
  BY DEF Sound
<1> QED
  BY <1>1, <1>2, PTL

-----------------------------------------------------------------------------
(* What a step does to the tables and to a request, for the invariants     *)
(* about threads and their runs.                                           *)

\* Rows that are there keep their references, and so does an assistant that once was
\* there; a row that appears is new or reborn; a run becomes active only as it is
\* inserted, on a thread only by createRun, or again on a thread that is then crowded.
Kept ==
  /\ used \subseteq used' /\ reborn \subseteq reborn' /\ crowded \subseteq crowded'
  /\ \A row \in live : parents'[row] = parents[row]
  /\ \A row \in Assistants \cap used : parents'[row] = parents[row]
  /\ \A row \in live' \ live : row \notin used \/ row \in reborn'
  /\ \A r \in Runs \cap live : status'[r] \in Active =>
       status[r] \in Active \/ parents[r] \cap Threads \subseteq crowded'
  /\ \A r \in Runs \cap (live' \ live) :
       \/ parents'[r] \cap Threads = {}
       \/ \E h \in Handlers : CommitRun(h) /\ parents'[r] = {req[h].target, req[h].owner}

\* Steps that write to no table, or only delete rows.
LEMMA KeptByDeletion ==
  ASSUME UNCHANGED <<parents, status, used, reborn>>, live' \subseteq live,
         crowded \subseteq crowded'
  PROVE  Kept
  BY DEF Kept

\* The INSERT of new rows that refer to no thread.
LEMMA KeptByInsertion ==
  ASSUME TypeOK, NEW new, live' = live \cup new, used' = used \cup new, new \cap used = {},
         \A row \in Rows \ new : parents'[row] = parents[row],
         reborn \subseteq reborn', UNCHANGED crowded,
         \A r \in new \cap Runs : parents'[r] \cap Threads = {},
         \A r \in Runs \ new : status'[r] \in Active => status[r] \in Active
  PROVE  Kept
<1>1. live \subseteq used /\ used \subseteq Rows
  BY DEF TypeOK
<1> QED
  BY <1>1 DEF Kept

\* The INSERT of a row that refers to one other.
LEMMA InsertRowKept ==
  ASSUME Sound, NEW h \in Handlers, req[h].kind \in SimpleCreates, NEW table \in SUBSET Rows,
         table \cap Runs = {} \/ req[h].owner \notin Threads, InsertRow(h, table)
  PROVE  Kept
<1>1. TypeOK /\ RequestOf(h)
  BY DEF Sound, RequestInv
<1>2. added[h] = {}
  BY <1>1, CreateRunKind DEF RequestOf
<1>3. PICK row \in Unused(table) :
        /\ Inserts(h, row, {req[h].owner})
        /\ status' = IF row \in Runs THEN [status EXCEPT ![row] = "pending"] ELSE status
  BY DEF InsertRow
<1>4. /\ live' = live \cup {row} /\ used' = used \cup {row}
      /\ parents' = [parents EXCEPT ![row] = {req[h].owner}]
      /\ reborn \subseteq reborn' /\ UNCHANGED crowded
  BY <1>2, <1>3 DEF Inserts
<1>5. row \in table /\ row \in Rows /\ row \notin used
  BY <1>3 DEF Unused
<1>6. /\ parents'[row] = {req[h].owner}
      /\ \A other \in Rows \ {row} : parents'[other] = parents[other]
  BY <1>1, <1>4, <1>5 DEF TypeOK
<1>7. \A r \in Runs \ {row} : status'[r] = status[r]
  BY <1>1, <1>3 DEF TypeOK
<1> DEFINE new == {row}
<1>8. /\ live' = live \cup new /\ used' = used \cup new /\ new \cap used = {}
      /\ \A other \in Rows \ new : parents'[other] = parents[other]
      /\ \A r \in new \cap Runs : parents'[r] \cap Threads = {}
      /\ \A r \in Runs \ new : status'[r] \in Active => status[r] \in Active
  BY <1>4, <1>5, <1>6, <1>7
<1> HIDE DEF new
<1> QED
  BY <1>1, <1>4, <1>8, KeptByInsertion

\* The simple creates.
LEMMA SimpleCreateKept ==
  ASSUME Sound, NEW h \in Handlers,
         \/ CreateAssistant(h) \/ CreateThread(h) \/ CreateStatelessRun(h) \/ CreateCron(h)
         \/ UpdateThreadState(h)
  PROVE  Kept
<1>1. RequestOf(h)
  BY DEF Sound, RequestInv
<1>2. ASSUME NEW table \in SUBSET Rows, req[h].kind \in SimpleCreates, CheckAndInsert(h, table),
             table \cap Runs = {} \/ req[h].owner \notin Threads
      PROVE  Kept
  <2>1. CASE InsertRow(h, table)
    BY <1>2, <2>1, InsertRowKept
  <2>2. CASE RollsBack(h)
    BY <2>2, KeptByDeletion DEF RollsBack, tables, history
  <2>3. CASE Continues(h) /\ UNCHANGED <<tables, added, gone, active, reborn>>
    BY <2>3, KeptByDeletion DEF Continues, tables
  <2> QED
    BY <1>2, <2>1, <2>2, <2>3 DEF CheckAndInsert, CheckOwner, InsertRefused
<1>3. /\ Assistants \in SUBSET Rows /\ Threads \in SUBSET Rows /\ Runs \in SUBSET Rows
      /\ CronJobs \in SUBSET Rows /\ States \in SUBSET Rows
  BY RowTables
<1>4. /\ Assistants \cap Runs = {} /\ Threads \cap Runs = {} /\ CronJobs \cap Runs = {}
      /\ States \cap Runs = {} /\ Assistants \cap Threads = {}
  BY OwnershipAssumption
<1>5. CASE CreateStatelessRun(h)
  <2>1. req[h].kind = "createStatelessRun" /\ req[h].kind \in SimpleCreates
    BY <1>5 DEF CreateStatelessRun, SimpleCreates
  <2>2. req[h].owner \in Assistants
    BY <1>1, <2>1, NamedTables DEF RequestOf
  <2> QED
    BY <1>2, <1>3, <1>4, <1>5, <2>1, <2>2 DEF CreateStatelessRun
<1>6. CASE CreateAssistant(h) \/ CreateThread(h) \/ CreateCron(h) \/ UpdateThreadState(h)
  <2>1. req[h].kind \in SimpleCreates
    BY <1>6 DEF CreateAssistant, CreateThread, CreateCron, UpdateThreadState, SimpleCreates
  <2> QED
    BY <1>2, <1>3, <1>4, <1>6, <2>1
       DEF CreateAssistant, CreateThread, CreateCron, UpdateThreadState
<1> QED
  BY <1>5, <1>6

\* createRun inserts its thread.
LEMMA InsertThreadKept ==
  ASSUME Sound, NEW h \in Handlers, InsertThread(h)
  PROVE  Kept
<1>1. CASE RollsBack(h)
  BY <1>1, KeptByDeletion DEF RollsBack, tables, history
<1>2. ASSUME req[h].target \notin live,
             parents' = [parents EXCEPT ![req[h].target] = {req[h].owner}],
             Continues(h), UNCHANGED <<live, status, used, gone, active, reborn>>
      PROVE  Kept
  <2>1. TypeOK /\ req[h].target \in Threads
    BY DEF Sound, RequestInv, RequestOf, InsertThread
  <2>2. \A row \in Rows : row # req[h].target => parents'[row] = parents[row]
    BY <1>2, <2>1 DEF TypeOK
  <2>3. /\ live \subseteq Rows /\ used \subseteq Rows /\ req[h].target \notin Assistants
    BY <2>1, OwnershipAssumption DEF TypeOK
  <2>4. crowded' = crowded
    BY <1>2 DEF Continues
  <2> QED
    BY <1>2, <2>2, <2>3, <2>4 DEF Kept
<1> QED
  BY <1>1, <1>2 DEF InsertThread

\* createRun inserts its run.
LEMMA CommitRunKept ==
  ASSUME Sound, NEW h \in Handlers, CommitRun(h)
  PROVE  Kept
<1>1. TypeOK
  BY DEF Sound
<1>2. PICK r \in Unused(Runs) :
        /\ live' = ((live \cup added[h]) \ RolledBack(h)) \cup {r}
        /\ used' = used \cup added[h] \cup {r}
        /\ parents' = [parents EXCEPT ![r] = {req[h].target, req[h].owner}]
        /\ status' = [other \in Runs |->
             IF other = r THEN "pending"
             ELSE IF other \in Replaces(h) \ RolledBack(h) THEN "interrupted" ELSE status[other]]
        /\ reborn' = reborn \cup (added[h] \cap used)
        /\ crowded' = crowded
  BY DEF CommitRun
<1>3. r \in Runs /\ r \in Rows /\ r \notin used
  BY <1>2, RowTables DEF Unused
<1>4. /\ parents'[r] = {req[h].target, req[h].owner}
      /\ \A row \in Rows \ {r} : parents'[row] = parents[row]
  BY <1>1, <1>2, <1>3 DEF TypeOK
<1>5. live \subseteq used /\ used \subseteq Rows /\ added[h] \subseteq Threads
  BY <1>1 DEF TypeOK
<1>6. \A other \in Runs : other # r /\ status'[other] \in Active => status[other] \in Active
  BY <1>2 DEF Active
<1>7. \A row \in live' \ live : row = r \/ row \in added[h]
  BY <1>2
<1>8. Threads \cap Runs = {}
  BY OwnershipAssumption
<1>9. \A row \in live' \ live : row \notin used \/ row \in reborn'
  BY <1>2, <1>3, <1>7
<1>10. \A other \in Runs \cap (live' \ live) : other = r
  BY <1>5, <1>7, <1>8
<1>11. /\ \A row \in live : parents'[row] = parents[row]
       /\ \A row \in Assistants \cap used : parents'[row] = parents[row]
  BY <1>3, <1>4, <1>5
<1>12. \A other \in Runs \cap live : status'[other] \in Active => status[other] \in Active
  BY <1>3, <1>5, <1>6
<1> QED
  BY <1>2, <1>4, <1>9, <1>10, <1>11, <1>12 DEF Kept

\* Workers.
LEMMA WorkerKept ==
  ASSUME Sound,
         \/ \E job \in CronJobs : CreateRunForCron(job)
         \/ \E r \in Runs : FetchNextPendingRun(r) \/ UpdateRunResult(r) \/ RollbackRun(r)
                              \/ EnqueueWebhookForRun(r)
  PROVE  Kept
<1>1. TypeOK
  BY DEF Sound
<1>2. reborn' = reborn /\ crowded \subseteq crowded'
  BY DEF CreateRunForCron, FetchNextPendingRun, UpdateRunResult, RollbackRun,
         EnqueueWebhookForRun, Works
<1>3. ASSUME NEW job \in CronJobs, CreateRunForCron(job)
      PROVE  Kept
  <2>1. PICK r \in Unused(Runs), x \in Unused(Executions) :
          /\ live' = live \cup {r, x} /\ used' = used \cup {r, x}
          /\ parents' = [parents EXCEPT ![r] = parents[job], ![x] = {job, r}]
          /\ status' = [status EXCEPT ![r] = "pending"]
    BY <1>3 DEF CreateRunForCron
  <2>2. /\ r \in Runs /\ x \in Executions /\ r \in Rows /\ x \in Rows /\ r # x
        /\ r \notin used /\ x \notin used /\ x \notin Runs
    BY <2>1, RowTables, OwnershipAssumption DEF Unused
  <2>3. /\ parents'[r] = parents[job]
        /\ \A row \in Rows \ {r, x} : parents'[row] = parents[row]
        /\ \A other \in Runs \ {r} : status'[other] = status[other]
    BY <1>1, <2>1, <2>2 DEF TypeOK
  <2>4. parents[job] \cap Threads = {}
    <3>1. Refers(job, parents[job])
      BY <1>1, <1>3 DEF TypeOK, CreateRunForCron
    <3>2. PICK assistant \in Assistants : parents[job] = {assistant}
      BY <3>1, KeysOf
    <3> QED
      BY <3>2, OwnershipAssumption
  <2> DEFINE new == {r, x}
  <2>5. /\ live' = live \cup new /\ used' = used \cup new /\ new \cap used = {}
        /\ \A row \in Rows \ new : parents'[row] = parents[row]
        /\ \A other \in new \cap Runs : parents'[other] \cap Threads = {}
        /\ \A other \in Runs \ new : status'[other] \in Active => status[other] \in Active
    BY <2>1, <2>2, <2>3, <2>4
  <2> HIDE DEF new
  <2> QED
    BY <1>1, <1>2, <1>3, <2>5, KeptByInsertion DEF CreateRunForCron
<1>4. ASSUME NEW r \in Runs, FetchNextPendingRun(r)
      PROVE  Kept
  <2>1. /\ UNCHANGED <<live, parents, used>>
        /\ \A other \in Runs : status'[other] \in Active => status[other] \in Active
    BY <1>1, <1>4 DEF FetchNextPendingRun, TypeOK, Active
  <2> QED
    BY <1>2, <2>1 DEF Kept
<1>5. ASSUME NEW r \in Runs, UpdateRunResult(r)
      PROVE  Kept
  <2>1. /\ UNCHANGED <<live, parents, used>>
        /\ \A other \in Runs \cap live : status'[other] \in Active =>
             status[other] \in Active \/ parents[other] \cap Threads \subseteq crowded'
    <3>1. UNCHANGED <<live, parents, used>>
      BY <1>5 DEF UpdateRunResult
    <3>2. CASE UNCHANGED status
      BY <3>1, <3>2
    <3>3. ASSUME NEW s, status' = [status EXCEPT ![r] = s],
                 s \in Active /\ status[r] \notin Active => parents[r] \cap Threads \subseteq crowded'
          PROVE  \A other \in Runs : status'[other] \in Active =>
                   status[other] \in Active \/ parents[other] \cap Threads \subseteq crowded'
      BY <1>1, <3>3 DEF TypeOK
    <3> QED
      BY <1>5, <3>1, <3>2, <3>3 DEF UpdateRunResult
  <2> QED
    BY <1>2, <2>1 DEF Kept
<1>6. ASSUME NEW r \in Runs, RollbackRun(r)
      PROVE  Kept
  BY <1>2, <1>6, KeptByDeletion DEF RollbackRun
<1>7. ASSUME NEW r \in Runs, EnqueueWebhookForRun(r)
      PROVE  Kept
  <2>1. PICK v \in Unused(Deliveries) :
          /\ live' = live \cup {v} /\ used' = used \cup {v}
          /\ parents' = [parents EXCEPT ![v] = {r}]
    BY <1>7 DEF EnqueueWebhookForRun
  <2>2. v \in Rows /\ v \notin used /\ v \notin Runs /\ status' = status
    BY <1>7, <2>1, RowTables, OwnershipAssumption DEF Unused, EnqueueWebhookForRun
  <2>3. \A row \in Rows \ {v} : parents'[row] = parents[row]
    BY <1>1, <2>1, <2>2 DEF TypeOK
  <2> DEFINE new == {v}
  <2>4. /\ live' = live \cup new /\ used' = used \cup new /\ new \cap used = {}
        /\ \A row \in Rows \ new : parents'[row] = parents[row]
        /\ \A other \in new \cap Runs : parents'[other] \cap Threads = {}
        /\ \A other \in Runs \ new : status'[other] \in Active => status[other] \in Active
    BY <2>1, <2>2, <2>3
  <2> HIDE DEF new
  <2> QED
    BY <1>1, <1>2, <1>7, <2>4, KeptByInsertion DEF EnqueueWebhookForRun
<1> QED
  BY <1>3, <1>4, <1>5, <1>6, <1>7

\* Every step.
LEMMA StepKept ==
  ASSUME Sound, [Next]_vars
  PROVE  Kept
<1>1. ASSUME NEW h \in Handlers, BeginRequest(h)
      PROVE  Kept
  <2>1. crowded \subseteq crowded'
    BY <1>1 DEF BeginRequest
  <2> QED
    BY <1>1, <2>1, KeptByDeletion DEF BeginRequest, tables
<1>2. ASSUME NEW h \in Handlers, RollsBack(h)
      PROVE  Kept
  BY <1>2, KeptByDeletion DEF RollsBack, tables, history
<1>3. ASSUME NEW h \in Handlers, Continues(h), UNCHANGED <<tables, reborn>>
      PROVE  Kept
  BY <1>3, KeptByDeletion DEF Continues, tables
<1>4. ASSUME NEW h \in Handlers, Create(h)
      PROVE  Kept
  <2>1. CASE CheckAssistant(h)
    BY <1>2, <1>3, <2>1 DEF CheckAssistant
  <2>2. CASE CheckThread(h)
    <3>1. CASE UNCHANGED <<tables, workers, req, added, gone, active, alone, history>>
      BY <3>1, KeptByDeletion DEF tables, history
    <3> QED
      BY <1>2, <1>3, <2>2, <3>1 DEF CheckThread
  <2>3. CASE SelectActiveRun(h)
    BY <1>2, <1>3, <2>3 DEF SelectActiveRun
  <2>4. CASE CommitRunRefused(h)
    BY <1>2, <2>4 DEF CommitRunRefused
  <2>5. CASE CheckThreadGlobal(h)
    BY <1>2, <1>3, <2>5 DEF CheckThreadGlobal
  <2> QED
    BY <1>4, <2>1, <2>2, <2>3, <2>4, <2>5, SimpleCreateKept, InsertThreadKept, CommitRunKept
       DEF Create
<1>5. ASSUME NEW h \in Handlers, Delete(h)
      PROVE  Kept
  <2>1. CASE CheckTarget(h)
    BY <1>2, <1>3, <2>1 DEF CheckTarget
  <2>2. CASE DeleteRows(h)
    <3>1. ASSUME UNCHANGED <<parents, status, used, workers, history>>, live' \subseteq live
          PROVE  Kept
      BY <3>1, KeptByDeletion DEF history
    <3>2. \/ Continues(h) /\ UNCHANGED <<tables, reborn>>
          \/ UNCHANGED <<parents, status, used, workers, history>> /\ live' \subseteq live
      BY <2>2 DEF DeleteRows
    <3> QED
      BY <1>3, <3>1, <3>2
  <2>3. CASE DeleteRefused(h)
    BY <2>3, KeptByDeletion DEF DeleteRefused, tables, history
  <2> QED
    BY <1>5, <2>1, <2>2, <2>3 DEF Delete
<1>6. CASE UNCHANGED vars
  BY <1>6, KeptByDeletion DEF vars, tables, history
<1> QED
  BY <1>1, <1>2, <1>4, <1>5, <1>6, WorkerKept DEF Next, Abort

\* What a step does to one request, if it is a createRun afterwards.
RunStep(h) ==
  \/ Same(h)
  \/ BeginRequest(h) /\ step'[h] = 1
  \/ /\ req'[h] = req[h] /\ added'[h] = added[h]
     /\ UNCHANGED <<live, parents, status, used, reborn, crowded>>
     /\ \/ step[h] = 1 /\ step'[h] = 2 /\ InProject(h, req[h].owner)
        \/ step[h] = 2 /\ step'[h] = 5 /\ InProject(h, req[h].target)
        \/ step[h] = 2 /\ step'[h] = 3
        \/ step[h] = 3 /\ step'[h] = 4
        \/ /\ step[h] = 5 /\ step'[h] = 6
           /\ \/ active'[h] \in ActiveRuns(h) /\ req[h].strategy # "reject"
              \/ ActiveRuns(h) = {}
  \/ /\ req'[h] = req[h] /\ step[h] = 4 /\ step'[h] = 5 /\ added'[h] = {req[h].target}

\* The end of a request is no createRun, and others stay as they are.
LEMMA RunStepEnds ==
  ASSUME TypeOK, NEW h \in Handlers, Ends(h)
  PROVE  /\ req'[h].kind # "createRun" /\ \A o \in Handlers \ {h} : RunStep(o)
  BY EndsEffect, NoRequestType DEF Ended, RunStep

\* Neither is any other request that goes on.
LEMMA RunStepOther ==
  ASSUME TypeOK, NEW h \in Handlers, Continues(h), UNCHANGED <<added, active>>,
         \A o \in Handlers \ {h} : gone'[o] = gone[o], req[h].kind # "createRun"
  PROVE  /\ req'[h].kind # "createRun" /\ \A o \in Handlers \ {h} : RunStep(o)
  BY DEF Continues, RunStep, Same, TypeOK

\* The requests after a step.
LEMMA RunSteps ==
  ASSUME Sound, [Next]_vars, NEW h \in Handlers, req'[h].kind = "createRun"
  PROVE  RunStep(h)
<1>1. TypeOK /\ RequestOf(h)
  BY DEF Sound, RequestInv
<1>2. ASSUME NEW g \in Handlers, BeginRequest(g)
      PROVE  RunStep(h)
  <2>1. ASSUME g # h
        PROVE  Same(h)
    <3>1. req'[h] = req[h] /\ step'[h] = step[h]
      BY <1>1, <1>2, <2>1 DEF BeginRequest, TypeOK
    <3> QED
      BY <1>2, <3>1 DEF BeginRequest, Same
  <2>2. ASSUME g = h
        PROVE  step'[h] = 1
    <3>1. PICK request \in Asked :
            /\ req' = [req EXCEPT ![h] = request]
            /\ step' = [step EXCEPT ![h] = IF request.kind = "deleteCron" THEN 2 ELSE 1]
      BY <1>2, <2>2 DEF BeginRequest
    <3>2. request.kind = "createRun"
      BY <1>1, <3>1 DEF TypeOK
    <3> QED
      BY <1>1, <3>1, <3>2 DEF TypeOK
  <2> QED
    BY <1>2, <2>1, <2>2 DEF RunStep
<1>3. ASSUME NEW g \in Handlers, RollsBack(g)
      PROVE  RunStep(h)
  BY <1>1, <1>3, RunStepEnds DEF RollsBack
<1>4. ASSUME NEW g \in Handlers, Ends(g)
      PROVE  RunStep(h)
  BY <1>1, <1>4, RunStepEnds
<1>5. ASSUME NEW g \in Handlers, req[g].kind # "createRun", Continues(g), UNCHANGED <<added, active>>,
             \A o \in Handlers \ {g} : gone'[o] = gone[o]
      PROVE  RunStep(h)
  BY <1>1, <1>5, RunStepOther
<1>6. ASSUME NEW g \in Handlers, g # h, step'[h] = step[h],
             added'[h] = added[h], gone'[h] = gone[h], active'[h] = active[h], req'[h] = req[h]
      PROVE  RunStep(h)
  BY <1>6 DEF RunStep, Same
<1>7. ASSUME NEW g \in Handlers, CheckAssistant(g)
      PROVE  RunStep(h)
  <2>1. ASSUME Continues(g), UNCHANGED <<tables, added, gone, active, reborn>>,
               InProject(g, req[g].owner)
        PROVE  RunStep(h)
    <3>1. /\ step[g] = 1 /\ req' = req /\ crowded' = crowded
          /\ step' = [step EXCEPT ![g] = @ + 1]
      BY <1>7, <2>1 DEF CheckAssistant, Continues
    <3>2. ASSUME g # h
          PROVE  step'[h] = step[h]
      BY <1>1, <3>1, <3>2 DEF TypeOK
    <3>3. ASSUME g = h
          PROVE  RunStep(h)
      <4>1. step'[h] = 2
        BY <1>1, <3>1, <3>3 DEF TypeOK
      <4> QED
        BY <2>1, <3>1, <3>3, <4>1 DEF RunStep, tables
    <3> QED
      BY <1>6, <2>1, <3>1, <3>2, <3>3
  <2> QED
    BY <1>3, <1>7, <2>1 DEF CheckAssistant
<1>8. ASSUME NEW g \in Handlers, CheckThread(g)
      PROVE  RunStep(h)
  <2>1. ASSUME step' = [step EXCEPT ![g] = 5], ThreadAllowed(g),
               UNCHANGED <<tables, workers, req, added, gone, active, alone, history>>
        PROVE  RunStep(h)
    <3>1. step[g] = 2
      BY <1>8 DEF CheckThread
    <3>2. ASSUME g # h
          PROVE  step'[h] = step[h]
      BY <1>1, <2>1, <3>2 DEF TypeOK
    <3>3. ASSUME g = h
          PROVE  RunStep(h)
      <4>1. step'[h] = 5
        BY <1>1, <2>1, <3>3 DEF TypeOK
      <4> QED
        BY <2>1, <3>1, <3>3, <4>1 DEF RunStep, tables, history, ThreadAllowed
    <3> QED
      BY <1>6, <2>1, <3>2, <3>3
  <2>2. ASSUME Continues(g), UNCHANGED <<tables, added, gone, active, reborn>>
        PROVE  RunStep(h)
    <3>1. /\ step[g] = 2 /\ req' = req /\ crowded' = crowded
          /\ step' = [step EXCEPT ![g] = @ + 1]
      BY <1>8, <2>2 DEF CheckThread, Continues
    <3>2. ASSUME g # h
          PROVE  step'[h] = step[h]
      BY <1>1, <3>1, <3>2 DEF TypeOK
    <3>3. ASSUME g = h
          PROVE  RunStep(h)
      <4>1. step'[h] = 3
        BY <1>1, <3>1, <3>3 DEF TypeOK
      <4> QED
        BY <2>2, <3>1, <3>3, <4>1 DEF RunStep, tables
    <3> QED
      BY <1>6, <2>2, <3>1, <3>2, <3>3
  <2> QED
    BY <1>3, <1>8, <2>1, <2>2 DEF CheckThread
<1>8a. ASSUME NEW g \in Handlers, CheckThreadGlobal(g)
       PROVE  RunStep(h)
  <2>1. ASSUME Continues(g), UNCHANGED <<tables, added, gone, active, reborn>>
        PROVE  RunStep(h)
    <3>1. /\ step[g] = 3 /\ req' = req /\ crowded' = crowded
          /\ step' = [step EXCEPT ![g] = @ + 1]
      BY <1>8a, <2>1 DEF CheckThreadGlobal, Continues
    <3>2. ASSUME g # h
          PROVE  step'[h] = step[h]
      BY <1>1, <3>1, <3>2 DEF TypeOK
    <3>3. ASSUME g = h
          PROVE  RunStep(h)
      <4>1. step'[h] = 4
        BY <1>1, <3>1, <3>3 DEF TypeOK
      <4> QED
        BY <2>1, <3>1, <3>3, <4>1 DEF RunStep, tables
    <3> QED
      BY <1>6, <2>1, <3>1, <3>2, <3>3
  <2> QED
    BY <1>3, <1>8a, <2>1 DEF CheckThreadGlobal
<1>9. ASSUME NEW g \in Handlers, InsertThread(g)
      PROVE  RunStep(h)
  <2>1. ASSUME added' = [added EXCEPT ![g] = {req[g].target}], Continues(g),
               UNCHANGED <<live, status, used, gone, active, reborn>>
        PROVE  RunStep(h)
    <3>1. /\ step[g] = 4 /\ req' = req
          /\ step' = [step EXCEPT ![g] = @ + 1]
      BY <1>9, <2>1 DEF InsertThread, Continues
    <3>2. ASSUME g # h
          PROVE  step'[h] = step[h] /\ added'[h] = added[h]
      BY <1>1, <2>1, <3>1, <3>2 DEF TypeOK
    <3>3. ASSUME g = h
          PROVE  RunStep(h)
      <4>1. step'[h] = 5 /\ added'[h] = {req[h].target}
        BY <1>1, <2>1, <3>1, <3>3 DEF TypeOK
      <4> QED
        BY <3>1, <3>3, <4>1 DEF RunStep
    <3> QED
      BY <1>6, <2>1, <3>1, <3>2, <3>3
  <2> QED
    BY <1>3, <1>9, <2>1 DEF InsertThread
<1>10. ASSUME NEW g \in Handlers, SelectActiveRun(g)
       PROVE  RunStep(h)
  <2>1. ASSUME Continues(g), UNCHANGED <<tables, added, gone, reborn>>,
               \/ /\ req[g].strategy # "reject"
                  /\ \E r \in ActiveRuns(g) : active' = [active EXCEPT ![g] = r]
               \/ ActiveRuns(g) = {} /\ active' = active
        PROVE  RunStep(h)
    <3>1. /\ step[g] = 5 /\ req' = req /\ crowded' = crowded
          /\ step' = [step EXCEPT ![g] = @ + 1]
      BY <1>10, <2>1 DEF SelectActiveRun, Continues
    <3>2. ASSUME g # h
          PROVE  step'[h] = step[h] /\ active'[h] = active[h]
      BY <1>1, <2>1, <3>1, <3>2 DEF TypeOK
    <3>3. ASSUME g = h
          PROVE  RunStep(h)
      <4>1. /\ step'[h] = 6
            /\ \/ active'[h] \in ActiveRuns(h) /\ req[h].strategy # "reject"
               \/ ActiveRuns(h) = {}
        BY <1>1, <2>1, <3>1, <3>3 DEF TypeOK
      <4> QED
        BY <2>1, <3>1, <3>3, <4>1 DEF RunStep, tables
    <3> QED
      BY <1>6, <2>1, <3>1, <3>2, <3>3
  <2> QED
    BY <1>3, <1>10, <2>1 DEF SelectActiveRun
<1>11. ASSUME NEW g \in Handlers, CommitRun(g)
       PROVE  RunStep(h)
  BY <1>4, <1>11 DEF CommitRun
<1>12. ASSUME NEW g \in Handlers, CommitRunRefused(g)
       PROVE  RunStep(h)
  BY <1>3, <1>12 DEF CommitRunRefused
<1>13. ASSUME NEW g \in Handlers, NEW table, CheckAndInsert(g, table), req[g].kind # "createRun"
       PROVE  RunStep(h)
  <2>1. CASE CheckOwner(g)
    BY <1>3, <1>5, <1>13, <2>1 DEF CheckOwner
  <2>2. CASE InsertRow(g, table)
    BY <1>4, <2>2 DEF InsertRow, Inserts
  <2>3. CASE InsertRefused(g)
    BY <1>3, <2>3 DEF InsertRefused
  <2> QED
    BY <1>13, <2>1, <2>2, <2>3 DEF CheckAndInsert
<1>14. ASSUME NEW g \in Handlers, Create(g)
       PROVE  RunStep(h)
  <2>1. CASE \/ CreateAssistant(g) \/ CreateThread(g) \/ CreateStatelessRun(g) \/ CreateCron(g)
             \/ UpdateThreadState(g)
    BY <1>13, <2>1 DEF CreateAssistant, CreateThread, CreateStatelessRun, CreateCron,
                       UpdateThreadState
  <2> QED
    BY <1>7, <1>8, <1>9, <1>10, <1>11, <1>12, <1>14, <1>8a, <2>1 DEF Create
<1>15. ASSUME NEW g \in Handlers, Delete(g)
       PROVE  RunStep(h)
  <2>1. req[g].kind # "createRun"
    BY <1>15, CreateRunKind DEF Delete, CheckTarget, DeleteRows, DeleteRefused
  <2>2. CASE CheckTarget(g)
    BY <1>3, <1>5, <2>1, <2>2 DEF CheckTarget
  <2>3. CASE DeleteRefused(g)
    BY <1>4, <2>3 DEF DeleteRefused
  <2>4. CASE DeleteRows(g)
    <3>1. ASSUME NEW deleted, gone' = [gone EXCEPT ![g] = deleted], Continues(g),
                 UNCHANGED <<tables, added, active, reborn>>
          PROVE  RunStep(h)
      <4>1. \A o \in Handlers \ {g} : gone'[o] = gone[o]
        BY <1>1, <3>1 DEF TypeOK
      <4> QED
        BY <1>5, <2>1, <3>1, <4>1
    <3> QED
      BY <1>4, <2>4, <3>1 DEF DeleteRows
  <2> QED
    BY <1>15, <2>2, <2>3, <2>4 DEF Delete
<1>16. CASE \/ \E job \in CronJobs : CreateRunForCron(job)
            \/ \E r \in Runs : FetchNextPendingRun(r) \/ UpdateRunResult(r) \/ RollbackRun(r)
                                 \/ EnqueueWebhookForRun(r)
  BY <1>16, WorksEffect DEF RunStep, CreateRunForCron, FetchNextPendingRun, UpdateRunResult,
                            RollbackRun, EnqueueWebhookForRun
<1>17. CASE UNCHANGED vars
  BY <1>17 DEF RunStep, Same, vars, transaction
<1> QED
  BY <1>2, <1>3, <1>14, <1>15, <1>16, <1>17 DEF Next, Abort

-----------------------------------------------------------------------------
(* The project of a run and of its thread.                                 *)

\* Owner and Project, for given references.
OwnerAmong(owners, table) == CHOOSE owner \in table : owner \in owners
OwnerIn(references, row, table) == OwnerAmong(references[row], table)
ProjectIn(references, row) ==
  LET assistant == IF row \in Assistants THEN row ELSE OwnerIn(references, row, Assistants)
  IN  ProjectOf[IF row \in Deployments THEN row
                ELSE OwnerIn(references, assistant, Deployments)]

\* They are the model's for the references there are.
LEMMA ProjectIsIn ==
  ASSUME NEW row
  PROVE  Project(row) = ProjectIn(parents, row)
  BY DEF Project, ProjectIn, Owner, OwnerIn, OwnerAmong

\* The project of an assistant depends on what it refers to alone.
LEMMA ProjectOfAssistant ==
  ASSUME NEW assistant \in Assistants, NEW p, NEW q, p[assistant] = q[assistant]
  PROVE  ProjectIn(p, assistant) = ProjectIn(q, assistant)
  BY DEF ProjectIn, OwnerIn

\* A thread or run is of the project of the assistant that it refers to.
LEMMA ProjectOfOwned ==
  ASSUME NEW p, NEW row \in Threads \cup Runs, NEW assistant \in Assistants,
         p[row] = {assistant} \/ \E thread \in Threads : p[row] = {thread, assistant}
  PROVE  ProjectIn(p, row) = ProjectIn(p, assistant)
<1>1. row \notin Assistants /\ row \notin Deployments /\ assistant \notin Deployments
  BY OwnershipAssumption
<1>2. \A owner \in Assistants : owner \in p[row] <=> owner = assistant
  BY OwnershipAssumption
<1>3. OwnerIn(p, row, Assistants) = assistant
  BY <1>2 DEF OwnerIn, OwnerAmong
<1> QED
  BY <1>1, <1>3 DEF ProjectIn

\* A committed thread or run keeps its project.
LEMMA ProjectKept ==
  ASSUME TypeOK, Kept, NEW row \in live \cap (Threads \cup Runs)
  PROVE  ProjectIn(parents', row) = ProjectIn(parents, row)
<1>1. /\ Refers(row, parents[row]) /\ parents[row] \subseteq live
      /\ parents'[row] = parents[row]
  BY DEF TypeOK, Kept
<1>2. PICK assistant \in Assistants :
        parents[row] = {assistant} \/ \E thread \in Threads : parents[row] = {thread, assistant}
  BY <1>1, KeysOf
<1>3. assistant \in live /\ parents'[assistant] = parents[assistant]
  BY <1>1, <1>2 DEF Kept
<1>4. ProjectIn(parents', assistant) = ProjectIn(parents, assistant)
  BY <1>3, ProjectOfAssistant
<1>5. ProjectIn(parents, row) = ProjectIn(parents, assistant)
  BY <1>2, ProjectOfOwned
<1>6. ProjectIn(parents', row) = ProjectIn(parents', assistant)
  BY <1>1, <1>2, ProjectOfOwned
<1> QED
  BY <1>4, <1>5, <1>6

\* What createRun has found in its project is of that project, unless its thread's
\* identifier is used again.
FoundInProject(h) ==
  req[h].kind = "createRun" =>
    /\ step[h] >= 2 => ProjectIn(parents, req[h].owner) = req[h].project
    /\ step[h] >= 5 /\ added[h] = {} =>
         /\ req[h].target \in used
         /\ req[h].target \in live \ reborn =>
              ProjectIn(parents, req[h].target) = req[h].project

ThreadsProject(r) ==
  \A thread \in (parents[r] \cap Threads) \ reborn :
    ProjectIn(parents, thread) = ProjectIn(parents, r)

ProjectInv ==
  /\ \A h \in Handlers : FoundInProject(h)
  /\ \A r \in live \cap Runs : ThreadsProject(r)

\* There is no request and no run at first.
LEMMA ProjectInit == Init => ProjectInv
<1> SUFFICES ASSUME Init
             PROVE  ProjectInv
  OBVIOUS
<1>1. \A h \in Handlers : req[h].kind = "none"
  BY NoRequestType DEF Init
<1>2. live \cap Runs = {}
  BY OwnershipAssumption DEF Init
<1> QED
  BY <1>1, <1>2 DEF ProjectInv, FoundInProject

\* What a request has found stays of the project.
LEMMA FoundStep ==
  ASSUME Sound, ProjectInv, [Next]_vars, NEW h \in Handlers
  PROVE  FoundInProject(h)'
<1> SUFFICES ASSUME req'[h].kind = "createRun"
             PROVE  FoundInProject(h)'
  BY DEF FoundInProject
<1>1. TypeOK /\ RequestOf(h) /\ FoundInProject(h) /\ Kept /\ RunStep(h)
  BY StepKept, RunSteps DEF Sound, RequestInv, ProjectInv
<1>2. step[h] \in 0..9
  BY <1>1 DEF TypeOK
<1>3. /\ used \subseteq used' /\ reborn \subseteq reborn'
      /\ \A row \in Assistants \cap used : parents'[row] = parents[row]
      /\ \A row \in live' \ live : row \notin used \/ row \in reborn'
  BY <1>1 DEF Kept
<1>4. ASSUME req[h].kind = "createRun", req'[h] = req[h]
      PROVE  ProjectIn(parents', req'[h].owner) = ProjectIn(parents, req[h].owner)
  <2>1. req[h].owner \in Assistants \cap used
    BY <1>1, <1>4 DEF RequestOf
  <2> QED
    BY <1>3, <1>4, <2>1, ProjectOfAssistant
<1>5. CASE Same(h)
  <2>1. /\ req'[h] = req[h] /\ step'[h] = step[h] /\ added'[h] = added[h]
        /\ req[h].kind = "createRun" /\ req[h].target \in Threads
    BY <1>1, <1>5 DEF Same, RequestOf
  <2>2. ASSUME step[h] >= 5, added[h] = {}, req[h].target \in live' \ reborn'
        PROVE  ProjectIn(parents', req[h].target) = req[h].project
    <3>1. req[h].target \in live \cap Threads /\ req[h].target \notin reborn
      BY <1>1, <1>3, <2>1, <2>2 DEF FoundInProject
    <3>2. ProjectIn(parents, req[h].target) = req[h].project
      BY <1>1, <2>1, <2>2, <3>1 DEF FoundInProject
    <3> QED
      BY <1>1, <3>1, <3>2, ProjectKept
  <2> QED
    BY <1>1, <1>3, <1>4, <2>1, <2>2 DEF FoundInProject
<1>6. CASE step'[h] = 1
  BY <1>6 DEF FoundInProject
<1>7. CASE /\ req'[h] = req[h] /\ added'[h] = added[h]
           /\ UNCHANGED <<live, parents, status, used, reborn, crowded>>
           /\ \/ step[h] = 1 /\ step'[h] = 2 /\ InProject(h, req[h].owner)
              \/ step[h] = 2 /\ step'[h] = 5 /\ InProject(h, req[h].target)
              \/ step[h] = 2 /\ step'[h] = 3
              \/ step[h] = 3 /\ step'[h] = 4
              \/ step[h] = 5 /\ step'[h] = 6
  <2>1. req[h].kind = "createRun"
    BY <1>7
  <2>2. CASE step[h] = 1 /\ step'[h] = 2 /\ InProject(h, req[h].owner)
    <3>1. ProjectIn(parents, req[h].owner) = req[h].project
      BY <2>2, ProjectIsIn DEF InProject
    <3> QED
      BY <1>7, <2>2, <3>1 DEF FoundInProject
  <2>3. CASE step[h] = 2 /\ step'[h] = 5 /\ InProject(h, req[h].target)
    <3>1. ProjectIn(parents, req[h].target) = req[h].project
      BY <2>3, ProjectIsIn DEF InProject
    <3>2. added[h] = {} => req[h].target \in used
      BY <1>1, <2>3 DEF InProject, Seen, TypeOK
    <3>3. ProjectIn(parents, req[h].owner) = req[h].project
      BY <1>1, <2>1, <2>3 DEF FoundInProject
    <3> QED
      BY <1>7, <2>3, <3>1, <3>2, <3>3 DEF FoundInProject
  <2>4. CASE \/ step[h] = 2 /\ step'[h] = 3
             \/ step[h] = 3 /\ step'[h] = 4
             \/ step[h] = 5 /\ step'[h] = 6
    BY <1>1, <1>7, <2>1, <2>4 DEF FoundInProject
  <2> QED
    BY <1>7, <2>2, <2>3, <2>4
<1>8. CASE req'[h] = req[h] /\ step[h] = 4 /\ step'[h] = 5 /\ added'[h] = {req[h].target}
  BY <1>1, <1>4, <1>8 DEF FoundInProject
<1> QED
  BY <1>1, <1>5, <1>6, <1>7, <1>8 DEF RunStep

\* A run that createRun inserts is of the project of its thread.
LEMMA CommitProject ==
  ASSUME Sound, ProjectInv, NEW h \in Handlers, CommitRun(h), Kept,
         NEW r \in live' \cap Runs, parents'[r] = {req[h].target, req[h].owner}
  PROVE  ThreadsProject(r)'
<1> DEFINE thread == req[h].target
           owner == req[h].owner
<1>1. /\ TypeOK /\ FoundInProject(h) /\ req[h].kind = "createRun" /\ step[h] = 6
      /\ thread \in Threads /\ owner \in Assistants \cap used
      /\ added[h] # {} => added[h] = {thread} /\ parents[thread] = {owner}
  BY DEF Sound, RequestInv, RequestOf, ProjectInv, CommitRun
<1>2. ProjectIn(parents, owner) = req[h].project
  BY <1>1 DEF FoundInProject
<1>3. thread \notin reborn => thread \in live \/ parents[thread] = {owner}
  BY <1>1 DEF CommitRun, CommitRunFails, Seen
<1>4. thread \notin reborn => ProjectIn(parents, thread) = req[h].project
  <2>1. CASE parents[thread] = {owner}
    BY <1>1, <1>2, <2>1, ProjectOfOwned
  <2>2. CASE thread \in live /\ added[h] = {}
    BY <1>1, <2>2 DEF FoundInProject
  <2> QED
    BY <1>1, <1>3, <2>1, <2>2
<1>5. ProjectIn(parents', thread) = ProjectIn(parents, thread)
  <2>1. CASE thread \in live
    BY <1>1, <2>1, ProjectKept
  <2>2. CASE thread \in added[h]
    <3>1. parents[thread] = {owner} /\ parents'[owner] = parents[owner]
      BY <1>1, <2>2 DEF Kept
    <3>2. parents'[thread] = {owner}
      <4>1. PICK run \in Unused(Runs) : parents' = [parents EXCEPT ![run] = {thread, owner}]
        BY DEF CommitRun
      <4>2. run \notin added[h] /\ thread \in Rows
        BY <1>1, <4>1, RowTables DEF Unused
      <4> QED
        BY <1>1, <2>2, <3>1, <4>1, <4>2 DEF TypeOK
    <3>3. ProjectIn(parents', owner) = ProjectIn(parents, owner)
      BY <1>1, <3>1, ProjectOfAssistant
    <3>4. ProjectIn(parents, thread) = ProjectIn(parents, owner)
      BY <1>1, <3>1, ProjectOfOwned
    <3>5. ProjectIn(parents', thread) = ProjectIn(parents', owner)
      BY <1>1, <3>2, ProjectOfOwned
    <3> QED
      BY <3>3, <3>4, <3>5
  <2> QED
    BY <2>1, <2>2 DEF CommitRun, CommitRunFails, Seen
<1>6. ProjectIn(parents', r) = req[h].project
  <2>1. ProjectIn(parents', r) = ProjectIn(parents', owner)
    BY <1>1, ProjectOfOwned
  <2>2. parents'[owner] = parents[owner]
    BY <1>1 DEF Kept
  <2>3. ProjectIn(parents', owner) = ProjectIn(parents, owner)
    BY <1>1, <2>2, ProjectOfAssistant
  <2> QED
    BY <1>2, <2>1, <2>3
<1>7. \A other \in parents'[r] \cap Threads : other = thread
  BY <1>1, OwnershipAssumption
<1>8. reborn \subseteq reborn'
  BY DEF Kept
<1> HIDE DEF thread, owner
<1> QED
  BY <1>4, <1>5, <1>6, <1>7, <1>8 DEF ThreadsProject

\* The invariant holds after every step.
LEMMA ProjectStep == Sound /\ ProjectInv /\ [Next]_vars => ProjectInv'
<1> SUFFICES ASSUME Sound, ProjectInv, [Next]_vars
             PROVE  ProjectInv'
  OBVIOUS
<1>1. TypeOK /\ Kept
  BY StepKept DEF Sound
<1>2. \A h \in Handlers : FoundInProject(h)'
  BY FoundStep
<1>3. ASSUME NEW r \in live' \cap Runs
      PROVE  ThreadsProject(r)'
  <2>1. CASE r \in live
    <3>1. /\ ThreadsProject(r) /\ parents'[r] = parents[r] /\ reborn \subseteq reborn'
          /\ parents[r] \subseteq live
      BY <1>1, <1>3, <2>1 DEF ProjectInv, Kept, TypeOK
    <3>2. ProjectIn(parents', r) = ProjectIn(parents, r)
      BY <1>1, <1>3, <2>1, ProjectKept
    <3>3. \A thread \in parents[r] \cap Threads :
            ProjectIn(parents', thread) = ProjectIn(parents, thread)
      BY <1>1, <3>1, ProjectKept
    <3> QED
      BY <3>1, <3>2, <3>3 DEF ThreadsProject
  <2>2. CASE r \notin live
    <3>1. \/ parents'[r] \cap Threads = {}
          \/ \E h \in Handlers : CommitRun(h) /\ parents'[r] = {req[h].target, req[h].owner}
      BY <1>1, <1>3, <2>2 DEF Kept
    <3>2. CASE parents'[r] \cap Threads = {}
      BY <3>2 DEF ThreadsProject
    <3> QED
      BY <1>1, <1>3, <3>1, <3>2, CommitProject
  <2> QED
    BY <2>1, <2>2
<1> QED
  BY <1>2, <1>3 DEF ProjectInv

\* A run and its thread are of one project, although createRun checks the thread
\* and its assistant statements before it inserts the run, unless the thread's
\* identifier was used again.
THEOREM RunsInProject == Spec => []OneProject
<1>1. Spec => [](Sound /\ ProjectInv)
  BY SoundInit, SoundStep, ProjectInit, ProjectStep, PTL DEF Spec
<1>2. ProjectInv => OneProject
  BY ProjectIsIn DEF ProjectInv, ThreadsProject, OneProject
<1> QED
  BY <1>1, <1>2, PTL

-----------------------------------------------------------------------------
(* The active runs on a thread.                                            *)

Busy(thread) == {r \in Children(live, Runs, {thread}) : status[r] \in Active}

CreatesOn(h, thread) == req[h].kind = "createRun" /\ req[h].target = thread

\* The only create on a thread, and no active run on it but the one it has selected.
OnlyCreate(h, thread) ==
  /\ req[h].strategy # "enqueue"
  /\ \A other \in Handlers \ {h} : ~CreatesOn(other, thread)
  /\ step[h] = 6 => Busy(thread) \subseteq {active[h]}
  /\ step[h] = 6 /\ req[h].strategy = "reject" => Busy(thread) = {}

OverlapInv ==
  \A thread \in Threads \ crowded :
    /\ \A r, s \in Busy(thread) : r = s
    /\ \A h \in Handlers : CreatesOn(h, thread) => OnlyCreate(h, thread)

\* There is no request and no run at first.
LEMMA OverlapInit == Init => OverlapInv
<1> SUFFICES ASSUME Init
             PROVE  OverlapInv
  OBVIOUS
<1>1. \A h \in Handlers : req[h].kind = "none"
  BY NoRequestType DEF Init
<1>2. live \cap Runs = {}
  BY OwnershipAssumption DEF Init
<1> QED
  BY <1>1, <1>2 DEF OverlapInv, CreatesOn, Busy, Children

\* An active run on a thread after a step was active before, or a createRun on the
\* thread has inserted it.
LEMMA BusyKept ==
  ASSUME Sound, Kept, NEW thread \in Threads \ crowded', NEW r \in Busy(thread)'
  PROVE  \/ r \in Busy(thread)
         \/ \E h \in Handlers : CommitRun(h) /\ CreatesOn(h, thread)
<1>1. TypeOK /\ \A h \in Handlers : RequestOf(h)
  BY DEF Sound, RequestInv
<1>2. r \in live' \cap Runs /\ thread \in parents'[r] /\ status'[r] \in Active
  BY DEF Busy, Children
<1>3. CASE r \in live
  BY <1>2, <1>3 DEF Kept, Busy, Children
<1>4. CASE r \notin live
  <2>1. PICK h \in Handlers : CommitRun(h) /\ parents'[r] = {req[h].target, req[h].owner}
    BY <1>2, <1>4 DEF Kept
  <2>2. req[h].kind = "createRun" /\ req[h].owner \in Assistants
    BY <1>1, <2>1 DEF CommitRun, RequestOf
  <2>3. req[h].target = thread
    BY <1>2, <2>1, <2>2, OwnershipAssumption
  <2> QED
    BY <2>1, <2>2, <2>3 DEF CreatesOn
<1> QED
  BY <1>3, <1>4

\* createRun leaves no active run on its thread but its own.
LEMMA CommitBusy ==
  ASSUME Sound, OverlapInv, NEW thread, thread \notin crowded,
         NEW h \in Handlers, CommitRun(h), CreatesOn(h, thread)
  PROVE  \E r : Busy(thread)' \subseteq {r}
<1>1. /\ TypeOK /\ req[h].kind = "createRun" /\ step[h] = 6 /\ thread \in Threads
      /\ req[h].strategy \in Strategies
  BY DEF Sound, RequestInv, RequestOf, CommitRun, CreatesOn
<1>2. OnlyCreate(h, thread)
  BY <1>1 DEF OverlapInv
<1>3. req[h].strategy \in {"reject", "interrupt", "rollback"}
  BY <1>1, <1>2, OwnershipAssumption DEF OnlyCreate
<1>4. PICK r \in Unused(Runs) :
        /\ live' = ((live \cup added[h]) \ RolledBack(h)) \cup {r}
        /\ parents' = [parents EXCEPT ![r] = {req[h].target, req[h].owner}]
        /\ status' = [other \in Runs |->
             IF other = r THEN "pending"
             ELSE IF other \in Replaces(h) \ RolledBack(h) THEN "interrupted" ELSE status[other]]
  BY DEF CommitRun
<1>5. added[h] \subseteq Threads /\ Threads \cap Runs = {} /\ Runs \subseteq Rows
  BY <1>1, RowTables, OwnershipAssumption DEF TypeOK
<1>6. ASSUME NEW s \in Runs, s # r, s \in live', thread \in parents'[s], status'[s] \in Active
      PROVE  FALSE
  <2>1. s \in live /\ s \notin RolledBack(h)
    BY <1>4, <1>5, <1>6
  <2>2. thread \in parents[s]
    BY <1>1, <1>4, <1>5, <1>6 DEF TypeOK
  <2>3. s \notin Replaces(h) /\ status[s] \in Active
    <3>1. status'[s] = IF s \in Replaces(h) \ RolledBack(h) THEN "interrupted" ELSE status[s]
      BY <1>4, <1>6
    <3> QED
      BY <1>6, <2>1, <3>1 DEF Active
  <2>4. s \in Busy(thread)
    BY <2>1, <2>2, <2>3 DEF Busy, Children
  <2>5. s = active[h] /\ req[h].strategy # "reject"
    BY <1>1, <1>2, <2>4 DEF OnlyCreate
  <2>6. s \in Replaces(h)
    BY <1>3, <2>1, <2>5 DEF Replaces
  <2> QED
    BY <2>3, <2>6
<1>7. \A s \in Busy(thread)' : /\ s \in live' /\ s \in Runs /\ thread \in parents'[s]
                               /\ status'[s] \in Active
  BY DEF Busy, Children
<1>8. Busy(thread)' \subseteq {r}
  BY <1>6, <1>7
<1> QED
  BY <1>8

\* A createRun that meets another on its thread as it begins, or enqueues, crowds it.
LEMMA BeginOverlap ==
  ASSUME TypeOK, NEW h \in Handlers, BeginRequest(h), NEW thread \in Threads \ crowded',
         req'[h].kind = "createRun", req'[h].target = thread
  PROVE  /\ req'[h].strategy # "enqueue"
         /\ \A other \in Handlers \ {h} : req'[other] = req[other] /\ ~CreatesOn(other, thread)
<1>1. PICK request \in Asked :
        /\ req' = [req EXCEPT ![h] = request]
        /\ crowded' = IF request.kind = "createRun" /\ Overlaps(h, request)
                      THEN crowded \cup {request.target} ELSE crowded
  BY DEF BeginRequest
<1>2. req'[h] = request /\ \A other \in Handlers \ {h} : req'[other] = req[other]
  BY <1>1 DEF TypeOK
<1>3. ~Overlaps(h, request)
  BY <1>1, <1>2
<1> QED
  BY <1>2, <1>3 DEF Overlaps, Others, CreatesOn

\* A createRun on a thread that nobody has crowded was its only create before, or
\* begins as the only one.
LEMMA OnlyStep ==
  ASSUME Sound, OverlapInv, [Next]_vars, NEW thread \in Threads \ crowded',
         NEW h \in Handlers, CreatesOn(h, thread)'
  PROVE  OnlyCreate(h, thread)'
<1>1. /\ TypeOK /\ Kept /\ crowded \subseteq crowded' /\ thread \notin crowded
      /\ req'[h].kind = "createRun" /\ req'[h].target = thread
  BY StepKept DEF Sound, Kept, CreatesOn
<1>2. RunStep(h)
  BY <1>1, RunSteps
<1>3. CASE BeginRequest(h) /\ step'[h] = 1
  <2>1. /\ req'[h].strategy # "enqueue"
        /\ \A other \in Handlers \ {h} : req'[other] = req[other] /\ ~CreatesOn(other, thread)
    BY <1>1, <1>3, BeginOverlap
  <2> QED
    BY <1>3, <2>1 DEF OnlyCreate, CreatesOn
<1>4. CASE req'[h] = req[h]
  <2>1. CreatesOn(h, thread) /\ OnlyCreate(h, thread) /\ \A r, s \in Busy(thread) : r = s
    BY <1>1, <1>4 DEF OverlapInv, CreatesOn
  <2>2. ASSUME NEW other \in Handlers \ {h}, CreatesOn(other, thread)'
        PROVE  FALSE
    <3>1. req'[other].kind = "createRun" /\ req'[other].target = thread
      BY <2>2 DEF CreatesOn
    <3>2. req'[other] # req[other]
      BY <2>1, <3>1 DEF OnlyCreate, CreatesOn
    <3>3. RunStep(other)
      BY <3>1, RunSteps
    <3>4. BeginRequest(other)
      BY <3>2, <3>3 DEF RunStep, Same
    <3>5. ~CreatesOn(h, thread)
      BY <1>1, <3>1, <3>4, BeginOverlap
    <3> QED
      BY <2>1, <3>5
  <2>3. req'[h].strategy # "enqueue"
    BY <1>4, <2>1 DEF OnlyCreate
  <2>4. Busy(thread)' \subseteq Busy(thread)
    <3>1. ASSUME NEW g \in Handlers, CommitRun(g), CreatesOn(g, thread)
          PROVE  FALSE
      <4>1. g = h
        BY <2>1, <3>1 DEF OnlyCreate
      <4>2. Ends(h)
        BY <3>1, <4>1 DEF CommitRun
      <4> QED
        BY <1>1, <4>2, RunStepEnds
    <3> QED
      BY <1>1, <3>1, BusyKept
  <2>5. CASE Same(h)
    <3>1. step'[h] = step[h] /\ active'[h] = active[h]
      BY <2>5 DEF Same
    <3> QED
      BY <1>4, <2>1, <2>2, <2>3, <2>4, <3>1 DEF OnlyCreate
  <2>6. CASE step'[h] \in 1..5
    BY <2>2, <2>3, <2>6 DEF OnlyCreate
  <2>7. CASE /\ step'[h] = 6
             /\ \/ active'[h] \in ActiveRuns(h) /\ req[h].strategy # "reject"
                \/ ActiveRuns(h) = {}
    <3>1. ActiveRuns(h) = Busy(thread)
      BY <1>1, <1>4 DEF ActiveRuns, Busy, Active
    <3>2. /\ Busy(thread)' \subseteq {active'[h]}
          /\ req[h].strategy = "reject" => Busy(thread)' = {}
      BY <2>1, <2>4, <2>7, <3>1
    <3> QED
      BY <1>4, <2>2, <2>3, <3>2 DEF OnlyCreate
  <2> QED
    BY <1>2, <1>3, <2>5, <2>6, <2>7 DEF RunStep
<1> QED
  BY <1>2, <1>3, <1>4 DEF RunStep, Same

\* The invariant holds after every step.
LEMMA OverlapStep == Sound /\ OverlapInv /\ [Next]_vars => OverlapInv'
<1> SUFFICES ASSUME Sound, OverlapInv, [Next]_vars, NEW thread \in Threads \ crowded'
             PROVE  /\ \A r, s \in Busy(thread)' : r = s
                    /\ \A h \in Handlers : CreatesOn(h, thread)' => OnlyCreate(h, thread)'
  BY DEF OverlapInv
<1>1. Kept /\ thread \notin crowded /\ thread \in Threads
  BY StepKept DEF Kept
<1>2. \A r, s \in Busy(thread) : r = s
  BY <1>1 DEF OverlapInv
<1>3. CASE \E h \in Handlers : CommitRun(h) /\ CreatesOn(h, thread)
  <2>1. PICK r : Busy(thread)' \subseteq {r}
    BY <1>1, <1>3, CommitBusy
  <2> QED
    BY <2>1, OnlyStep
<1>4. CASE ~ \E h \in Handlers : CommitRun(h) /\ CreatesOn(h, thread)
  <2>1. Busy(thread)' \subseteq Busy(thread)
    BY <1>1, <1>4, BusyKept
  <2> QED
    BY <1>2, <2>1, OnlyStep
<1> QED
  BY <1>3, <1>4

\* A thread has two active runs only after creates on it that overlapped, or an
\* enqueue, or an execution that reported an active status for a run that was no longer
\* active, although createRun looks for an active run in a statement of its own.
THEOREM OneActiveRun == Spec => []SecondActiveNeedsOverlap
<1>1. Spec => [](Sound /\ OverlapInv)
  BY SoundInit, SoundStep, OverlapInit, OverlapStep, PTL DEF Spec
<1>2. OverlapInv => SecondActiveNeedsOverlap
  <2> SUFFICES ASSUME OverlapInv, NEW thread \in Threads \ crowded
               PROVE  Cardinality(Busy(thread)) <= 1
    BY DEF SecondActiveNeedsOverlap, Busy, Active
  <2>1. \A r, s \in Busy(thread) : r = s
    BY DEF OverlapInv
  <2>2. CASE Busy(thread) = {}
    BY <2>2, FS_EmptySet
  <2>3. CASE \E r : Busy(thread) = {r}
    <3>1. PICK r : Busy(thread) = {r}
      BY <2>3
    <3>2. Cardinality({r}) = 1
      BY FS_Singleton
    <3> QED
      BY <3>1, <3>2
  <2> QED
    BY <2>1, <2>2, <2>3
<1> QED
  BY <1>1, <1>2, PTL

-----------------------------------------------------------------------------
(* What a lone deletion may be refused.                                    *)

\* The run of an execution has what its job has for owner.
SameOwner(x) ==
  \A job \in parents[x] \cap CronJobs, r \in parents[x] \cap Runs : parents[r] = parents[job]
ExecutionInv == \A x \in live \cap Executions : SameOwner(x)

\* Only the dispatch of a cron job inserts an execution.
LEMMA NewExecutions ==
  ASSUME Sound, [Next]_vars, NEW x \in (live' \ live) \cap Executions
  PROVE  \E job \in CronJobs : CreateRunForCron(job)
<1>1. TypeOK /\ \A h \in Handlers : RequestOf(h)
  BY DEF Sound, RequestInv
<1>2. x \notin Assistants \cup Threads \cup Runs \cup CronJobs \cup States \cup Deliveries
  BY OwnershipAssumption
<1>3. ASSUME NEW h \in Handlers, NEW table, InsertRow(h, table), req[h].kind \in SimpleCreates
      PROVE  x \in table
  <2>1. added[h] = {}
    BY <1>1, <1>3, CreateRunKind DEF RequestOf
  <2> QED
    BY <1>3, <2>1 DEF InsertRow, Inserts, Unused
<1>4. ASSUME NEW h \in Handlers, NEW table, CheckAndInsert(h, table), x \notin table,
             req[h].kind \in SimpleCreates
      PROVE  FALSE
  BY <1>3, <1>4 DEF CheckAndInsert, CheckOwner, InsertRefused, RollsBack, tables
<1>5. ASSUME NEW h \in Handlers, Create(h)
      PROVE  FALSE
  <2>1. ASSUME \/ CreateAssistant(h) \/ CreateThread(h) \/ CreateStatelessRun(h)
               \/ CreateCron(h) \/ UpdateThreadState(h)
        PROVE  FALSE
    BY <1>2, <1>4, <2>1 DEF CreateAssistant, CreateThread, CreateStatelessRun, CreateCron,
                            UpdateThreadState, SimpleCreates
  <2>2. ASSUME CheckAssistant(h) \/ CheckThread(h) \/ CheckThreadGlobal(h) \/ InsertThread(h)
               \/ SelectActiveRun(h) \/ CommitRunRefused(h)
        PROVE  FALSE
    BY <2>2 DEF CheckAssistant, CheckThread, CheckThreadGlobal, InsertThread, SelectActiveRun, CommitRunRefused,
                RollsBack, tables
  <2>3. ASSUME CommitRun(h)
        PROVE  FALSE
    <3>1. PICK r \in Unused(Runs) : live' = ((live \cup added[h]) \ RolledBack(h)) \cup {r}
      BY <2>3 DEF CommitRun
    <3>2. added[h] \subseteq Threads /\ r \in Runs
      BY <1>1, <3>1 DEF TypeOK, Unused
    <3> QED
      BY <1>2, <3>1, <3>2
  <2> QED
    BY <1>5, <2>1, <2>2, <2>3 DEF Create
<1>6. ASSUME NEW h \in Handlers, BeginRequest(h) \/ Delete(h) \/ Abort(h)
      PROVE  FALSE
  BY <1>6 DEF BeginRequest, Delete, Abort, CheckTarget, DeleteRows, DeleteRefused, RollsBack,
              tables
<1>7. ASSUME NEW r \in Runs, FetchNextPendingRun(r) \/ UpdateRunResult(r) \/ RollbackRun(r)
                               \/ EnqueueWebhookForRun(r)
      PROVE  FALSE
  BY <1>2, <1>7 DEF FetchNextPendingRun, UpdateRunResult, RollbackRun, EnqueueWebhookForRun,
                    Unused
<1>8. ~ UNCHANGED vars
  BY DEF vars, tables
<1> QED
  BY <1>5, <1>6, <1>7, <1>8 DEF Next

\* There is no run at first, so there is no execution.
LEMMA ExecutionInit == Init => ExecutionInv
<1> SUFFICES ASSUME Init, NEW x \in live \cap Executions
             PROVE  FALSE
  BY DEF ExecutionInv
<1>1. x \in FirstRows /\ FirstRows \cap Runs = {} /\ FirstOwners[x] \in SUBSET FirstRows
  BY OwnershipAssumption DEF Init
<1>2. Refers(x, FirstOwners[x])
  BY <1>1, OwnershipAssumption
<1>3. \E job \in CronJobs, run \in Runs : FirstOwners[x] = {job, run}
  BY <1>2, KeysOf
<1> QED
  BY <1>1, <1>3

\* The invariant holds after every step.
LEMMA ExecutionStep == Sound /\ ExecutionInv /\ [Next]_vars => ExecutionInv'
<1> SUFFICES ASSUME Sound, ExecutionInv, [Next]_vars, NEW x \in live' \cap Executions
             PROVE  SameOwner(x)'
  BY DEF ExecutionInv
<1>1. TypeOK /\ Kept
  BY StepKept DEF Sound
<1>2. CASE x \in live
  BY <1>1, <1>2 DEF ExecutionInv, SameOwner, Kept, TypeOK
<1>3. CASE x \notin live
  <2>1. PICK job \in CronJobs : CreateRunForCron(job)
    BY <1>3, NewExecutions
  <2>2. PICK r \in Unused(Runs), y \in Unused(Executions) :
          /\ live' = live \cup {r, y}
          /\ parents' = [parents EXCEPT ![r] = parents[job], ![y] = {job, r}]
    BY <2>1 DEF CreateRunForCron
  <2>3. /\ r \in Runs /\ r \in Rows /\ y \in Rows /\ r # y /\ x = y /\ r # job
        /\ job \notin Runs /\ r \notin CronJobs /\ job # y /\ job \in Rows
    BY <1>3, <2>2, RowTables, OwnershipAssumption DEF Unused
  <2>4. parents'[x] = {job, r} /\ parents'[r] = parents[job] /\ parents'[job] = parents[job]
    BY <1>1, <2>2, <2>3 DEF TypeOK
  <2> QED
    BY <2>3, <2>4 DEF SameOwner
<1> QED
  BY <1>2, <1>3

-----------------------------------------------------------------------------
\* The rows of a table that refer to some, for given rows and references.
Kids(p, rows, table, owners) == {row \in rows \cap table : p[row] \cap owners # {}}

\* With fewer rows and fewer owners there are fewer, and none once they are deleted.
LEMMA KidsShrink ==
  ASSUME NEW p, NEW rows, NEW fewer \in SUBSET rows, NEW table,
         NEW owners, NEW less \in SUBSET owners
  PROVE  /\ Kids(p, fewer, table, less) \subseteq Kids(p, rows, table, owners)
         /\ Kids(p, fewer, table, less) \subseteq fewer
  BY DEF Kids

\* What the statements of a deletion before statement k have left none of: of a run,
\* of a thread, of assistants, of a deployment.
EmptiedRun(k, run, p, rows) ==
  k \in 1..3 /\ (k >= 3 => Kids(p, rows, Deliveries, {run}) = {})

EmptiedThread(k, thread, p, rows) ==
  /\ k \in 1..4
  /\ k >= 3 => Kids(p, rows, Deliveries, Kids(p, rows, Runs, {thread})) = {}
  /\ k >= 4 => Kids(p, rows, Runs, {thread}) = {}

EmptiedOwned(k, owners, p, rows) ==
  /\ k >= 3 => Kids(p, rows, Deliveries, Kids(p, rows, Runs, owners)) = {}
  /\ k >= 4 => Kids(p, rows, Executions, Kids(p, rows, CronJobs, owners)) = {}
  /\ k >= 5 => Kids(p, rows, CronJobs, owners) = {}
  /\ k >= 6 => Kids(p, rows, Runs, owners) = {}
  /\ k >= 7 => Kids(p, rows, Threads, owners) = {}

EmptiedDeployment(k, deployment, p, rows) ==
  /\ k \in 1..9
  /\ EmptiedOwned(k, Kids(p, rows, Assistants, {deployment}), p, rows)
  /\ k >= 8 => Kids(p, rows, Assistants, {deployment}) = {}
  /\ k >= 9 => Kids(p, rows, Builds, {deployment}) = {}

\* What a statement deletes.
OwnedStatement(k, owners, p, rows) ==
  IF k = 2 THEN Kids(p, rows, Deliveries, Kids(p, rows, Runs, owners))
  ELSE IF k = 3 THEN Kids(p, rows, Executions, Kids(p, rows, CronJobs, owners))
  ELSE IF k = 4 THEN Kids(p, rows, CronJobs, owners)
  ELSE IF k = 5 THEN Kids(p, rows, Runs, owners)
  ELSE Kids(p, rows, Threads, owners)

\* A statement leaves none of what it deletes, and what was emptied stays empty:
\* the deletion of a run.
LEMMA EmptiedRunStep ==
  ASSUME NEW k \in 2..2, NEW run, NEW p, NEW rows, NEW fewer \in SUBSET rows,
         EmptiedRun(k, run, p, rows), fewer \cap Kids(p, rows, Deliveries, {run}) = {}
  PROVE  EmptiedRun(k + 1, run, p, fewer)
  BY DEF EmptiedRun, Kids

\* The same for the deletion of a thread.
LEMMA EmptiedThreadStep ==
  ASSUME NEW k \in 2..3, NEW thread, NEW p, NEW rows, NEW fewer \in SUBSET rows,
         EmptiedThread(k, thread, p, rows),
         k = 2 => fewer \cap Kids(p, rows, Deliveries, Kids(p, rows, Runs, {thread})) = {},
         k = 3 => fewer \cap Kids(p, rows, Runs, {thread}) = {}
  PROVE  EmptiedThread(k + 1, thread, p, fewer)
<1> DEFINE runs == Kids(p, rows, Runs, {thread})
           less == Kids(p, fewer, Runs, {thread})
           deliveries == Kids(p, rows, Deliveries, runs)
           few == Kids(p, fewer, Deliveries, less)
<1>1. less \subseteq runs /\ less \subseteq fewer
  BY KidsShrink
<1>2. few \subseteq deliveries /\ few \subseteq fewer
  <2> HIDE DEF runs, less
  <2> QED
    BY <1>1, KidsShrink
<1>3. /\ k >= 3 => deliveries = {}
      /\ k = 2 => fewer \cap deliveries = {}
      /\ k = 3 => fewer \cap runs = {}
  BY DEF EmptiedThread
<1>4. k + 1 \in 1..4 /\ (k + 1 >= 3) /\ (k + 1 >= 4 => k = 3) /\ (k = 2 \/ k >= 3)
  OBVIOUS
<1> SUFFICES few = {} /\ (k = 3 => less = {})
  BY <1>4 DEF EmptiedThread
<1> HIDE DEF runs, less, deliveries, few
<1> QED
  BY <1>1, <1>2, <1>3, <1>4

\* The same for what assistants own, of which some may be deleted themselves.
LEMMA EmptiedOwnedStep ==
  ASSUME NEW k \in 2..8, NEW owners, NEW remaining \in SUBSET owners,
         NEW p, NEW rows, NEW fewer \in SUBSET rows, EmptiedOwned(k, owners, p, rows),
         k <= 6 => fewer \cap OwnedStatement(k, owners, p, rows) = {}
  PROVE  EmptiedOwned(k + 1, remaining, p, fewer)
<1> DEFINE runs == Kids(p, rows, Runs, owners)
           runs2 == Kids(p, fewer, Runs, remaining)
           jobs == Kids(p, rows, CronJobs, owners)
           jobs2 == Kids(p, fewer, CronJobs, remaining)
           threads == Kids(p, rows, Threads, owners)
           threads2 == Kids(p, fewer, Threads, remaining)
           deliveries == Kids(p, rows, Deliveries, runs)
           deliveries2 == Kids(p, fewer, Deliveries, runs2)
           executions == Kids(p, rows, Executions, jobs)
           executions2 == Kids(p, fewer, Executions, jobs2)
<1>1. /\ runs2 \subseteq runs /\ runs2 \subseteq fewer
      /\ jobs2 \subseteq jobs /\ jobs2 \subseteq fewer
      /\ threads2 \subseteq threads /\ threads2 \subseteq fewer
  BY KidsShrink
<1>2. deliveries2 \subseteq deliveries /\ deliveries2 \subseteq fewer
  <2> HIDE DEF runs, runs2
  <2> QED
    BY <1>1, KidsShrink
<1>3. executions2 \subseteq executions /\ executions2 \subseteq fewer
  <2> HIDE DEF jobs, jobs2
  <2> QED
    BY <1>1, KidsShrink
<1>4. /\ k >= 3 => deliveries = {}
      /\ k >= 4 => executions = {}
      /\ k >= 5 => jobs = {}
      /\ k >= 6 => runs = {}
      /\ k >= 7 => threads = {}
  BY DEF EmptiedOwned
<1>5. /\ k = 2 => fewer \cap deliveries = {}
      /\ k = 3 => fewer \cap executions = {}
      /\ k = 4 => fewer \cap jobs = {}
      /\ k = 5 => fewer \cap runs = {}
      /\ k = 6 => fewer \cap threads = {}
  BY DEF OwnedStatement
<1> SUFFICES /\ k + 1 >= 3 => deliveries2 = {}
             /\ k + 1 >= 4 => executions2 = {}
             /\ k + 1 >= 5 => jobs2 = {}
             /\ k + 1 >= 6 => runs2 = {}
             /\ k + 1 >= 7 => threads2 = {}
  BY DEF EmptiedOwned
<1>6. /\ k + 1 >= 3 => k = 2 \/ k >= 3
      /\ k + 1 >= 4 => k = 3 \/ k >= 4
      /\ k + 1 >= 5 => k = 4 \/ k >= 5
      /\ k + 1 >= 6 => k = 5 \/ k >= 6
      /\ k + 1 >= 7 => k = 6 \/ k >= 7
  OBVIOUS
<1> HIDE DEF runs, runs2, jobs, jobs2, threads, threads2, deliveries, deliveries2, executions,
             executions2
<1> QED
  BY <1>1, <1>2, <1>3, <1>4, <1>5, <1>6

\* The same for the deletion of a deployment.
LEMMA EmptiedDeploymentStep ==
  ASSUME NEW k \in 2..8, NEW deployment, NEW p, NEW rows, NEW fewer \in SUBSET rows,
         EmptiedDeployment(k, deployment, p, rows),
         k <= 6 => fewer \cap OwnedStatement(k, Kids(p, rows, Assistants, {deployment}), p, rows)
                     = {},
         k = 7 => fewer \cap Kids(p, rows, Assistants, {deployment}) = {},
         k = 8 => fewer \cap Kids(p, rows, Builds, {deployment}) = {}
  PROVE  EmptiedDeployment(k + 1, deployment, p, fewer)
<1> DEFINE owners == Kids(p, rows, Assistants, {deployment})
           remaining == Kids(p, fewer, Assistants, {deployment})
           builds == Kids(p, rows, Builds, {deployment})
           builds2 == Kids(p, fewer, Builds, {deployment})
<1>1. /\ remaining \subseteq owners /\ remaining \subseteq fewer
      /\ builds2 \subseteq builds /\ builds2 \subseteq fewer
  BY KidsShrink
<1>2. /\ EmptiedOwned(k, owners, p, rows)
      /\ k <= 6 => fewer \cap OwnedStatement(k, owners, p, rows) = {}
      /\ k = 7 => fewer \cap owners = {}
      /\ k = 8 => fewer \cap builds = {}
  BY DEF EmptiedDeployment
<1>3. EmptiedOwned(k + 1, remaining, p, fewer)
  <2> HIDE DEF owners, remaining
  <2> QED
    BY <1>1, <1>2, EmptiedOwnedStep
<1>4. k >= 8 => owners = {}
  BY DEF EmptiedDeployment
<1>5. k + 1 \in 1..9 /\ (k + 1 >= 8 => k = 7 \/ k >= 8) /\ (k + 1 >= 9 => k = 8)
  OBVIOUS
<1> SUFFICES (k + 1 >= 8 => remaining = {}) /\ (k + 1 >= 9 => builds2 = {})
  BY <1>3, <1>5 DEF EmptiedDeployment
<1> HIDE DEF owners, remaining, builds, builds2
<1> QED
  BY <1>1, <1>2, <1>4, <1>5

-----------------------------------------------------------------------------
\* What a deletion has emptied so far.
Emptied(h) ==
  /\ req[h].kind = "deleteRun" => EmptiedRun(step[h], req[h].target, parents, Seen(h))
  /\ req[h].kind = "deleteThread" => EmptiedThread(step[h], req[h].target, parents, Seen(h))
  /\ req[h].kind = "deleteAssistant" =>
       step[h] \in 1..7 /\ EmptiedOwned(step[h], {req[h].target}, parents, Seen(h))
  /\ req[h].kind = "deleteDeployment" =>
       EmptiedDeployment(step[h], req[h].target, parents, Seen(h))
  /\ req[h].kind = "deleteCron" => step[h] = 2

\* A request that is alone has deleted all its earlier statements are about.
LoneInv ==
  \A h \in Handlers : alone = h =>
    /\ step[h] # 0 /\ \A other \in Handlers \ {h} : step[other] = 0
    /\ Emptied(h)

\* The rows of a table that a plan names.
LEMMA DeletedKids ==
  ASSUME NEW h, NEW table, NEW owners
  PROVE  DeletedOf(h, table, owners) = Kids(parents, Seen(h), table, owners)
  BY DEF DeletedOf, Children, Kids

\* The statement a request has come to.
LEMMA StatementAt ==
  ASSUME NEW h, NEW k \in Nat, step[h] = k + 1
  PROVE  Statement(h) = Plan(h)[k] \cap Seen(h)
<1>1. step[h] - 1 = k
  OBVIOUS
<1> QED
  BY <1>1 DEF Statement

\* The statements of deleteRun.
LEMMA RunStatements ==
  ASSUME NEW h, req[h].kind = "deleteRun"
  PROVE  /\ Len(Plan(h)) = 2
         /\ step[h] = 2 =>
              Statement(h) = Kids(parents, Seen(h), Deliveries, {req[h].target}) \cap Seen(h)
         /\ step[h] = 3 => Statement(h) = {req[h].target} \cap Seen(h)
<1>1. Plan(h) = <<Kids(parents, Seen(h), Deliveries, {req[h].target}), {req[h].target}>>
  BY DeletedKids DEF Plan, DeleteRunPlan
<1>2. /\ Len(Plan(h)) = 2 /\ Plan(h)[2] = {req[h].target}
      /\ Plan(h)[1] = Kids(parents, Seen(h), Deliveries, {req[h].target})
  BY <1>1
<1>3. /\ step[h] = 2 => Statement(h) = Plan(h)[1] \cap Seen(h)
      /\ step[h] = 3 => Statement(h) = Plan(h)[2] \cap Seen(h)
  BY StatementAt
<1> QED
  BY <1>2, <1>3

\* The statements of deleteThread.
LEMMA ThreadStatements ==
  ASSUME NEW h, req[h].kind = "deleteThread"
  PROVE  /\ Len(Plan(h)) = 3
         /\ step[h] = 2 =>
              Statement(h) = Kids(parents, Seen(h), Deliveries,
                                  Kids(parents, Seen(h), Runs, {req[h].target})) \cap Seen(h)
         /\ step[h] = 3 =>
              Statement(h) = Kids(parents, Seen(h), Runs, {req[h].target}) \cap Seen(h)
         /\ step[h] = 4 => Statement(h) = {req[h].target} \cap Seen(h)
<1>1. Plan(h) = <<Kids(parents, Seen(h), Deliveries,
                       Kids(parents, Seen(h), Runs, {req[h].target})),
                  Kids(parents, Seen(h), Runs, {req[h].target}), {req[h].target}>>
  BY DeletedKids DEF Plan, DeleteThreadPlan
<1>2. /\ Len(Plan(h)) = 3 /\ Plan(h)[3] = {req[h].target}
      /\ Plan(h)[1] = Kids(parents, Seen(h), Deliveries,
                           Kids(parents, Seen(h), Runs, {req[h].target}))
      /\ Plan(h)[2] = Kids(parents, Seen(h), Runs, {req[h].target})
  BY <1>1
<1>3. /\ step[h] = 2 => Statement(h) = Plan(h)[1] \cap Seen(h)
      /\ step[h] = 3 => Statement(h) = Plan(h)[2] \cap Seen(h)
      /\ step[h] = 4 => Statement(h) = Plan(h)[3] \cap Seen(h)
  BY StatementAt
<1> QED
  BY <1>2, <1>3

\* The plan of assistants, in the order of OwnedStatement.
LEMMA AssistantsPlanIs ==
  ASSUME NEW h, NEW owners
  PROVE  /\ AssistantsPlan(h, owners) =
              <<AssistantsPlan(h, owners)[1], AssistantsPlan(h, owners)[2],
                AssistantsPlan(h, owners)[3], AssistantsPlan(h, owners)[4],
                AssistantsPlan(h, owners)[5], owners>>
         /\ \A k \in 2..6 : AssistantsPlan(h, owners)[k - 1]
                              = OwnedStatement(k, owners, parents, Seen(h))
<1>1. AssistantsPlan(h, owners) =
        <<OwnedStatement(2, owners, parents, Seen(h)), OwnedStatement(3, owners, parents, Seen(h)),
          OwnedStatement(4, owners, parents, Seen(h)), OwnedStatement(5, owners, parents, Seen(h)),
          OwnedStatement(6, owners, parents, Seen(h)), owners>>
  BY DeletedKids DEF AssistantsPlan, OwnedStatement
<1>2. ASSUME NEW k \in 2..6
      PROVE  AssistantsPlan(h, owners)[k - 1] = OwnedStatement(k, owners, parents, Seen(h))
  <2>1. k = 2 \/ k = 3 \/ k = 4 \/ k = 5 \/ k = 6
    OBVIOUS
  <2> QED
    BY <1>1, <2>1
<1> QED
  BY <1>1, <1>2

\* The statements of deleteAssistant.
LEMMA AssistantStatements ==
  ASSUME NEW h, req[h].kind = "deleteAssistant"
  PROVE  /\ Len(Plan(h)) = 6
         /\ step[h] \in 2..6 =>
              Statement(h) = OwnedStatement(step[h], {req[h].target}, parents, Seen(h))
                               \cap Seen(h)
         /\ step[h] = 7 => Statement(h) = {req[h].target} \cap Seen(h)
<1> DEFINE plan == AssistantsPlan(h, {req[h].target})
<1>1. Plan(h) = plan
  BY DEF Plan, DeleteAssistantPlan
<1>2. /\ plan = <<plan[1], plan[2], plan[3], plan[4], plan[5], {req[h].target}>>
      /\ \A k \in 2..6 : plan[k - 1] = OwnedStatement(k, {req[h].target}, parents, Seen(h))
  BY AssistantsPlanIs
<1> HIDE DEF plan
<1>3. Len(plan) = 6 /\ plan[6] = {req[h].target}
  BY <1>2
<1>4. Statement(h) = plan[step[h] - 1] \cap Seen(h)
  BY <1>1 DEF Statement
<1> QED
  BY <1>1, <1>2, <1>3, <1>4

\* A sequence of six and one of two.
LEMMA SixAndTwo ==
  ASSUME NEW a, NEW b, NEW c, NEW d, NEW e, NEW f, NEW g, NEW i,
         NEW both, both = <<a, b, c, d, e, f>> \o <<g, i>>
  PROVE  /\ Len(both) = 8
         /\ both[1] = a /\ both[2] = b /\ both[3] = c /\ both[4] = d
         /\ both[5] = e /\ both[6] = f /\ both[7] = g /\ both[8] = i
<1> DEFINE S == {a, b, c, d, e, f, g, i}
           s == <<a, b, c, d, e, f>>
           t == <<g, i>>
<1>1. s \in Seq(S) /\ t \in Seq(S) /\ Len(s) = 6 /\ Len(t) = 2
  OBVIOUS
<1>2. /\ s[1] = a /\ s[2] = b /\ s[3] = c /\ s[4] = d /\ s[5] = e /\ s[6] = f
      /\ t[1] = g /\ t[2] = i
  OBVIOUS
<1>3. both = s \o t
  OBVIOUS
<1> HIDE DEF S, s, t
<1>4. /\ Len(both) = Len(s) + Len(t)
      /\ \A n \in 1..Len(s) + Len(t) : both[n] = IF n <= Len(s) THEN s[n] ELSE t[n - Len(s)]
  <2>1. /\ Len(s \o t) = Len(s) + Len(t)
        /\ \A n \in 1..Len(s) + Len(t) :
             (s \o t)[n] = IF n <= Len(s) THEN s[n] ELSE t[n - Len(s)]
    BY <1>1, ConcatProperties
  <2> QED
    BY <1>3, <2>1
<1>5. /\ Len(both) = 8
      /\ \A n \in 1..8 : both[n] = IF n <= 6 THEN s[n] ELSE t[n - 6]
  BY <1>1, <1>4
<1> QED
  BY <1>2, <1>5

\* The statements of deleteDeployment.
LEMMA DeploymentStatements ==
  ASSUME NEW h, req[h].kind = "deleteDeployment",
         NEW owners, owners = Kids(parents, Seen(h), Assistants, {req[h].target})
  PROVE  /\ Len(Plan(h)) = 8
         /\ step[h] \in 2..6 =>
              Statement(h) = OwnedStatement(step[h], owners, parents, Seen(h)) \cap Seen(h)
         /\ step[h] = 7 => Statement(h) = owners \cap Seen(h)
         /\ step[h] = 8 =>
              Statement(h) = Kids(parents, Seen(h), Builds, {req[h].target}) \cap Seen(h)
         /\ step[h] = 9 => Statement(h) = {req[h].target} \cap Seen(h)
<1> DEFINE first == AssistantsPlan(h, owners)
           builds == Kids(parents, Seen(h), Builds, {req[h].target})
<1>1. Plan(h) = first \o <<builds, {req[h].target}>>
  BY DeletedKids DEF Plan, DeleteDeploymentPlan
<1>2. /\ first = <<first[1], first[2], first[3], first[4], first[5], owners>>
      /\ \A k \in 2..6 : first[k - 1] = OwnedStatement(k, owners, parents, Seen(h))
  BY AssistantsPlanIs
<1> HIDE DEF first, builds
<1>3. /\ Len(Plan(h)) = 8 /\ Plan(h)[6] = owners /\ Plan(h)[7] = builds
      /\ Plan(h)[8] = {req[h].target}
      /\ Plan(h)[1] = first[1] /\ Plan(h)[2] = first[2] /\ Plan(h)[3] = first[3]
      /\ Plan(h)[4] = first[4] /\ Plan(h)[5] = first[5]
  <2>1. Plan(h) = <<first[1], first[2], first[3], first[4], first[5], owners>>
                    \o <<builds, {req[h].target}>>
    BY <1>1, <1>2
  <2> QED
    BY <2>1, SixAndTwo
<1>4. ASSUME step[h] \in 2..6
      PROVE  Plan(h)[step[h] - 1] = OwnedStatement(step[h], owners, parents, Seen(h))
  <2>1. \/ step[h] = 2 \/ step[h] = 3 \/ step[h] = 4 \/ step[h] = 5 \/ step[h] = 6
    BY <1>4
  <2>2. Plan(h)[step[h] - 1] = first[step[h] - 1]
    BY <1>3, <2>1
  <2> QED
    BY <1>2, <1>4, <2>2
<1>6. Statement(h) = Plan(h)[step[h] - 1] \cap Seen(h)
  BY DEF Statement
<1>7. builds = Kids(parents, Seen(h), Builds, {req[h].target})
  BY DEF builds
<1> QED
  BY <1>3, <1>4, <1>6, <1>7

\* The statement of deleteCron.
LEMMA CronStatements ==
  ASSUME NEW h, req[h].kind = "deleteCron"
  PROVE  /\ Len(Plan(h)) = 1
         /\ step[h] = 2 => Statement(h) \subseteq {req[h].target}
<1>1. Plan(h) = DeleteCronPlan(h)
  BY DEF Plan
<1> QED
  BY <1>1 DEF DeleteCronPlan, Statement

-----------------------------------------------------------------------------
\* The cases in which LoneDeletionSucceeds lets a deletion fail.
Excused(request) ==
  \/ request.kind \in {"deleteRun", "deleteCron"} /\ HasExecution(request.target)
  \/ request.kind = "deleteAssistant" /\ Crossed({request.target})
  \/ /\ request.kind = "deleteDeployment"
     /\ Crossed(Children(live, Assistants, {request.target}))

\* What a deletion still sees refers to rows that it sees.
LEMMA SeenRefers ==
  ASSUME Sound, NEW h \in Handlers, req[h].kind \in Deletes, NEW row \in Seen(h)
  PROVE  /\ row \in live /\ row \in Rows /\ Refers(row, parents[row])
         /\ parents[row] \subseteq Seen(h) /\ parents[row] \cap gone[h] = {}
<1>1. TypeOK /\ LockInv /\ RequestOf(h)
  BY DEF Sound, RequestInv
<1>2. added[h] = {}
  BY <1>1, CreateRunKind DEF RequestOf
<1>3. row \in live \ gone[h] /\ Seen(h) = live \ gone[h]
  BY <1>2 DEF Seen
<1>4. row \in Rows /\ Refers(row, parents[row]) /\ parents[row] \subseteq live
  BY <1>1, <1>3 DEF TypeOK
<1>5. parents[row] \cap gone[h] = {}
  BY <1>1, <1>3 DEF LockInv
<1> QED
  BY <1>3, <1>4, <1>5

\* The statements before the last, of the deletion of assistants: only a run of
\* another assistant on one of their threads is in the way.
LEMMA OwnedRefused ==
  ASSUME Sound, ExecutionInv, NEW h \in Handlers, req[h].kind \in Deletes,
         NEW owners, NEW k \in 2..6, EmptiedOwned(k, owners, parents, Seen(h)),
         NEW row \in Seen(h), row \notin States,
         NEW owner \in OwnedStatement(k, owners, parents, Seen(h)), owner \in parents[row]
  PROVE  /\ row \in Runs /\ parents[row] \cap owners = {}
         /\ owner \in Kids(parents, Seen(h), Threads, owners)
<1>1. /\ row \in live /\ Refers(row, parents[row]) /\ parents[row] \subseteq Seen(h)
  BY SeenRefers
<1>2. /\ parents[row] \cap (Builds \cup States \cup Executions \cup Deliveries) = {}
      /\ parents[row] \cap Threads # {} => row \in States \cup Runs
      /\ parents[row] \cap CronJobs # {} => row \in Executions
      /\ parents[row] \cap Runs # {} => row \in Executions \cup Deliveries
  BY <1>1, Keys
<1>3. owner \notin Deliveries /\ owner \notin Executions
  BY <1>2
<1>4. CASE k = 2
  BY <1>3, <1>4 DEF OwnedStatement, Kids
<1>5. CASE k = 3
  BY <1>3, <1>5 DEF OwnedStatement, Kids
<1>6. CASE k = 4
  <2>1. owner \in Kids(parents, Seen(h), CronJobs, owners)
    BY <1>6 DEF OwnedStatement
  <2>2. row \in Executions
    BY <1>2, <2>1 DEF Kids
  <2>3. row \in Kids(parents, Seen(h), Executions, Kids(parents, Seen(h), CronJobs, owners))
    BY <2>1, <2>2 DEF Kids
  <2> QED
    BY <1>6, <2>3 DEF EmptiedOwned
<1>7. CASE k = 5
  <2>1. owner \in Kids(parents, Seen(h), Runs, owners)
    BY <1>7 DEF OwnedStatement
  <2>2. owner \in Runs /\ parents[owner] \cap owners # {}
    BY <2>1 DEF Kids
  <2>3. CASE row \in Deliveries
    <3>1. row \in Kids(parents, Seen(h), Deliveries, Kids(parents, Seen(h), Runs, owners))
      BY <2>1, <2>3 DEF Kids
    <3> QED
      BY <1>7, <3>1 DEF EmptiedOwned
  <2>4. CASE row \in Executions
    <3>1. PICK job \in CronJobs, run \in Runs : parents[row] = {job, run}
      BY <1>1, <2>4, KeysOf
    <3>2. owner = run
      BY <2>2, <3>1, OwnershipAssumption
    <3>3. parents[job] = parents[owner]
      BY <1>1, <2>4, <3>1, <3>2 DEF ExecutionInv, SameOwner
    <3>4. job \in Kids(parents, Seen(h), CronJobs, owners)
      BY <1>1, <2>2, <3>1, <3>3 DEF Kids
    <3> QED
      BY <1>7, <3>4 DEF EmptiedOwned
  <2> QED
    BY <1>2, <2>2, <2>3, <2>4
<1>8. CASE k = 6
  <2>1. owner \in Kids(parents, Seen(h), Threads, owners)
    BY <1>8 DEF OwnedStatement
  <2>2. row \in Runs
    BY <1>2, <2>1 DEF Kids
  <2>3. row \notin Kids(parents, Seen(h), Runs, owners)
    BY <1>8 DEF EmptiedOwned
  <2> QED
    BY <2>1, <2>2, <2>3 DEF Kids
<1> QED
  BY <1>4, <1>5, <1>6, <1>7, <1>8

\* A statement of a deletion that has emptied what it should is refused only in the
\* cases that LoneDeletionSucceeds names.
LEMMA RefusedExcused ==
  ASSUME Sound, ExecutionInv, NEW h \in Handlers, req[h].kind \in Deletes, step[h] >= 2,
         Emptied(h), Refused(h, Statement(h))
  PROVE  Excused(req[h])
<1> DEFINE target == req[h].target
           rows == Seen(h)
<1>1. PICK row \in rows, owner \in Statement(h) : row \notin States /\ owner \in parents[row]
  BY DEF Refused, Children
<1>2. /\ row \in live /\ row \in Rows /\ Refers(row, parents[row]) /\ parents[row] \subseteq rows
      /\ parents[row] \cap gone[h] = {}
  BY <1>1, SeenRefers
<1>3. /\ parents[row] \cap (Builds \cup States \cup Executions \cup Deliveries) = {}
      /\ parents[row] \cap Deployments # {} => row \in Builds \cup Assistants
      /\ parents[row] \cap Assistants # {} => row \in Threads \cup CronJobs \cup Runs
      /\ parents[row] \cap Threads # {} => row \in States \cup Runs
      /\ parents[row] \cap CronJobs # {} => row \in Executions
      /\ parents[row] \cap Runs # {} => row \in Executions \cup Deliveries
  BY <1>2, Keys
<1>4. /\ TypeOK /\ rows \subseteq live /\ live \subseteq Rows
      /\ \A r \in live : r \in rows \/ r \in gone[h]
  BY SeenRefers DEF Sound, TypeOK, Seen
<1>5. target \in TargetTable[req[h].kind]
  BY DEF Sound, RequestInv, RequestOf
<1> HIDE DEF rows
<1>6. CASE req[h].kind = "deleteRun"
  <2>1. step[h] = 2 \/ step[h] = 3
    BY <1>6 DEF Emptied, EmptiedRun
  <2>2. ASSUME step[h] = 2
        PROVE  FALSE
    <3>1. owner \in Deliveries
      BY <1>1, <1>6, <2>2, RunStatements DEF Kids
    <3> QED
      BY <1>1, <1>3, <3>1
  <2>3. step[h] = 3 /\ owner = target /\ target \in Runs
    BY <1>1, <1>5, <1>6, <2>1, <2>2, RunStatements, NamedTables
  <2>4. row \notin Deliveries
    <3>1. Kids(parents, Seen(h), Deliveries, {target}) = {}
      BY <1>6, <2>3 DEF Emptied, EmptiedRun
    <3> QED
      BY <1>1, <2>3, <3>1 DEF Kids, rows
  <2>5. row \in Executions
    BY <1>1, <1>3, <2>3, <2>4
  <2>6. HasExecution(target)
    BY <1>1, <1>2, <2>3, <2>5 DEF HasExecution, Children
  <2> QED
    BY <1>6, <2>6 DEF Excused
<1>7. CASE req[h].kind = "deleteCron"
  <2>1. step[h] = 2
    BY <1>7 DEF Emptied
  <2>2. owner = target /\ target \in CronJobs
    BY <1>1, <1>5, <1>7, <2>1, CronStatements, NamedTables
  <2>3. row \in Executions
    BY <1>1, <1>3, <2>2
  <2>4. HasExecution(target)
    BY <1>1, <1>2, <2>2, <2>3 DEF HasExecution, Children
  <2> QED
    BY <1>7, <2>4 DEF Excused
<1>8. CASE req[h].kind = "deleteThread"
  <2> DEFINE runs == Kids(parents, Seen(h), Runs, {target})
  <2>1. EmptiedThread(step[h], target, parents, Seen(h))
    BY <1>8 DEF Emptied
  <2>2. step[h] = 2 \/ step[h] = 3 \/ step[h] = 4
    BY <2>1 DEF EmptiedThread
  <2>3. ASSUME step[h] = 2
        PROVE  FALSE
    <3>1. owner \in Deliveries
      BY <1>1, <1>8, <2>3, ThreadStatements DEF Kids
    <3> QED
      BY <1>1, <1>3, <3>1
  <2>4. ASSUME step[h] = 3
        PROVE  FALSE
    <3>1. owner \in runs
      BY <1>1, <1>8, <2>4, ThreadStatements
    <3>2. owner \in Runs /\ target \in parents[owner] /\ target \in Threads
      BY <1>5, <1>8, <3>1, NamedTables DEF Kids
    <3>3. CASE row \in Deliveries
      <4>1. row \in Kids(parents, Seen(h), Deliveries, runs)
        BY <1>1, <3>1, <3>3 DEF Kids, rows
      <4> QED
        BY <2>1, <2>4, <4>1 DEF EmptiedThread
    <3>4. CASE row \in Executions
      <4>1. PICK job \in CronJobs, run \in Runs : parents[row] = {job, run}
        BY <1>2, <3>4, KeysOf
      <4>2. owner = run
        BY <1>1, <3>2, <4>1, OwnershipAssumption
      <4>3. parents[job] = parents[owner]
        BY <1>2, <3>4, <4>1, <4>2 DEF ExecutionInv, SameOwner
      <4>4. Refers(job, parents[job])
        BY <1>2, <1>4, <4>1 DEF TypeOK
      <4>5. PICK assistant \in Assistants : parents[job] = {assistant}
        BY <4>1, <4>4, KeysOf
      <4> QED
        BY <3>2, <4>3, <4>5, OwnershipAssumption
    <3> QED
      BY <1>1, <1>3, <3>2, <3>3, <3>4
  <2>5. step[h] = 4 /\ owner = target /\ target \in Threads
    BY <1>1, <1>5, <1>8, <2>2, <2>3, <2>4, ThreadStatements, NamedTables
  <2>6. row \in Runs
    BY <1>1, <1>3, <2>5
  <2>7. row \in runs
    BY <1>1, <2>5, <2>6 DEF Kids, rows
  <2> QED
    BY <2>1, <2>5, <2>7 DEF EmptiedThread
<1>9. CASE req[h].kind = "deleteAssistant"
  <2>1. step[h] \in 1..7 /\ EmptiedOwned(step[h], {target}, parents, Seen(h))
    BY <1>9 DEF Emptied
  <2>2. CASE step[h] \in 2..6
    <3>1. owner \in OwnedStatement(step[h], {target}, parents, Seen(h))
      BY <1>1, <1>9, <2>2, AssistantStatements
    <3>2. /\ row \in Runs /\ parents[row] \cap {target} = {}
          /\ owner \in Kids(parents, Seen(h), Threads, {target})
      BY <1>1, <2>1, <2>2, <3>1, OwnedRefused DEF rows
    <3>3. owner \in Children(live, Threads, {target})
      BY <1>4, <3>2 DEF Kids, Children, rows
    <3>4. Crossed({target})
      BY <1>1, <1>2, <3>2, <3>3 DEF Crossed
    <3> QED
      BY <1>9, <3>4 DEF Excused
  <2>3. CASE step[h] = 7
    <3>1. owner = target /\ target \in Assistants
      BY <1>1, <1>5, <1>9, <2>3, AssistantStatements, NamedTables
    <3>2. row \in Threads \cup CronJobs \cup Runs
      BY <1>1, <1>3, <3>1
    <3>3. \/ row \in Kids(parents, Seen(h), Threads, {target})
          \/ row \in Kids(parents, Seen(h), CronJobs, {target})
          \/ row \in Kids(parents, Seen(h), Runs, {target})
      BY <1>1, <3>1, <3>2 DEF Kids, rows
    <3> QED
      BY <2>1, <2>3, <3>3 DEF EmptiedOwned
  <2> QED
    BY <2>1, <2>2, <2>3
<1>10. CASE req[h].kind = "deleteDeployment"
  <2> DEFINE owners == Kids(parents, Seen(h), Assistants, {target})
  <2>1. /\ step[h] \in 1..9 /\ EmptiedOwned(step[h], owners, parents, Seen(h))
        /\ step[h] >= 8 => owners = {}
        /\ step[h] >= 9 => Kids(parents, Seen(h), Builds, {target}) = {}
    BY <1>10 DEF Emptied, EmptiedDeployment
  <2>2. /\ step[h] \in 2..6 =>
             Statement(h) = OwnedStatement(step[h], owners, parents, Seen(h)) \cap Seen(h)
        /\ step[h] = 7 => Statement(h) = owners \cap Seen(h)
        /\ step[h] = 8 => Statement(h) = Kids(parents, Seen(h), Builds, {target}) \cap Seen(h)
        /\ step[h] = 9 => Statement(h) = {target} \cap Seen(h)
    BY <1>10, DeploymentStatements
  <2>3. CASE step[h] \in 2..6
    <3>1. /\ row \in Runs /\ parents[row] \cap owners = {}
          /\ owner \in Kids(parents, Seen(h), Threads, owners)
      <4>1. owner \in OwnedStatement(step[h], owners, parents, Seen(h))
        BY <1>1, <2>2, <2>3
      <4> HIDE DEF owners
      <4> QED
        BY <1>1, <2>1, <2>3, <4>1, OwnedRefused DEF rows
    <3>2. owners \subseteq Children(live, Assistants, {target})
      BY <1>4 DEF Kids, Children, rows
    <3>3. parents[row] \cap Children(live, Assistants, {target}) = {}
      <4>1. Children(live, Assistants, {target}) \subseteq owners \cup gone[h]
        BY <1>4 DEF Kids, Children, rows
      <4> QED
        BY <1>2, <3>1, <4>1
    <3>4. owner \in Children(live, Threads, Children(live, Assistants, {target}))
      <4> HIDE DEF owners
      <4> QED
        BY <1>4, <3>1, <3>2 DEF Kids, Children, rows
    <3>5. Crossed(Children(live, Assistants, {target}))
      BY <1>1, <1>2, <3>1, <3>3, <3>4 DEF Crossed
    <3> QED
      BY <1>10, <3>5 DEF Excused
  <2>4. CASE step[h] = 7
    <3>1. owner \in owners /\ owner \in Assistants
      BY <1>1, <2>2, <2>4 DEF Kids
    <3>2. row \in Threads \cup CronJobs \cup Runs
      BY <1>1, <1>3, <3>1
    <3>3. \/ row \in Kids(parents, Seen(h), Threads, owners)
          \/ row \in Kids(parents, Seen(h), CronJobs, owners)
          \/ row \in Kids(parents, Seen(h), Runs, owners)
      <4> HIDE DEF owners
      <4> QED
        BY <1>1, <3>1, <3>2 DEF Kids, rows
    <3> QED
      BY <2>1, <2>4, <3>3 DEF EmptiedOwned
  <2>5. CASE step[h] = 8
    <3>1. owner \in Builds
      BY <1>1, <2>2, <2>5 DEF Kids
    <3> QED
      BY <1>1, <1>3, <3>1
  <2>6. CASE step[h] = 9
    <3>1. owner = target /\ target \in Deployments
      BY <1>1, <1>5, <1>10, <2>2, <2>6, NamedTables
    <3>2. row \in Builds \cup Assistants
      BY <1>1, <1>3, <3>1
    <3>3. row \in owners \/ row \in Kids(parents, Seen(h), Builds, {target})
      BY <1>1, <3>1, <3>2 DEF Kids, rows
    <3> QED
      BY <2>1, <2>6, <3>3
  <2> QED
    BY <2>1, <2>3, <2>4, <2>5, <2>6
<1> QED
  BY <1>6, <1>7, <1>8, <1>9, <1>10 DEF Deletes

-----------------------------------------------------------------------------
\* A step of a create ends it or takes it to a later statement.
LEMMA CreateGoesOn ==
  ASSUME TypeOK, NEW h \in Handlers, Create(h)
  PROVE  /\ step[h] # 0 /\ req[h].kind \notin Deletes
         /\ \/ Ends(h)
            \/ /\ req'[h] = req[h] /\ alone' = alone /\ step'[h] # 0
               /\ \A o \in Handlers \ {h} : step'[o] = step[o]
<1>1. step[h] \in 0..9
  BY DEF TypeOK
<1>2. ASSUME Continues(h)
      PROVE  /\ req'[h] = req[h] /\ alone' = alone /\ step'[h] # 0
             /\ \A o \in Handlers \ {h} : step'[o] = step[o]
  BY <1>1, <1>2 DEF Continues, TypeOK
<1>3. ASSUME NEW table, CheckAndInsert(h, table)
      PROVE  step[h] # 0 /\ (Ends(h) \/ Continues(h))
  BY <1>3 DEF CheckAndInsert, CheckOwner, InsertRow, InsertRefused, Inserts, RollsBack
<1>4. CASE \/ CreateAssistant(h) \/ CreateThread(h) \/ CreateStatelessRun(h) \/ CreateCron(h)
           \/ UpdateThreadState(h)
  <2>1. req[h].kind \notin Deletes
    BY <1>4 DEF CreateAssistant, CreateThread, CreateStatelessRun, CreateCron,
                UpdateThreadState, Deletes
  <2>2. step[h] # 0 /\ (Ends(h) \/ Continues(h))
    BY <1>3, <1>4 DEF CreateAssistant, CreateThread, CreateStatelessRun, CreateCron,
                      UpdateThreadState
  <2> QED
    BY <1>2, <2>1, <2>2
<1>5. CASE CheckThread(h)
  <2>1. req[h].kind \notin Deletes /\ step[h] = 2
    BY <1>5, CreateRunKind DEF CheckThread
  <2>2. CASE step' = [step EXCEPT ![h] = 5] /\ UNCHANGED <<req, alone>>
    BY <2>1, <2>2 DEF TypeOK
  <2>3. \/ Ends(h) \/ Continues(h)
        \/ step' = [step EXCEPT ![h] = 5] /\ UNCHANGED <<req, alone>>
    BY <1>5 DEF CheckThread, RollsBack
  <2> QED
    BY <1>2, <2>1, <2>2, <2>3
<1>6. CASE \/ CheckAssistant(h) \/ CheckThreadGlobal(h) \/ InsertThread(h)
           \/ SelectActiveRun(h) \/ CommitRun(h) \/ CommitRunRefused(h)
  <2>1. req[h].kind \notin Deletes /\ step[h] # 0
    BY <1>6, CreateRunKind DEF CheckAssistant, CheckThreadGlobal, InsertThread, SelectActiveRun, CommitRun,
                               CommitRunRefused
  <2>2. Ends(h) \/ Continues(h)
    BY <1>6 DEF CheckAssistant, CheckThreadGlobal, InsertThread, SelectActiveRun,
                CommitRun, CommitRunRefused, RollsBack
  <2> QED
    BY <1>2, <2>1, <2>2
<1> QED
  BY <1>4, <1>5, <1>6 DEF Create

\* So does a step of a deletion, and then what its statement deletes is not seen again.
LEMMA DeleteGoesOn ==
  ASSUME Sound, NEW h \in Handlers, Delete(h)
  PROVE  /\ step[h] # 0 /\ req[h].kind \in Deletes
         /\ \/ Ends(h)
            \/ /\ UNCHANGED <<req, alone, live, parents>>
               /\ step'[h] = step[h] + 1 /\ \A o \in Handlers \ {h} : step'[o] = step[o]
               /\ Seen(h)' \subseteq Seen(h)
               /\ \/ step[h] = 1
                  \/ /\ step[h] >= 2 /\ step[h] - 1 < Len(Plan(h))
                     /\ Seen(h)' \cap Statement(h) = {}
<1>1. TypeOK /\ step[h] \in 0..9
  BY DEF Sound, TypeOK
<1>2. step[h] # 0 /\ req[h].kind \in Deletes
  BY <1>1 DEF Delete, CheckTarget, DeleteRows, DeleteRefused
<1>3. ASSUME Continues(h)
      PROVE  /\ UNCHANGED <<req, alone>> /\ step'[h] = step[h] + 1
             /\ \A o \in Handlers \ {h} : step'[o] = step[o]
  BY <1>1, <1>3 DEF Continues, TypeOK
<1>4. CASE CheckTarget(h)
  <2>1. /\ step[h] = 1
        /\ \/ Ends(h)
           \/ Continues(h) /\ UNCHANGED <<tables, added, gone, active, reborn>>
    BY <1>4 DEF CheckTarget, RollsBack
  <2>2. ASSUME UNCHANGED <<tables, added, gone, active, reborn>>
        PROVE  UNCHANGED <<live, parents>> /\ Seen(h)' = Seen(h)
    BY <2>2 DEF tables, Seen
  <2> QED
    BY <1>2, <1>3, <2>1, <2>2
<1>5. CASE DeleteRows(h)
  <2> DEFINE deleted == gone[h] \cup Statement(h) \cup Cascade(h, Statement(h))
  <2>1. \/ Ends(h)
        \/ /\ step[h] - 1 < Len(Plan(h)) /\ gone' = [gone EXCEPT ![h] = deleted]
           /\ Continues(h) /\ UNCHANGED <<tables, added, active, reborn>>
    BY <1>5 DEF DeleteRows
  <2>2. ASSUME gone' = [gone EXCEPT ![h] = deleted],
               UNCHANGED <<tables, added, active, reborn>>
        PROVE  /\ UNCHANGED <<live, parents>> /\ Seen(h)' \subseteq Seen(h)
               /\ Seen(h)' \cap Statement(h) = {}
    <3>1. gone'[h] = deleted
      BY <1>1, <2>2 DEF TypeOK
    <3>2. UNCHANGED <<live, parents, added>>
      BY <2>2 DEF tables
    <3>3. Seen(h)' = (live \cup added[h]) \ deleted
      BY <3>1, <3>2 DEF Seen
    <3> QED
      BY <3>2, <3>3 DEF Seen
  <2>3. step[h] >= 2
    BY <1>5 DEF DeleteRows
  <2> HIDE DEF deleted
  <2> QED
    BY <1>2, <1>3, <2>1, <2>2, <2>3
<1>6. CASE DeleteRefused(h)
  BY <1>2, <1>6 DEF DeleteRefused
<1> QED
  BY <1>4, <1>5, <1>6 DEF Delete

\* A statement that is not the last leaves none of what it deletes.
LEMMA EmptiedStep ==
  ASSUME NEW h \in Handlers, step[h] \in 0..9, req[h].kind \in Deletes, Emptied(h),
         UNCHANGED <<parents, req>>, step'[h] = step[h] + 1, Seen(h)' \subseteq Seen(h),
         \/ step[h] = 1
         \/ /\ step[h] >= 2 /\ step[h] - 1 < Len(Plan(h))
            /\ Seen(h)' \cap Statement(h) = {}
  PROVE  Emptied(h)'
<1> DEFINE rows == Seen(h)
           fewer == Seen(h)'
           target == req[h].target
           k == step[h]
           deleted == Statement(h)
<1>1. /\ parents' = parents /\ req'[h] = req[h] /\ req'[h].target = target
      /\ step'[h] = k + 1 /\ k \in 0..9
      /\ fewer \in SUBSET rows
  OBVIOUS
<1>2. SUFFICES
      /\ req[h].kind = "deleteRun" => EmptiedRun(k + 1, target, parents, fewer)
      /\ req[h].kind = "deleteThread" => EmptiedThread(k + 1, target, parents, fewer)
      /\ req[h].kind = "deleteAssistant" =>
           k + 1 \in 1..7 /\ EmptiedOwned(k + 1, {target}, parents, fewer)
      /\ req[h].kind = "deleteDeployment" => EmptiedDeployment(k + 1, target, parents, fewer)
      /\ req[h].kind = "deleteCron" => k + 1 = 2
  BY <1>1 DEF Emptied
<1>3. CASE k = 1
  <2>1. k + 1 = 2
    BY <1>3
  <2> QED
    BY <1>3, <2>1 DEF Emptied, EmptiedRun, EmptiedThread, EmptiedOwned, EmptiedDeployment
<1>4. CASE k >= 2 /\ k - 1 < Len(Plan(h)) /\ fewer \cap deleted = {}
  <2>1. ASSUME req[h].kind = "deleteRun"
        PROVE  EmptiedRun(k + 1, target, parents, fewer)
    <3>0. Len(Plan(h)) = 2
      BY <2>1, RunStatements
    <3>1. k = 2 /\ k \in 2..2 /\ EmptiedRun(k, target, parents, rows)
      <4>1. k - 1 < 2 /\ k >= 2
        BY <1>4, <3>0
      <4>2. EmptiedRun(k, target, parents, rows)
        BY <2>1 DEF Emptied
      <4> QED
        BY <1>1, <4>1, <4>2
    <3>2. fewer \cap Kids(parents, rows, Deliveries, {target}) = {}
      BY <1>1, <1>4, <2>1, <3>1, RunStatements
    <3> HIDE DEF rows, fewer, target, k
    <3> QED
      BY <1>1, <3>1, <3>2, EmptiedRunStep
  <2>2. ASSUME req[h].kind = "deleteThread"
        PROVE  EmptiedThread(k + 1, target, parents, fewer)
    <3>0. Len(Plan(h)) = 3
      BY <2>2, ThreadStatements
    <3>1. k \in 2..3 /\ EmptiedThread(k, target, parents, rows)
      <4>1. k - 1 < 3 /\ k >= 2
        BY <1>4, <3>0
      <4>2. EmptiedThread(k, target, parents, rows)
        BY <2>2 DEF Emptied
      <4> QED
        BY <1>1, <4>1, <4>2
    <3>2. /\ k = 2 => fewer \cap Kids(parents, rows, Deliveries, Kids(parents, rows, Runs, {target}))
                        = {}
          /\ k = 3 => fewer \cap Kids(parents, rows, Runs, {target}) = {}
      BY <1>1, <1>4, <2>2, ThreadStatements
    <3> HIDE DEF rows, fewer, target, k
    <3> QED
      BY <1>1, <3>1, <3>2, EmptiedThreadStep
  <2>3. ASSUME req[h].kind = "deleteAssistant"
        PROVE  k + 1 \in 1..7 /\ EmptiedOwned(k + 1, {target}, parents, fewer)
    <3>0. Len(Plan(h)) = 6
      BY <2>3, AssistantStatements
    <3>1. k \in 2..6 /\ EmptiedOwned(k, {target}, parents, rows)
      <4>1. k - 1 < 6 /\ k >= 2
        BY <1>4, <3>0
      <4>2. EmptiedOwned(k, {target}, parents, rows)
        BY <2>3 DEF Emptied
      <4> QED
        BY <1>1, <4>1, <4>2
    <3>2. fewer \cap OwnedStatement(k, {target}, parents, rows) = {}
      BY <1>1, <1>4, <2>3, <3>1, AssistantStatements
    <3>3. k \in 2..8 /\ k + 1 \in 1..7 /\ {target} \in SUBSET {target}
      BY <3>1
    <3> HIDE DEF rows, fewer, target, k
    <3> QED
      BY <1>1, <3>1, <3>2, <3>3, EmptiedOwnedStep
  <2>4. ASSUME req[h].kind = "deleteDeployment"
        PROVE  EmptiedDeployment(k + 1, target, parents, fewer)
    <3> DEFINE owners == Kids(parents, rows, Assistants, {target})
    <3>1. /\ Len(Plan(h)) = 8
          /\ k \in 2..6 => deleted = OwnedStatement(k, owners, parents, rows) \cap rows
          /\ k = 7 => deleted = owners \cap rows
          /\ k = 8 => deleted = Kids(parents, rows, Builds, {target}) \cap rows
      BY <2>4, DeploymentStatements
    <3>2. k \in 2..8 /\ EmptiedDeployment(k, target, parents, rows)
      BY <1>1, <1>4, <2>4, <3>1 DEF Emptied
    <3>3. /\ k <= 6 => fewer \cap OwnedStatement(k, owners, parents, rows) = {}
          /\ k = 7 => fewer \cap owners = {}
          /\ k = 8 => fewer \cap Kids(parents, rows, Builds, {target}) = {}
      <4> HIDE DEF owners
      <4>1. k <= 6 => k \in 2..6
        BY <3>2
      <4>2. fewer \subseteq rows /\ fewer \cap deleted = {}
        BY <1>1, <1>4
      <4> HIDE DEF rows, fewer, target, k, deleted
      <4> QED
        BY <3>1, <4>1, <4>2
    <3> HIDE DEF rows, fewer, target, k
    <3> QED
      BY <1>1, <3>2, <3>3, EmptiedDeploymentStep
  <2>5. ASSUME req[h].kind = "deleteCron"
        PROVE  FALSE
    <3>1. Len(Plan(h)) = 1
      BY <2>5, CronStatements
    <3>2. k = 2
      BY <2>5 DEF Emptied
    <3> QED
      BY <1>4, <3>1, <3>2
  <2> QED
    BY <2>1, <2>2, <2>3, <2>4, <2>5
<1> QED
  BY <1>1, <1>3, <1>4

\* No request is alone at first.
LEMMA LoneInit == Init => LoneInv
  BY OwnershipAssumption DEF Init, LoneInv

\* The invariant holds after every step.
LEMMA LoneStep == Sound /\ LoneInv /\ [Next]_vars => LoneInv'
<1> SUFFICES ASSUME Sound, LoneInv, [Next]_vars, NEW h \in Handlers, alone' = h
             PROVE  /\ step'[h] # 0 /\ \A other \in Handlers \ {h} : step'[other] = 0
                    /\ Emptied(h)'
  BY DEF LoneInv
<1>1. TypeOK /\ Nobody \notin Handlers /\ step[h] \in 0..9
  BY OwnershipAssumption DEF Sound, TypeOK
<1>2. ASSUME NEW g \in Handlers, step[g] # 0, Ends(g)
      PROVE  FALSE
  <2>1. alone = h /\ g # h
    BY <1>1, <1>2, EndsEffect
  <2> QED
    BY <1>2, <2>1 DEF LoneInv
<1>3. ASSUME NEW g \in Handlers, step[g] # 0, alone' = alone
      PROVE  /\ g = h /\ step[h] # 0 /\ \A other \in Handlers \ {h} : step[other] = 0
             /\ Emptied(h)
  BY <1>3 DEF LoneInv
<1>4. ASSUME NEW g \in Handlers, BeginRequest(g)
      PROVE  /\ step'[h] # 0 /\ \A other \in Handlers \ {h} : step'[other] = 0
             /\ Emptied(h)'
  <2>1. g = h /\ \A other \in Handlers : step[other] = 0
    BY <1>1, <1>4 DEF BeginRequest
  <2>2. PICK request \in Asked :
          /\ req' = [req EXCEPT ![h] = request]
          /\ step' = [step EXCEPT ![h] = IF request.kind = "deleteCron" THEN 2 ELSE 1]
    BY <1>4, <2>1 DEF BeginRequest
  <2>3. /\ req'[h] = request
        /\ step'[h] = IF request.kind = "deleteCron" THEN 2 ELSE 1
        /\ \A other \in Handlers \ {h} : step'[other] = 0
    BY <1>1, <2>1, <2>2 DEF TypeOK
  <2>4. Emptied(h)'
    BY <2>3 DEF Emptied, EmptiedRun, EmptiedThread, EmptiedOwned, EmptiedDeployment
  <2> QED
    BY <2>3, <2>4
<1>5. ASSUME NEW g \in Handlers, Create(g)
      PROVE  /\ step'[h] # 0 /\ \A other \in Handlers \ {h} : step'[other] = 0
             /\ Emptied(h)'
  <2>1. /\ step[g] # 0 /\ req[g].kind \notin Deletes
        /\ \/ Ends(g)
           \/ /\ req'[g] = req[g] /\ alone' = alone /\ step'[g] # 0
              /\ \A o \in Handlers \ {g} : step'[o] = step[o]
    BY <1>1, <1>5, CreateGoesOn
  <2>2. /\ req'[g] = req[g] /\ alone' = alone /\ step'[g] # 0
        /\ \A o \in Handlers \ {g} : step'[o] = step[o]
    BY <1>2, <2>1
  <2>3. g = h /\ \A other \in Handlers \ {h} : step[other] = 0
    BY <1>3, <2>1, <2>2
  <2>4. Emptied(h)'
    <3>1. req'[h].kind \notin Deletes
      BY <2>1, <2>2, <2>3
    <3> QED
      BY <3>1 DEF Emptied, Deletes
  <2> QED
    BY <2>2, <2>3, <2>4
<1>6. ASSUME NEW g \in Handlers, Delete(g)
      PROVE  /\ step'[h] # 0 /\ \A other \in Handlers \ {h} : step'[other] = 0
             /\ Emptied(h)'
  <2>1. /\ step[g] # 0 /\ req[g].kind \in Deletes
        /\ UNCHANGED <<req, alone, live, parents>>
        /\ step'[g] = step[g] + 1 /\ \A o \in Handlers \ {g} : step'[o] = step[o]
        /\ Seen(g)' \subseteq Seen(g)
        /\ \/ step[g] = 1
           \/ /\ step[g] >= 2 /\ step[g] - 1 < Len(Plan(g))
              /\ Seen(g)' \cap Statement(g) = {}
    BY <1>2, <1>6, DeleteGoesOn
  <2>2. g = h /\ Emptied(h) /\ \A other \in Handlers \ {h} : step[other] = 0
    BY <1>3, <2>1
  <2>3. Emptied(h)'
    BY <1>1, <2>1, <2>2, EmptiedStep
  <2> QED
    BY <1>1, <2>1, <2>2, <2>3
<1>7. ASSUME NEW g \in Handlers, Abort(g)
      PROVE  FALSE
  BY <1>2, <1>7 DEF Abort, RollsBack
<1>8. ASSUME \/ \E job \in CronJobs : CreateRunForCron(job)
             \/ \E r \in Runs : FetchNextPendingRun(r) \/ UpdateRunResult(r) \/ RollbackRun(r)
                                  \/ EnqueueWebhookForRun(r)
      PROVE  FALSE
  BY <1>1, <1>8 DEF CreateRunForCron, FetchNextPendingRun, UpdateRunResult, RollbackRun,
                    EnqueueWebhookForRun, Works
<1>9. CASE UNCHANGED vars
  <2>1. /\ alone = h /\ UNCHANGED <<req, step, parents, live, added, gone>>
    BY <1>9 DEF vars, tables, transaction
  <2>2. Emptied(h)'
    BY <2>1 DEF LoneInv, Emptied, Seen
  <2> QED
    BY <2>1, <2>2 DEF LoneInv
<1> QED
  BY <1>4, <1>5, <1>6, <1>7, <1>8, <1>9 DEF Next

\* A failed deletion was excused as it failed.
LEMMA FailedStep ==
  Sound /\ ExecutionInv /\ LoneInv /\ LoneDeletionSucceeds /\ [Next]_vars => LoneDeletionSucceeds'
<1> SUFFICES ASSUME Sound, ExecutionInv, LoneInv, LoneDeletionSucceeds, [Next]_vars,
                    failed' # NoRequest
             PROVE  LoneDeletionSucceeds'
  BY DEF LoneDeletionSucceeds
<1>1. CASE UNCHANGED vars
  BY <1>1 DEF LoneDeletionSucceeds, HasExecution, Crossed, Children, vars, tables
<1>2. ASSUME NEW h \in Handlers, DeleteRefused(h)
      PROVE  LoneDeletionSucceeds'
  <2>1. /\ failed' = req[h] /\ alone = h /\ UNCHANGED <<live, parents>>
        /\ req[h].kind \in Deletes /\ step[h] >= 2 /\ Refused(h, Statement(h))
    BY <1>2 DEF DeleteRefused, tables
  <2>2. Excused(req[h])
    BY <1>2, <2>1, RefusedExcused DEF LoneInv
  <2> QED
    BY <2>1, <2>2 DEF LoneDeletionSucceeds, Excused, HasExecution, Crossed, Children
<1>3. ASSUME NEW h \in Handlers, Continues(h) \/ RollsBack(h)
      PROVE  FALSE
  BY <1>3 DEF Continues, RollsBack
<1>4. ASSUME NEW h \in Handlers, NEW table, CheckAndInsert(h, table)
      PROVE  FALSE
  BY <1>3, <1>4 DEF CheckAndInsert, CheckOwner, InsertRow, InsertRefused, Inserts
<1>5. ASSUME NEW h \in Handlers, Create(h)
      PROVE  FALSE
  <2>1. ASSUME \/ CreateAssistant(h) \/ CreateThread(h) \/ CreateStatelessRun(h)
               \/ CreateCron(h) \/ UpdateThreadState(h)
        PROVE  FALSE
    BY <1>4, <2>1 DEF CreateAssistant, CreateThread, CreateStatelessRun, CreateCron,
                      UpdateThreadState
  <2> QED
    BY <1>3, <1>5, <2>1 DEF Create, CheckAssistant, CheckThread, CheckThreadGlobal, InsertThread,
                            SelectActiveRun, CommitRun, CommitRunRefused
<1>6. ASSUME NEW h \in Handlers, Delete(h), ~DeleteRefused(h)
      PROVE  FALSE
  BY <1>3, <1>6 DEF Delete, CheckTarget, DeleteRows
<1>7. ASSUME NEW h \in Handlers, BeginRequest(h) \/ Abort(h)
      PROVE  FALSE
  BY <1>3, <1>7 DEF BeginRequest, Abort
<1>8. ASSUME \/ \E job \in CronJobs : CreateRunForCron(job)
             \/ \E r \in Runs : FetchNextPendingRun(r) \/ UpdateRunResult(r) \/ RollbackRun(r)
                                  \/ EnqueueWebhookForRun(r)
      PROVE  FALSE
  BY <1>8 DEF CreateRunForCron, FetchNextPendingRun, UpdateRunResult, RollbackRun,
              EnqueueWebhookForRun, Works
<1> QED
  BY <1>1, <1>2, <1>5, <1>6, <1>7, <1>8 DEF Next

\* A deletion with no other request beside it is refused only for a run or job with an
\* execution, and for an assistant or deployment that has a thread with a run of
\* another assistant: otherwise its statements find all that refers to it.
THEOREM DeletionSucceeds == Spec => []LoneDeletionSucceeds
<1>1. Init => LoneDeletionSucceeds
  BY DEF Init, LoneDeletionSucceeds
<1>2. Spec => [](Sound /\ ExecutionInv /\ LoneInv /\ LoneDeletionSucceeds)
  BY <1>1, SoundInit, SoundStep, ExecutionInit, ExecutionStep, LoneInit, LoneStep, FailedStep,
     PTL DEF Spec
<1> QED
  BY <1>2, PTL
=============================================================================
