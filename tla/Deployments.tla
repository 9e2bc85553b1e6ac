----------------------------- MODULE Deployments -----------------------------
(***************************************************************************)
(* The control plane over one deployment: its row, its revisions and the   *)
(* AgentDeployment resource.  Every handler reads the row, patches its     *)
(* copy, writes some columns back, records a revision and then writes the  *)
(* resource from its copy: get, then create or update with the version it  *)
(* got.  Nothing keeps two handlers apart, and a failing write of the      *)
(* resource is logged and forgotten (strictAgentSync is off by default).   *)
(*                                                                         *)
(* A step is one SQL statement or transaction, or one call to Kubernetes.  *)
(* Runtime profile and mode are one column here, "mode": every handler     *)
(* writes both.  Repository, ref and path only reach builds: left out.     *)
(***************************************************************************)
EXTENDS Naturals

CONSTANTS
  Handlers,     \* requests in flight
  Modes, Images,
  NoImage,      \* empty current_image_digest
  DefaultImage, \* agentImageForDeployment when there is no digest
  Faults,       \* "store": an UPDATE or INSERT may fail, "sync": a call to Kubernetes
  Nobody,       \* not a handler
  MaxRequests,  \* bound: requests after the one that creates the deployment
  MaxRestarts   \* bound: restarts of the control plane

NoMode == "none"

ASSUME DeploymentsAssumption ==
  /\ NoMode \notin Modes
  /\ Nobody \notin Handlers
  /\ NoImage \notin Images
  /\ Faults \subseteq {"store", "sync"}
  /\ {MaxRequests, MaxRestarts} \subseteq Nat

VARIABLES
  row,        \* the row of deployments, NoRow before and after its life
  revisions,  \* deployment_revisions: what they hold, without their ids
  cr,         \* the spec of the AgentDeployment, NoSpec if there is none
  fresh,      \* handlers whose copy of the resource has its current version
  created,    \* the deployment was created
  pc, kind, copy,  \* handlers: step, operation, the record in hand
  images,     \* history: values current_image_digest has had
  unsaved,    \* history: images of builds whose UPDATE was lost
  solo,       \* history: the request that has been alone since it began, or Nobody
  trusted,    \* history: no request overlapped or failed since the last one that
              \* was alone and went through
  requests, restarts

handlers == <<pc, kind, copy>>
tables == <<row, revisions, images, unsaved, created>>
resource == <<cr, fresh>>
bounds == <<requests, restarts>>
trust == <<solo, trusted>>
vars == <<tables, resource, handlers, trust, bounds>>

Rows == [mode : Modes, image : Images \cup {NoImage}]
NoRow == [mode |-> NoMode, image |-> NoImage]
Specs == [mode : Modes, image : Images \cup {DefaultImage}]
NoSpec == NoRow
Kinds == {"create", "update", "policy", "rollback", "build", "delete"}
Steps == {"idle", "write", "revise", "get", "create", "update", "remove"}

TypeOK ==
  /\ row \in Rows \cup {NoRow}
  /\ revisions \subseteq Rows
  /\ cr \in Specs \cup {NoSpec}
  /\ fresh \subseteq Handlers
  /\ created \in BOOLEAN
  /\ pc \in [Handlers -> Steps]
  /\ kind \in [Handlers -> Kinds \cup {"none"}]
  /\ copy \in [Handlers -> Rows \cup {NoRow}]
  /\ images \subseteq Images \cup {NoImage}
  /\ unsaved \subseteq Images \cup {NoImage}
  /\ solo \in Handlers \cup {Nobody}
  /\ trusted \in BOOLEAN
  /\ requests \in 0..MaxRequests
  /\ restarts \in 0..MaxRestarts

Init ==
  /\ row = NoRow
  /\ revisions = {}
  /\ cr = NoSpec
  /\ fresh = {}
  /\ created = FALSE
  /\ pc = [h \in Handlers |-> "idle"]
  /\ kind = [h \in Handlers |-> "none"]
  /\ copy = [h \in Handlers |-> NoRow]
  /\ images = {NoImage}
  /\ unsaved = {}
  /\ solo = Nobody
  /\ trusted = TRUE
  /\ requests = 0
  /\ restarts = 0

Quiet == \A h \in Handlers : pc[h] = "idle"

-----------------------------------------------------------------------------
(* Postgres.                                                               *)

GoTo(h, step) == pc' = [pc EXCEPT ![h] = step]

Begin(h, k, rec, step) ==
  /\ pc[h] = "idle"
  /\ GoTo(h, step)
  /\ kind' = [kind EXCEPT ![h] = k]
  /\ copy' = [copy EXCEPT ![h] = rec]
  /\ solo' = IF Quiet THEN h ELSE Nobody
  /\ trusted' = (trusted /\ Quiet)

\* The handler answers, whatever it answers.
Respond(h) ==
  /\ GoTo(h, "idle")
  /\ kind' = [kind EXCEPT ![h] = "none"]
  /\ copy' = [copy EXCEPT ![h] = NoRow]

\* It has come to its end, or something was lost on the way.
Succeed(h) == trusted' = (trusted \/ solo = h) /\ UNCHANGED solo
Distrust == trusted' = FALSE /\ solo' = Nobody

\* createDeployment: the INSERT.
CreateDeployment(h, m) ==
  LET rec == [mode |-> m, image |-> NoImage] IN
  /\ ~created
  /\ Begin(h, "create", rec, "revise")
  /\ created' = TRUE
  /\ row' = rec
  /\ UNCHANGED <<revisions, images, unsaved, resource, bounds>>

\* What a request makes of the record it has read.  A rollback names an image or
\* a revision that has one; a build's digest is a function of image name and commit.
Patched(k) == {rec \in Rows :
  /\ rec.mode = row.mode \/ k \in {"update", "policy"}
  /\ IF k \in {"rollback", "build"} THEN rec.image # NoImage ELSE rec.image = row.image}

\* getDeployment; no row is a 404.
ReadDeployment(h, k) ==
  /\ requests < MaxRequests
  /\ requests' = requests + 1
  /\ row # NoRow
  /\ \E rec \in Patched(k) : Begin(h, k, rec, "write")
  /\ UNCHANGED <<tables, resource, restarts>>

\* Mutant: every handler writes its whole record.
MutantWritten(k) == {"mode", "image"}

\* The columns an operation writes back.
Written(k) == IF k \in {"update", "policy"} THEN {"mode"} ELSE {"image"}

WriteColumns(h) ==
  IF row = NoRow THEN UNCHANGED <<row, images>>
  ELSE /\ row' = [mode |-> IF "mode" \in Written(kind[h]) THEN copy[h].mode ELSE row.mode,
                  image |-> IF "image" \in Written(kind[h]) THEN copy[h].image ELSE row.image]
       /\ images' = images \cup {row'.image}

\* Mutant: the runtime policy is left to the next update to be synced.
MutantAfterWrite(k) == IF k = "policy" THEN "idle" ELSE "revise"

\* A change of policy is not recorded as a revision.
AfterWrite(k) == IF k = "policy" THEN "get" ELSE "revise"

\* The UPDATE; a deployment that is gone by now is a 404, an error a 500.
WriteDeployment(h) ==
  /\ pc[h] = "write"
  /\ kind[h] \in {"update", "policy", "rollback"}
  /\ \/ row # NoRow /\ WriteColumns(h) /\ GoTo(h, AfterWrite(kind[h])) /\ UNCHANGED <<kind, copy>>
     \/ /\ row = NoRow \/ "store" \in Faults
        /\ Respond(h)
        /\ UNCHANGED <<row, images>>
  /\ UNCHANGED <<revisions, unsaved, created, resource, trust, bounds>>

\* Mutant: a refused build goes on.
MutantWriteBuild(h) ==
  /\ pc[h] = "write"
  /\ kind[h] = "build"
  /\ \/ WriteColumns(h) /\ GoTo(h, "revise") /\ UNCHANGED <<kind, copy, trust>>
     \/ GoTo(h, "revise") /\ UNCHANGED <<row, images, kind, copy, trust>>
  /\ UNCHANGED <<revisions, unsaved, created, resource, bounds>>

\* triggerBuild, after the builder's answer: the result of its UPDATE is not looked
\* at.  A builder that refuses or cannot be reached ends the request.
WriteBuild(h) ==
  /\ pc[h] = "write"
  /\ kind[h] = "build"
  /\ \/ /\ WriteColumns(h)
        /\ GoTo(h, "revise")
        /\ UNCHANGED <<unsaved, kind, copy, trust>>
     \/ /\ "store" \in Faults
        /\ GoTo(h, "revise")
        /\ unsaved' = unsaved \cup {copy[h].image}
        /\ Distrust
        /\ UNCHANGED <<row, images, kind, copy>>
     \/ /\ Respond(h)
        /\ UNCHANGED <<row, images, unsaved, trust>>
  /\ UNCHANGED <<revisions, created, resource, bounds>>

\* recordDeploymentRevision: its error is dropped, the foreign key's too.
RecordRevision(h) ==
  /\ pc[h] = "revise"
  /\ \/ revisions' = IF row = NoRow THEN revisions ELSE revisions \cup {copy[h]}
     \/ "store" \in Faults /\ UNCHANGED revisions
  /\ GoTo(h, "get")
  /\ UNCHANGED <<row, images, unsaved, created, resource, kind, copy, trust, bounds>>

\* deleteDeployment: what belongs to the deployment and the row, in a transaction; if
\* one of its statements fails, a foreign key in the way included, nothing is deleted.
DeleteDeployment(h) ==
  /\ pc[h] = "write"
  /\ kind[h] = "delete"
  /\ \/ /\ row # NoRow
        /\ row' = NoRow
        /\ revisions' = {}
        /\ GoTo(h, "remove")
        /\ UNCHANGED <<kind, copy>>
     \/ /\ row = NoRow \/ "store" \in Faults
        /\ Respond(h)
        /\ UNCHANGED <<row, revisions>>
  /\ UNCHANGED <<images, unsaved, created, resource, trust, bounds>>

-----------------------------------------------------------------------------
(* Kubernetes: syncAgentDeploymentRecord, deleteAgentDeployment.           *)

\* Mutant: no default for a deployment without an image.
MutantDesired(rec) == rec

Desired(rec) == [mode |-> rec.mode,
                 image |-> IF rec.image = NoImage THEN DefaultImage ELSE rec.image]

GetResource(h) ==
  /\ pc[h] = "get"
  /\ GoTo(h, IF cr = NoSpec THEN "create" ELSE "update")
  /\ fresh' = fresh \cup {h}
  /\ UNCHANGED <<tables, cr, kind, copy, trust, bounds>>

\* A write of the resource makes every copy of it stale; a write that changes nothing
\* keeps the version.
Store(spec) ==
  IF cr = spec THEN UNCHANGED resource
  ELSE /\ cr' = spec
       /\ fresh' = {}

\* The version of the resource has changed since the get.
Stale(h) == h \notin fresh

CreateResource(h) ==
  /\ pc[h] = "create"
  /\ cr = NoSpec
  /\ Store(Desired(copy[h]))
  /\ Respond(h)
  /\ Succeed(h)
  /\ UNCHANGED <<tables, bounds>>

UpdateResource(h) ==
  /\ pc[h] = "update"
  /\ ~Stale(h)
  /\ Store(Desired(copy[h]))
  /\ Respond(h)
  /\ Succeed(h)
  /\ UNCHANGED <<tables, bounds>>

\* Not found is as good as deleted.
DeleteResource(h) ==
  /\ pc[h] = "remove"
  /\ Store(NoSpec)
  /\ Respond(h)
  /\ Succeed(h)
  /\ UNCHANGED <<tables, bounds>>

\* handleAgentSyncError: a conflict or a failing call is logged, the request answered.
SyncFails(h) ==
  /\ \/ pc[h] = "create" /\ cr # NoSpec
     \/ pc[h] = "update" /\ Stale(h)
     \/ pc[h] \in {"get", "create", "update", "remove"} /\ "sync" \in Faults
  /\ Distrust
  /\ Respond(h)
  /\ UNCHANGED <<tables, resource, bounds>>

-----------------------------------------------------------------------------
\* The control plane restarts: requests in flight are gone.
Restart ==
  /\ restarts < MaxRestarts
  /\ ~Quiet
  /\ restarts' = restarts + 1
  /\ pc' = [h \in Handlers |-> "idle"]
  /\ kind' = [h \in Handlers |-> "none"]
  /\ copy' = [h \in Handlers |-> NoRow]
  /\ Distrust
  /\ UNCHANGED <<tables, resource, requests>>

\* Reconcile ends with a write of the status: the resource has a new version.
OperatorWritesStatus ==
  /\ cr # NoSpec
  /\ fresh # {}
  /\ fresh' = {}
  /\ UNCHANGED <<tables, cr, handlers, trust, bounds>>

Request(h) ==
  \/ \E m \in Modes : CreateDeployment(h, m)
  \/ \E k \in Kinds \ {"create"} : ReadDeployment(h, k)

HandlerStep(h) ==
  \/ WriteDeployment(h) \/ WriteBuild(h) \/ DeleteDeployment(h) \/ RecordRevision(h)
  \/ GetResource(h) \/ CreateResource(h) \/ UpdateResource(h) \/ DeleteResource(h)
  \/ SyncFails(h)

Next == Restart \/ OperatorWritesStatus \/ \E h \in Handlers : Request(h) \/ HandlerStep(h)

Spec == Init /\ [][Next]_vars

-----------------------------------------------------------------------------
(* Properties.                                                             *)

\* A request that is alone from its read to its last call, and goes through, leaves
\* the resource as the row wants it, whatever overlapping or failing requests had
\* left behind: the row is read anew and the whole spec is written.
LoneRequestHeals ==
  trusted /\ Quiet =>
    cr = IF row = NoRow THEN NoSpec ELSE Desired(row)

ImageChangeIsAsked ==
  row \in Rows /\ row' \in Rows /\ row'.image # row.image =>
    \E h \in Handlers : /\ kind[h] \in {"rollback", "build"}
                        /\ copy[h].image = row'.image

\* The image of a deployment changes only to the image of a rollback or a build:
\* an update or a change of policy that works on an older copy does not bring the
\* image of that copy back.
StaleCopyKeepsImage == [][ImageChangeIsAsked]_vars

\* A revision holds an image the deployment has had, so that a rollback to it
\* restores one: handlers record their own, perhaps stale, copy after the UPDATE.
\* The exception is a build whose UPDATE failed, as triggerBuild does not look.
RevisionsWereCurrent == \A v \in revisions : v.image \in images \cup unsaved
=============================================================================
