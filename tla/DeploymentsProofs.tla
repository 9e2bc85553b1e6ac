-------------------------- MODULE DeploymentsProofs --------------------------
(***************************************************************************)
(* Proofs about Deployments, for every number of handlers, modes, images,  *)
(* requests and restarts: types, the revisions, the images an older copy   *)
(* cannot bring back, and that a request which is alone repairs the        *)
(* resource.                                                               *)
(***************************************************************************)
EXTENDS Deployments, TLAPS

\* A request in flight has a record in hand; before its INSERT there is none.
FlightInv ==
  /\ \A h \in Handlers : pc[h] # "idle" => copy[h] \in Rows
  /\ ~created => row = NoRow /\ Quiet

TypeInv == TypeOK /\ FlightInv

-----------------------------------------------------------------------------
(* Types.                                                                  *)

\* The row that stands for no row is none.
LEMMA NoRowIsNone == NoRow \notin Rows /\ NoSpec \notin Specs
  BY DeploymentsAssumption DEF NoRow, NoSpec, Rows, Specs

\* The types hold at first.
LEMMA InitTypes == Init => TypeInv
<1> SUFFICES ASSUME Init PROVE TypeInv
  OBVIOUS
<1>1. 0 \in 0..MaxRequests /\ 0 \in 0..MaxRestarts
  BY DeploymentsAssumption
<1>2. /\ pc \in [Handlers -> Steps]
      /\ kind \in [Handlers -> Kinds \cup {"none"}]
      /\ copy \in [Handlers -> Rows \cup {NoRow}]
  BY DEF Init, Steps
<1>3. TypeOK
  BY <1>1, <1>2 DEF Init, TypeOK
<1>4. FlightInv
  BY DEF Init, FlightInv, Quiet
<1> QED
  BY <1>3, <1>4 DEF TypeInv

\* A record is a legal row, and what the resource is given a legal specification.
LEMMA DesiredIsSpec == \A rec \in Rows : Desired(rec) \in Specs
  BY DEF Rows, Specs, Desired

\* A request that begins with a record keeps the types of the handlers.
LEMMA BeginTypes ==
  ASSUME TypeInv, NEW h \in Handlers, NEW k \in Kinds, NEW rec \in Rows,
         NEW step \in Steps, Begin(h, k, rec, step)
  PROVE  /\ pc' \in [Handlers -> Steps]
         /\ kind' \in [Handlers -> Kinds \cup {"none"}]
         /\ copy' \in [Handlers -> Rows \cup {NoRow}]
         /\ solo' \in Handlers \cup {Nobody}
         /\ trusted' \in BOOLEAN
         /\ \A g \in Handlers : pc'[g] # "idle" => copy'[g] \in Rows
<1>1. pc' = [pc EXCEPT ![h] = step] /\ copy' = [copy EXCEPT ![h] = rec]
  BY DEF Begin, GoTo
<1>2. /\ pc' \in [Handlers -> Steps]
      /\ kind' \in [Handlers -> Kinds \cup {"none"}]
      /\ copy' \in [Handlers -> Rows \cup {NoRow}]
  BY <1>1 DEF Begin, TypeInv, TypeOK
<1>3. solo' \in Handlers \cup {Nobody} /\ trusted' \in BOOLEAN
  BY DEF Begin, Quiet
<1>4. \A g \in Handlers : pc'[g] # "idle" => copy'[g] \in Rows
  BY <1>1 DEF TypeInv, TypeOK, FlightInv
<1> QED
  BY <1>2, <1>3, <1>4

\* An answer leaves the other handlers as they are.
LEMMA RespondTypes ==
  ASSUME TypeInv, NEW h \in Handlers, Respond(h)
  PROVE  /\ pc' \in [Handlers -> Steps]
         /\ kind' \in [Handlers -> Kinds \cup {"none"}]
         /\ copy' \in [Handlers -> Rows \cup {NoRow}]
         /\ \A g \in Handlers : pc'[g] # "idle" => copy'[g] \in Rows
         /\ \A g \in Handlers : pc'[g] # "idle" => g # h /\ pc'[g] = pc[g]
<1>1. /\ pc' = [pc EXCEPT ![h] = "idle"]
      /\ kind' = [kind EXCEPT ![h] = "none"]
      /\ copy' = [copy EXCEPT ![h] = NoRow]
  BY DEF Respond, GoTo
<1> QED
  BY <1>1 DEF TypeInv, TypeOK, FlightInv, Steps

\* A handler in flight goes on with the record it has.
LEMMA GoOnTypes ==
  ASSUME TypeInv, NEW h \in Handlers, pc[h] # "idle", NEW step \in Steps, GoTo(h, step),
         UNCHANGED <<kind, copy>>
  PROVE  /\ pc' \in [Handlers -> Steps]
         /\ kind' \in [Handlers -> Kinds \cup {"none"}]
         /\ copy' \in [Handlers -> Rows \cup {NoRow}]
         /\ \A g \in Handlers : pc'[g] # "idle" => copy'[g] \in Rows
<1>1. pc' = [pc EXCEPT ![h] = step]
  BY DEF GoTo
<1> QED
  BY <1>1 DEF TypeInv, TypeOK, FlightInv

\* An UPDATE leaves a legal row, whose image is that of the old row or the copy's.
LEMMA WriteTypes ==
  ASSUME TypeInv, NEW h \in Handlers, pc[h] # "idle", WriteColumns(h)
  PROVE  /\ row' \in Rows \cup {NoRow}
         /\ images' \subseteq Images \cup {NoImage}
<1>1. CASE row = NoRow
  BY <1>1 DEF WriteColumns, TypeInv, TypeOK
<1>2. CASE row # NoRow
  <2>1. row \in Rows /\ copy[h] \in Rows
    BY <1>2 DEF TypeInv, TypeOK, FlightInv
  <2>2. row' \in Rows
    BY <1>2, <2>1 DEF WriteColumns, Rows
  <2>3. row'.image \in Images \cup {NoImage}
    BY <2>2 DEF Rows
  <2> QED
    BY <1>2, <2>2, <2>3 DEF WriteColumns, TypeInv, TypeOK
<1> QED
  BY <1>1, <1>2

\* Storing a spec leaves it in the resource.
LEMMA StoreTypes ==
  ASSUME TypeInv, NEW spec \in Specs \cup {NoSpec}, Store(spec)
  PROVE  cr' = spec /\ cr' \in Specs \cup {NoSpec} /\ fresh' \subseteq Handlers
BY DEF Store, TypeInv, TypeOK, resource

-----------------------------------------------------------------------------
\* Requests begin with a record in hand.
LEMMA RequestTypes ==
  ASSUME TypeInv, NEW h \in Handlers, Request(h)
  PROVE  TypeInv'
<1>1. CASE \E m \in Modes : CreateDeployment(h, m)
  <2>1. PICK m \in Modes : CreateDeployment(h, m)
    BY <1>1
  <2> DEFINE rec == [mode |-> m, image |-> NoImage]
  <2>2. rec \in Rows
    BY DEF Rows
  <2>3. Begin(h, "create", rec, "revise") /\ row' = rec /\ created' = TRUE
    BY <2>1 DEF CreateDeployment
  <2>4. UNCHANGED <<revisions, images, unsaved, cr, fresh, requests, restarts>>
    BY <2>1 DEF CreateDeployment, resource, bounds
  <2>5. "create" \in Kinds /\ "revise" \in Steps
    BY DEF Kinds, Steps
  <2> HIDE DEF rec
  <2>6. /\ pc' \in [Handlers -> Steps]
        /\ kind' \in [Handlers -> Kinds \cup {"none"}]
        /\ copy' \in [Handlers -> Rows \cup {NoRow}]
        /\ solo' \in Handlers \cup {Nobody}
        /\ trusted' \in BOOLEAN
        /\ \A g \in Handlers : pc'[g] # "idle" => copy'[g] \in Rows
    BY <2>2, <2>3, <2>5, BeginTypes
  <2> QED
    BY <2>2, <2>3, <2>4, <2>6 DEF TypeInv, TypeOK, FlightInv
<1>2. CASE \E k \in Kinds \ {"create"} : ReadDeployment(h, k)
  <2>1. PICK k \in Kinds \ {"create"} : ReadDeployment(h, k)
    BY <1>2
  <2>2. PICK rec \in Patched(k) : Begin(h, k, rec, "write")
    BY <2>1 DEF ReadDeployment
  <2>3. rec \in Rows /\ "write" \in Steps
    BY DEF Patched, Steps
  <2>4. /\ row # NoRow /\ requests < MaxRequests /\ requests' = requests + 1
        /\ UNCHANGED <<row, revisions, images, unsaved, created, cr, fresh, restarts>>
    BY <2>1 DEF ReadDeployment, tables, resource
  <2>5. /\ pc' \in [Handlers -> Steps]
        /\ kind' \in [Handlers -> Kinds \cup {"none"}]
        /\ copy' \in [Handlers -> Rows \cup {NoRow}]
        /\ solo' \in Handlers \cup {Nobody}
        /\ trusted' \in BOOLEAN
        /\ \A g \in Handlers : pc'[g] # "idle" => copy'[g] \in Rows
    BY <2>2, <2>3, BeginTypes
  <2>6. requests' \in 0..MaxRequests
    BY <2>4, DeploymentsAssumption DEF TypeInv, TypeOK
  <2>7. created
    BY <2>4 DEF TypeInv, FlightInv
  <2> QED
    BY <2>4, <2>5, <2>6, <2>7 DEF TypeInv, TypeOK, FlightInv
<1> QED
  BY <1>1, <1>2 DEF Request

\* The statements of a handler.
LEMMA StatementTypes ==
  ASSUME TypeInv, NEW h \in Handlers,
         WriteDeployment(h) \/ WriteBuild(h) \/ RecordRevision(h) \/ DeleteDeployment(h)
  PROVE  TypeInv'
<1>1. pc[h] # "idle" /\ created /\ copy[h] \in Rows
  BY DEF WriteDeployment, WriteBuild, RecordRevision, DeleteDeployment,
         TypeInv, FlightInv, Quiet
<1>2. UNCHANGED <<created, cr, fresh, requests, restarts>>
  BY DEF WriteDeployment, WriteBuild, RecordRevision, DeleteDeployment, resource, bounds
<1>3. /\ pc' \in [Handlers -> Steps]
      /\ kind' \in [Handlers -> Kinds \cup {"none"}]
      /\ copy' \in [Handlers -> Rows \cup {NoRow}]
      /\ \A g \in Handlers : pc'[g] # "idle" => copy'[g] \in Rows
  <2>1. CASE Respond(h)
    BY <2>1, RespondTypes
  <2>2. CASE ~Respond(h)
    <3>1. /\ \/ GoTo(h, AfterWrite(kind[h])) \/ GoTo(h, "revise")
             \/ GoTo(h, "get") \/ GoTo(h, "remove")
          /\ UNCHANGED <<kind, copy>>
      BY <2>2 DEF WriteDeployment, WriteBuild, RecordRevision, DeleteDeployment
    <3>2. {AfterWrite(kind[h]), "revise", "get", "remove"} \subseteq Steps
      BY DEF AfterWrite, Steps
    <3> QED
      BY <1>1, <3>1, <3>2, GoOnTypes
  <2> QED
    BY <2>1, <2>2
<1>4. row' \in Rows \cup {NoRow} /\ images' \subseteq Images \cup {NoImage}
  <2>1. CASE WriteColumns(h)
    BY <1>1, <2>1, WriteTypes
  <2>2. CASE row' = NoRow /\ UNCHANGED images
    BY <2>2 DEF TypeInv, TypeOK
  <2>3. CASE UNCHANGED <<row, images>>
    BY <2>3 DEF TypeInv, TypeOK
  <2> QED
    BY <2>1, <2>2, <2>3 DEF WriteDeployment, WriteBuild, RecordRevision, DeleteDeployment
<1>5. revisions' \subseteq Rows
  BY <1>1 DEF WriteDeployment, WriteBuild, RecordRevision, DeleteDeployment, TypeInv, TypeOK
<1>6. unsaved' \subseteq Images \cup {NoImage}
  <2>1. copy[h].image \in Images \cup {NoImage}
    BY <1>1 DEF Rows
  <2> QED
    BY <2>1 DEF WriteDeployment, WriteBuild, RecordRevision, DeleteDeployment, TypeInv, TypeOK
<1>7. solo' \in Handlers \cup {Nobody} /\ trusted' \in BOOLEAN
  BY DEF WriteDeployment, WriteBuild, RecordRevision, DeleteDeployment, trust, Distrust,
         TypeInv, TypeOK
<1> QED
  BY <1>1, <1>2, <1>3, <1>4, <1>5, <1>6, <1>7 DEF TypeInv, TypeOK, FlightInv

\* The calls of a handler to Kubernetes.
LEMMA CallTypes ==
  ASSUME TypeInv, NEW h \in Handlers,
         \/ GetResource(h) \/ CreateResource(h) \/ UpdateResource(h)
         \/ DeleteResource(h) \/ SyncFails(h)
  PROVE  TypeInv'
<1>1. pc[h] # "idle" /\ created /\ copy[h] \in Rows
  BY DEF GetResource, CreateResource, UpdateResource, DeleteResource, SyncFails,
         TypeInv, FlightInv, Quiet
<1>2. UNCHANGED <<row, revisions, images, unsaved, created, requests, restarts>>
  BY DEF GetResource, CreateResource, UpdateResource, DeleteResource, SyncFails,
         tables, bounds
<1>3. /\ pc' \in [Handlers -> Steps]
      /\ kind' \in [Handlers -> Kinds \cup {"none"}]
      /\ copy' \in [Handlers -> Rows \cup {NoRow}]
      /\ \A g \in Handlers : pc'[g] # "idle" => copy'[g] \in Rows
  <2>1. CASE Respond(h)
    BY <2>1, RespondTypes
  <2>2. CASE GetResource(h)
    BY <1>1, <2>2, GoOnTypes DEF GetResource, Steps
  <2> QED
    BY <2>1, <2>2 DEF CreateResource, UpdateResource, DeleteResource, SyncFails
<1>4. cr' \in Specs \cup {NoSpec} /\ fresh' \subseteq Handlers
  <2>1. CASE Store(Desired(copy[h]))
    BY <1>1, <2>1, DesiredIsSpec, StoreTypes
  <2>2. CASE Store(NoSpec)
    BY <2>2, StoreTypes
  <2>3. CASE UNCHANGED cr /\ (UNCHANGED fresh \/ fresh' = fresh \cup {h})
    BY <2>3 DEF TypeInv, TypeOK
  <2> QED
    BY <2>1, <2>2, <2>3
    DEF GetResource, CreateResource, UpdateResource, DeleteResource, SyncFails, resource
<1>5. solo' \in Handlers \cup {Nobody} /\ trusted' \in BOOLEAN
  BY DEF GetResource, CreateResource, UpdateResource, DeleteResource, SyncFails,
         Succeed, Distrust, trust, TypeInv, TypeOK
<1> QED
  BY <1>1, <1>2, <1>3, <1>4, <1>5 DEF TypeInv, TypeOK, FlightInv

\* A restart ends every request; a write of the status only makes copies stale.
LEMMA RestartTypes == TypeInv /\ Restart => TypeInv'
<1> SUFFICES ASSUME TypeInv, Restart PROVE TypeInv'
  OBVIOUS
<1>1. /\ restarts' \in 0..MaxRestarts
      /\ UNCHANGED <<row, revisions, images, unsaved, created, cr, fresh, requests>>
  BY DeploymentsAssumption DEF Restart, TypeInv, TypeOK, tables, resource
<1>2. /\ pc' \in [Handlers -> Steps]
      /\ kind' \in [Handlers -> Kinds \cup {"none"}]
      /\ copy' \in [Handlers -> Rows \cup {NoRow}]
      /\ \A g \in Handlers : pc'[g] = "idle"
  BY DEF Restart, Steps
<1>3. solo' \in Handlers \cup {Nobody} /\ trusted' \in BOOLEAN
  BY DEF Restart, Distrust
<1> QED
  BY <1>1, <1>2, <1>3 DEF TypeInv, TypeOK, FlightInv, Quiet

\* The operator's write of the status keeps the types.
LEMMA StatusTypes == TypeInv /\ OperatorWritesStatus => TypeInv'
  BY DEF OperatorWritesStatus, tables, handlers, trust, bounds,
         TypeInv, TypeOK, FlightInv, Quiet

\* Stuttering keeps the types.
LEMMA StutterTypes == TypeInv /\ UNCHANGED vars => TypeInv'
  BY DEF vars, tables, resource, handlers, trust, bounds, TypeInv, TypeOK, FlightInv, Quiet

\* Every step keeps the types.
LEMMA StepTypes == TypeInv /\ [Next]_vars => TypeInv'
  BY RequestTypes, StatementTypes, CallTypes, RestartTypes, StatusTypes, StutterTypes
  DEF Next, HandlerStep

\* The types hold throughout, and a request in flight has a record in hand.
LEMMA TypesHold == Spec => []TypeInv
  BY InitTypes, StepTypes, PTL DEF Spec

\* Type correctness of the control plane's model.
THEOREM TypeCorrect == Spec => []TypeOK
<1>1. TypeInv => TypeOK
  BY DEF TypeInv
<1> QED
  BY <1>1, TypesHold, PTL

-----------------------------------------------------------------------------
(* The image of a deployment.                                              *)

\* Only the UPDATE of a rollback or a build writes the image.
LEMMA ImageChange == TypeInv /\ [Next]_vars => ImageChangeIsAsked
<1> SUFFICES ASSUME TypeInv, [Next]_vars, row \in Rows, row' \in Rows, row'.image # row.image
             PROVE  \E h \in Handlers : /\ kind[h] \in {"rollback", "build"}
                                        /\ copy[h].image = row'.image
  BY DEF ImageChangeIsAsked
<1>1. row # NoRow /\ row' # NoRow /\ created
  BY NoRowIsNone DEF TypeInv, FlightInv
<1>2. PICK h \in Handlers : WriteColumns(h) /\ (WriteDeployment(h) \/ WriteBuild(h))
  <2>1. ~UNCHANGED row
    OBVIOUS
  <2> QED
    BY <1>1, <2>1
    DEF Next, Restart, OperatorWritesStatus, Request, CreateDeployment, ReadDeployment,
        HandlerStep, WriteDeployment, WriteBuild, DeleteDeployment, RecordRevision,
        GetResource, CreateResource, UpdateResource, DeleteResource, SyncFails,
        vars, tables
<1>3. kind[h] \in {"rollback", "build"}
  <2>1. CASE kind[h] \in {"update", "policy"}
    BY <1>1, <1>2, <2>1 DEF WriteColumns, Written
  <2> QED
    BY <1>2, <2>1 DEF WriteDeployment, WriteBuild
<1>4. copy[h].image = row'.image
  BY <1>1, <1>2, <1>3 DEF WriteColumns, Written
<1> QED
  BY <1>3, <1>4

\* An update or a change of policy that works on an older copy of the row does not
\* bring the image of that copy back.
THEOREM StaleCopiesKeepImage == Spec => StaleCopyKeepsImage
  BY TypesHold, ImageChange, PTL DEF Spec, StaleCopyKeepsImage

-----------------------------------------------------------------------------
(* Revisions.  What a handler records is a copy it read earlier and has    *)
(* patched, so what copies hold is part of the invariant.                  *)

\* The image of the row has been the deployment's, so has that of a copy that is
\* not about to change it, and what is recorded has been written or was lost.
ImagesInv ==
  /\ NoImage \in images
  /\ row # NoRow => row.image \in images
  /\ \A h \in Handlers :
       /\ pc[h] = "write" /\ kind[h] \notin {"rollback", "build"} => copy[h].image \in images
       /\ pc[h] = "revise" /\ row # NoRow => copy[h].image \in images \cup unsaved

RevisionInv == TypeInv /\ ImagesInv /\ RevisionsWereCurrent

\* The invariant of the revisions holds at first.
LEMMA InitRevisions == Init => RevisionInv
  BY InitTypes DEF Init, RevisionInv, ImagesInv, RevisionsWereCurrent

\* A request begins with a copy of the row; one that creates it, with its record.
LEMMA RequestRevisions ==
  ASSUME RevisionInv, NEW h \in Handlers, Request(h)
  PROVE  ImagesInv' /\ RevisionsWereCurrent'
<1>1. UNCHANGED <<revisions, images, unsaved>>
  BY DEF Request, CreateDeployment, ReadDeployment, tables
<1>2. RevisionsWereCurrent'
  BY <1>1 DEF RevisionInv, RevisionsWereCurrent
<1>3. CASE \E m \in Modes : CreateDeployment(h, m)
  <2>1. PICK m \in Modes : CreateDeployment(h, m)
    BY <1>3
  <2> DEFINE rec == [mode |-> m, image |-> NoImage]
  <2>2. /\ row' = rec
        /\ pc' = [pc EXCEPT ![h] = "revise"]
        /\ copy' = [copy EXCEPT ![h] = rec]
    BY <2>1 DEF CreateDeployment, Begin, GoTo
  <2>3. \A g \in Handlers : pc[g] = "idle"
    BY <2>1 DEF CreateDeployment, RevisionInv, TypeInv, FlightInv, Quiet
  <2>4. rec.image \in images
    BY DEF RevisionInv, ImagesInv
  <2>5. \A g \in Handlers : /\ pc'[g] # "write"
                            /\ pc'[g] = "revise" => copy'[g].image \in images
    <3> HIDE DEF rec
    <3> QED
      BY <2>2, <2>3, <2>4 DEF RevisionInv, TypeInv, TypeOK
  <2>6. row'.image \in images /\ NoImage \in images
    BY <2>2, <2>4 DEF RevisionInv, ImagesInv
  <2> QED
    BY <1>1, <1>2, <2>5, <2>6 DEF ImagesInv
<1>4. CASE \E k \in Kinds \ {"create"} : ReadDeployment(h, k)
  <2>1. PICK k \in Kinds \ {"create"} : ReadDeployment(h, k)
    BY <1>4
  <2>2. PICK rec \in Patched(k) : Begin(h, k, rec, "write")
    BY <2>1 DEF ReadDeployment
  <2>3. /\ pc' = [pc EXCEPT ![h] = "write"]
        /\ kind' = [kind EXCEPT ![h] = k]
        /\ copy' = [copy EXCEPT ![h] = rec]
    BY <2>2 DEF Begin, GoTo
  <2>4. row # NoRow /\ UNCHANGED row
    BY <2>1 DEF ReadDeployment, tables
  <2>5. k \notin {"rollback", "build"} => rec.image \in images
    BY <2>4 DEF Patched, RevisionInv, ImagesInv
  <2>6. \A g \in Handlers \ {h} :
          pc'[g] = pc[g] /\ kind'[g] = kind[g] /\ copy'[g] = copy[g]
    BY <2>3 DEF RevisionInv, TypeInv, TypeOK
  <2>7. pc'[h] = "write" /\ kind'[h] = k /\ copy'[h] = rec
    BY <2>3 DEF RevisionInv, TypeInv, TypeOK
  <2>8. ImagesInv
    BY DEF RevisionInv
  <2> QED
    BY <1>1, <1>2, <2>4, <2>5, <2>6, <2>7, <2>8 DEF ImagesInv
<1> QED
  BY <1>2, <1>3, <1>4 DEF Request

\* What is written was in a copy: an UPDATE of mode keeps the row's image, one of the
\* image makes the copy's image the deployment's.
LEMMA UpdateRevisions ==
  ASSUME RevisionInv, NEW h \in Handlers, pc[h] = "write", WriteColumns(h),
         NEW step \in {"revise", "get"}, GoTo(h, step), UNCHANGED <<kind, copy, unsaved>>
  PROVE  ImagesInv'
<1>1. pc' = [pc EXCEPT ![h] = step] /\ copy[h] \in Rows
  BY DEF GoTo, RevisionInv, TypeInv, FlightInv
<1>2. CASE row = NoRow
  <2>1. UNCHANGED <<row, images>>
    BY <1>2 DEF WriteColumns
  <2> QED
    BY <1>1, <1>2, <2>1 DEF RevisionInv, ImagesInv, TypeInv, TypeOK
<1>3. CASE row # NoRow
  <2>1. images' = images \cup {row'.image}
    BY <1>3 DEF WriteColumns
  <2>2. copy[h].image \in images'
    <3>1. CASE kind[h] \in {"rollback", "build"}
      BY <1>3, <2>1, <3>1 DEF WriteColumns, Written
    <3>2. CASE kind[h] \notin {"rollback", "build"}
      BY <2>1, <3>2 DEF RevisionInv, ImagesInv
    <3> QED
      BY <3>1, <3>2
  <2>3. row'.image \in images' /\ images \subseteq images'
    BY <2>1
  <2> QED
    BY <1>1, <1>3, <2>2, <2>3 DEF RevisionInv, ImagesInv, TypeInv, TypeOK
<1> QED
  BY <1>2, <1>3

\* A handler that answers leaves the others' copies alone.
LEMMA AnswerRevisions ==
  ASSUME RevisionInv, NEW h \in Handlers, Respond(h), UNCHANGED <<row, images, unsaved>>
  PROVE  ImagesInv'
<1>1. /\ pc' = [pc EXCEPT ![h] = "idle"]
      /\ kind' = [kind EXCEPT ![h] = "none"]
      /\ copy' = [copy EXCEPT ![h] = NoRow]
  BY DEF Respond, GoTo
<1> QED
  BY <1>1 DEF RevisionInv, ImagesInv, TypeInv, TypeOK

\* A handler that goes on without a write, past what the invariant says of it.
LEMMA GoOnRevisions ==
  ASSUME RevisionInv, NEW h \in Handlers, NEW step \in Steps \ {"write", "revise"},
         GoTo(h, step), UNCHANGED <<kind, copy, images, unsaved>>, row' \in {row, NoRow}
  PROVE  ImagesInv'
<1>1. pc' = [pc EXCEPT ![h] = step]
  BY DEF GoTo
<1> QED
  BY <1>1 DEF RevisionInv, ImagesInv, TypeInv, TypeOK

\* The statements of a handler.
LEMMA StatementRevisions ==
  ASSUME RevisionInv, NEW h \in Handlers,
         WriteDeployment(h) \/ WriteBuild(h) \/ RecordRevision(h) \/ DeleteDeployment(h)
  PROVE  ImagesInv' /\ RevisionsWereCurrent'
<1>1. CASE WriteDeployment(h)
  <2>1. UNCHANGED <<revisions, unsaved>> /\ pc[h] = "write"
    BY <1>1 DEF WriteDeployment
  <2>2. CASE Respond(h) /\ UNCHANGED <<row, images>>
    BY <2>1, <2>2, AnswerRevisions DEF RevisionInv, RevisionsWereCurrent
  <2>3. CASE WriteColumns(h) /\ GoTo(h, AfterWrite(kind[h])) /\ UNCHANGED <<kind, copy>>
    <3>1. AfterWrite(kind[h]) \in {"revise", "get"}
      BY DEF AfterWrite
    <3>2. ImagesInv'
      BY <2>1, <2>3, <3>1, UpdateRevisions
    <3>3. images \subseteq images'
      BY <2>3 DEF WriteColumns
    <3> QED
      BY <2>1, <3>2, <3>3 DEF RevisionInv, RevisionsWereCurrent
  <2> QED
    BY <1>1, <2>2, <2>3 DEF WriteDeployment
<1>2. CASE WriteBuild(h)
  <2>1. UNCHANGED revisions /\ pc[h] = "write"
    BY <1>2 DEF WriteBuild
  <2>2. CASE Respond(h) /\ UNCHANGED <<row, images, unsaved>>
    BY <2>1, <2>2, AnswerRevisions DEF RevisionInv, RevisionsWereCurrent
  <2>3. CASE WriteColumns(h) /\ GoTo(h, "revise") /\ UNCHANGED <<unsaved, kind, copy>>
    <3>1. ImagesInv'
      BY <2>1, <2>3, UpdateRevisions
    <3>2. images \subseteq images'
      BY <2>3 DEF WriteColumns
    <3> QED
      BY <2>1, <2>3, <3>1, <3>2 DEF RevisionInv, RevisionsWereCurrent
  <2>4. CASE /\ GoTo(h, "revise") /\ unsaved' = unsaved \cup {copy[h].image}
             /\ UNCHANGED <<row, images, kind, copy>>
    <3>1. pc' = [pc EXCEPT ![h] = "revise"]
      BY <2>4 DEF GoTo
    <3>2. ImagesInv'
      BY <2>4, <3>1 DEF RevisionInv, ImagesInv, TypeInv, TypeOK
    <3> QED
      BY <2>1, <2>4, <3>2 DEF RevisionInv, RevisionsWereCurrent
  <2> QED
    BY <1>2, <2>2, <2>3, <2>4 DEF WriteBuild
<1>3. CASE RecordRevision(h)
  <2>1. /\ pc[h] = "revise" /\ GoTo(h, "get")
        /\ UNCHANGED <<row, images, unsaved, kind, copy>>
    BY <1>3 DEF RecordRevision
  <2>2. ImagesInv'
    BY <2>1, GoOnRevisions DEF Steps
  <2>3. \A v \in revisions' : v \in revisions \/ (v = copy[h] /\ row # NoRow)
    BY <1>3 DEF RecordRevision
  <2> QED
    BY <2>1, <2>2, <2>3 DEF RevisionInv, ImagesInv, RevisionsWereCurrent
<1>4. CASE DeleteDeployment(h)
  <2>1. UNCHANGED <<images, unsaved>> /\ revisions' \subseteq revisions
    BY <1>4 DEF DeleteDeployment
  <2>2. RevisionsWereCurrent'
    BY <2>1 DEF RevisionInv, RevisionsWereCurrent
  <2>3. CASE Respond(h) /\ UNCHANGED row
    BY <2>1, <2>2, <2>3, AnswerRevisions
  <2>4. CASE row' = NoRow /\ GoTo(h, "remove") /\ UNCHANGED <<kind, copy>>
    BY <2>1, <2>2, <2>4, GoOnRevisions DEF Steps
  <2> QED
    BY <1>4, <2>3, <2>4 DEF DeleteDeployment
<1> QED
  BY <1>1, <1>2, <1>3, <1>4

\* Calls to Kubernetes, restarts and the operator do not touch the tables.
LEMMA OtherRevisions ==
  ASSUME RevisionInv,
         \/ Restart \/ OperatorWritesStatus \/ UNCHANGED vars
         \/ \E h \in Handlers : \/ GetResource(h) \/ CreateResource(h) \/ UpdateResource(h)
                                \/ DeleteResource(h) \/ SyncFails(h)
  PROVE  ImagesInv' /\ RevisionsWereCurrent'
<1>1. UNCHANGED <<row, revisions, images, unsaved>>
  BY DEF Restart, OperatorWritesStatus, vars, tables, GetResource, CreateResource,
         UpdateResource, DeleteResource, SyncFails
<1>2. RevisionsWereCurrent'
  BY <1>1 DEF RevisionInv, RevisionsWereCurrent
<1>3. CASE Restart
  <2>1. \A h \in Handlers : pc'[h] = "idle"
    BY <1>3 DEF Restart
  <2> QED
    BY <1>1, <1>2, <2>1 DEF RevisionInv, ImagesInv
<1>4. CASE UNCHANGED <<pc, kind, copy>>
  <2>1. ImagesInv
    BY DEF RevisionInv
  <2> QED
    BY <1>1, <1>2, <1>4, <2>1 DEF ImagesInv
<1>5. ASSUME NEW h \in Handlers,
             \/ GetResource(h) \/ CreateResource(h) \/ UpdateResource(h)
             \/ DeleteResource(h) \/ SyncFails(h)
      PROVE  ImagesInv'
  <2>1. CASE Respond(h)
    BY <1>1, <2>1, AnswerRevisions
  <2>2. CASE GetResource(h)
    <3>1. GoTo(h, IF cr = NoSpec THEN "create" ELSE "update") /\ UNCHANGED <<kind, copy>>
      BY <2>2 DEF GetResource
    <3> QED
      BY <1>1, <3>1, GoOnRevisions DEF Steps
  <2> QED
    BY <1>5, <2>1, <2>2 DEF CreateResource, UpdateResource, DeleteResource, SyncFails
<1> QED
  BY <1>2, <1>3, <1>4, <1>5 DEF OperatorWritesStatus, vars, handlers

\* Every step keeps each revision an image that was once current.
LEMMA StepRevisions == RevisionInv /\ [Next]_vars => RevisionInv'
<1> SUFFICES ASSUME RevisionInv, [Next]_vars PROVE RevisionInv'
  OBVIOUS
<1>1. TypeInv'
  BY StepTypes DEF RevisionInv
<1>2. ImagesInv' /\ RevisionsWereCurrent'
  BY RequestRevisions, StatementRevisions, OtherRevisions DEF Next, HandlerStep
<1> QED
  BY <1>1, <1>2 DEF RevisionInv

\* A revision holds an image the deployment has had, or that of a build whose
\* UPDATE was lost.
THEOREM RevisionsHold == Spec => []RevisionsWereCurrent
<1>1. RevisionInv => RevisionsWereCurrent
  BY DEF RevisionInv
<1> QED
  BY <1>1, InitRevisions, StepRevisions, PTL DEF Spec

-----------------------------------------------------------------------------
(* A request that is alone.                                                *)

\* The request in solo is the only one in flight, and there is one as long as the
\* resource is trusted.
AloneInv ==
  /\ solo # Nobody => \A h \in Handlers : pc[h] # "idle" => h = solo
  /\ trusted /\ ~Quiet => solo # Nobody

\* Nobody wrote behind its back: its copy is the row it read, as it will write it,
\* and then the row.
CopyInv ==
  \A h \in Handlers : solo = h =>
    /\ pc[h] = "write" => row # NoRow /\ copy[h] \in Patched(kind[h])
    /\ pc[h] \in {"revise", "get", "create", "update"} => row # NoRow /\ copy[h] = row
    /\ pc[h] = "remove" => row = NoRow

\* What the row wants of the resource.
Wanted == IF row = NoRow THEN NoSpec ELSE Desired(row)

\* Trust means that the resource is as the row wants it, until the row is written.
TrustInv ==
  trusted /\ (\A h \in Handlers : pc[h] \in {"idle", "write"}) => cr = Wanted

LoneInv == TypeInv /\ AloneInv /\ CopyInv /\ TrustInv

\* Nobody is alone at work at first.
LEMMA InitLone == Init => LoneInv
<1> SUFFICES ASSUME Init PROVE LoneInv
  OBVIOUS
<1>1. solo = Nobody /\ Quiet /\ cr = NoSpec /\ row = NoRow
  BY DEF Init, Quiet
<1>2. \A h \in Handlers : solo # h
  BY <1>1, DeploymentsAssumption
<1> QED
  BY <1>1, <1>2, InitTypes DEF LoneInv, AloneInv, CopyInv, TrustInv, Wanted

\* A request that is trusted to be alone is.
LEMMA TrustedAlone ==
  ASSUME LoneInv, NEW h \in Handlers, pc[h] # "idle", trusted \/ solo = h
  PROVE  solo = h /\ \A g \in Handlers : g # h => pc[g] = "idle"
<1>1. ~Quiet
  BY DEF Quiet
<1>2. solo # Nobody
  BY <1>1, DeploymentsAssumption DEF LoneInv, AloneInv
<1> QED
  BY <1>2 DEF LoneInv, AloneInv

\* A request that finds another in flight is not alone, nor is the other any more.
LEMMA RequestLone ==
  ASSUME LoneInv, NEW h \in Handlers, Request(h)
  PROVE  AloneInv' /\ CopyInv' /\ TrustInv'
<1>1. PICK k \in Kinds, rec \in Rows, step \in {"write", "revise"} :
        /\ Begin(h, k, rec, step)
        /\ UNCHANGED cr
        /\ step = "write" => UNCHANGED row /\ row # NoRow /\ rec \in Patched(k)
        /\ step = "revise" => row' = rec
  <2>1. CASE \E m \in Modes : CreateDeployment(h, m)
    <3>1. PICK m \in Modes : CreateDeployment(h, m)
      BY <2>1
    <3> DEFINE rec == [mode |-> m, image |-> NoImage]
    <3>2. rec \in Rows /\ "create" \in Kinds
      BY DEF Rows, Kinds
    <3>3. Begin(h, "create", rec, "revise") /\ row' = rec /\ UNCHANGED cr
      BY <3>1 DEF CreateDeployment, resource
    <3> HIDE DEF rec
    <3> QED
      BY <3>2, <3>3
  <2>2. CASE \E k \in Kinds \ {"create"} : ReadDeployment(h, k)
    <3>1. PICK k \in Kinds \ {"create"} : ReadDeployment(h, k)
      BY <2>2
    <3>2. PICK rec \in Patched(k) : Begin(h, k, rec, "write")
      BY <3>1 DEF ReadDeployment
    <3>3. rec \in Rows
      BY DEF Patched
    <3>4. UNCHANGED <<cr, row>> /\ row # NoRow
      BY <3>1 DEF ReadDeployment, resource, tables
    <3> QED
      BY <3>2, <3>3, <3>4
  <2> QED
    BY <2>1, <2>2 DEF Request
<1>2. /\ pc' = [pc EXCEPT ![h] = step]
      /\ kind' = [kind EXCEPT ![h] = k]
      /\ copy' = [copy EXCEPT ![h] = rec]
      /\ solo' = IF Quiet THEN h ELSE Nobody
      /\ trusted' = (trusted /\ Quiet)
  BY <1>1 DEF Begin, GoTo
<1>3. /\ pc'[h] = step /\ kind'[h] = k /\ copy'[h] = rec
      /\ \A g \in Handlers : g # h => pc'[g] = pc[g]
  BY <1>2 DEF LoneInv, TypeInv, TypeOK
<1>4. CASE Quiet
  <2>1. solo' = h /\ solo' # Nobody /\ \A g \in Handlers : g # h => pc'[g] = "idle"
    BY <1>2, <1>3, <1>4, DeploymentsAssumption DEF Quiet
  <2>2. AloneInv'
    BY <2>1 DEF AloneInv
  <2>3. CopyInv'
    <3>1. CASE step = "write"
      <4>1. row' # NoRow /\ rec \in Patched(k)'
        BY <1>1, <3>1 DEF Patched
      <4> QED
        BY <1>3, <2>1, <3>1, <4>1 DEF CopyInv
    <3>2. CASE step = "revise"
      BY <1>1, <1>3, <2>1, <3>2, NoRowIsNone DEF CopyInv
    <3> QED
      BY <3>1, <3>2
  <2>4. TrustInv'
    <3>1. CASE step = "revise"
      BY <1>3, <3>1 DEF TrustInv
    <3>2. CASE step = "write"
      <4>1. trusted' => cr = Wanted
        BY <1>2, <1>4 DEF LoneInv, TrustInv, Quiet
      <4>2. Wanted' = Wanted /\ cr' = cr
        BY <1>1, <3>2 DEF Wanted
      <4> QED
        BY <4>1, <4>2 DEF TrustInv
    <3> QED
      BY <3>1, <3>2
  <2> QED
    BY <2>2, <2>3, <2>4
<1>5. CASE ~Quiet
  <2>1. solo' = Nobody /\ ~trusted' /\ \A g \in Handlers : solo' # g
    BY <1>2, <1>5, DeploymentsAssumption
  <2> QED
    BY <2>1 DEF AloneInv, CopyInv, TrustInv
<1> QED
  BY <1>4, <1>5

\* After a failure nobody counts as alone and nothing is trusted.
LEMMA DistrustLone == Distrust => AloneInv' /\ CopyInv' /\ TrustInv'
  BY DeploymentsAssumption DEF Distrust, AloneInv, CopyInv, TrustInv

\* A step of a request keeps those alone who are.
LEMMA StepAlone ==
  ASSUME LoneInv, NEW h \in Handlers, pc[h] # "idle", NEW step \in Steps, GoTo(h, step),
         UNCHANGED solo, trusted' => trusted \/ solo = h
  PROVE  AloneInv'
<1>1. \A g \in Handlers : pc'[g] # "idle" => pc[g] # "idle"
  BY DEF GoTo, LoneInv, TypeInv, TypeOK
<1>2. trusted' => solo = h
  BY TrustedAlone
<1> QED
  BY <1>1, <1>2, DeploymentsAssumption DEF LoneInv, AloneInv

\* What must be shown of the copies after a step of h: only its own matters.
LEMMA OwnCopy ==
  ASSUME LoneInv, NEW h \in Handlers, pc[h] # "idle", UNCHANGED solo,
         solo = h =>
           /\ pc'[h] = "write" => row' # NoRow /\ copy'[h] \in Patched(kind[h])'
           /\ pc'[h] \in {"revise", "get", "create", "update"} => row' # NoRow /\ copy'[h] = row'
           /\ pc'[h] = "remove" => row' = NoRow
  PROVE  CopyInv'
<1>1. \A g \in Handlers : solo' = g => g = h
  BY DeploymentsAssumption DEF LoneInv, AloneInv
<1> QED
  BY <1>1 DEF CopyInv

\* An answer that changes nothing.
LEMMA AnswerLone ==
  ASSUME LoneInv, NEW h \in Handlers, pc[h] = "write", Respond(h),
         UNCHANGED <<row, cr, solo, trusted>>
  PROVE  AloneInv' /\ CopyInv' /\ TrustInv'
<1>1. GoTo(h, "idle") /\ pc' = [pc EXCEPT ![h] = "idle"] /\ "idle" \in Steps
  BY DEF Respond, GoTo, Steps
<1>2. AloneInv'
  BY <1>1, StepAlone
<1>3. pc'[h] = "idle"
  BY <1>1 DEF LoneInv, TypeInv, TypeOK
<1>4. CopyInv'
  BY <1>3, OwnCopy
<1>5. (\A g \in Handlers : pc'[g] \in {"idle", "write"})
        => \A g \in Handlers : pc[g] \in {"idle", "write"}
  BY <1>1 DEF LoneInv, TypeInv, TypeOK
<1>6. TrustInv'
  BY <1>5 DEF LoneInv, TrustInv, Wanted
<1> QED
  BY <1>2, <1>4, <1>6

\* The UPDATE of a request that is alone writes its copy.
LEMMA UpdateWritesCopy ==
  ASSUME LoneInv, NEW h \in Handlers, pc[h] = "write", solo = h, WriteColumns(h)
  PROVE  row' = copy[h] /\ row' # NoRow
<1>1. row # NoRow /\ copy[h] \in Patched(kind[h])
  BY DEF LoneInv, CopyInv
<1>2. copy[h] \in Rows /\ copy[h] = [mode |-> copy[h].mode, image |-> copy[h].image]
  BY DEF LoneInv, TypeInv, FlightInv, Rows
<1>3. CASE kind[h] \in {"update", "policy"}
  <2>1. row' = [mode |-> copy[h].mode, image |-> row.image] /\ copy[h].image = row.image
    BY <1>1, <1>3 DEF WriteColumns, Written, Patched
  <2> QED
    BY <1>2, <2>1, NoRowIsNone
<1>4. CASE kind[h] \notin {"update", "policy"}
  <2>1. row' = [mode |-> row.mode, image |-> copy[h].image] /\ copy[h].mode = row.mode
    BY <1>1, <1>4 DEF WriteColumns, Written, Patched
  <2> QED
    BY <1>2, <2>1, NoRowIsNone
<1> QED
  BY <1>3, <1>4

\* A step that leaves the resource for later steps of the same request to write.
LEMMA GoOnLone ==
  ASSUME LoneInv, NEW h \in Handlers, pc[h] # "idle",
         NEW step \in {"revise", "get", "create", "update", "remove"},
         GoTo(h, step), UNCHANGED <<copy, solo, trusted>>,
         solo = h => IF step = "remove" THEN row' = NoRow
                     ELSE row' # NoRow /\ copy[h] = row'
  PROVE  AloneInv' /\ CopyInv' /\ TrustInv'
<1>1. pc' = [pc EXCEPT ![h] = step] /\ step \in Steps
  BY DEF GoTo, Steps
<1>2. pc'[h] = step
  BY <1>1 DEF LoneInv, TypeInv, TypeOK
<1>3. AloneInv'
  BY <1>1, StepAlone
<1>4. CopyInv'
  BY <1>2, OwnCopy
<1>5. TrustInv'
  BY <1>2 DEF TrustInv
<1> QED
  BY <1>3, <1>4, <1>5

\* The statements of a handler.
LEMMA StatementLone ==
  ASSUME LoneInv, NEW h \in Handlers,
         WriteDeployment(h) \/ WriteBuild(h) \/ RecordRevision(h) \/ DeleteDeployment(h)
  PROVE  AloneInv' /\ CopyInv' /\ TrustInv'
<1>0. UNCHANGED cr /\ pc[h] # "idle"
  BY DEF WriteDeployment, WriteBuild, RecordRevision, DeleteDeployment, resource
<1>1. CASE WriteDeployment(h)
  <2>1. pc[h] = "write" /\ UNCHANGED <<solo, trusted>>
    BY <1>1 DEF WriteDeployment, trust
  <2>2. CASE Respond(h) /\ UNCHANGED row
    BY <1>0, <2>1, <2>2, AnswerLone
  <2>3. CASE WriteColumns(h) /\ GoTo(h, AfterWrite(kind[h])) /\ UNCHANGED copy
    <3>1. AfterWrite(kind[h]) \in {"revise", "get"}
      BY DEF AfterWrite
    <3>2. solo = h => row' # NoRow /\ copy[h] = row'
      BY <2>1, <2>3, UpdateWritesCopy
    <3> QED
      BY <2>1, <2>3, <3>1, <3>2, GoOnLone
  <2> QED
    BY <1>1, <2>2, <2>3 DEF WriteDeployment
<1>2. CASE WriteBuild(h)
  <2>1. pc[h] = "write"
    BY <1>2 DEF WriteBuild
  <2>2. CASE Respond(h) /\ UNCHANGED <<row, solo, trusted>>
    BY <1>0, <2>1, <2>2, AnswerLone
  <2>3. CASE WriteColumns(h) /\ GoTo(h, "revise") /\ UNCHANGED <<copy, solo, trusted>>
    <3>1. solo = h => row' # NoRow /\ copy[h] = row'
      BY <2>1, <2>3, UpdateWritesCopy
    <3> QED
      BY <2>1, <2>3, <3>1, GoOnLone
  <2>4. CASE Distrust
    BY <2>4, DistrustLone
  <2> QED
    BY <1>2, <2>2, <2>3, <2>4 DEF WriteBuild, trust
<1>3. CASE RecordRevision(h)
  <2>1. /\ pc[h] = "revise" /\ GoTo(h, "get")
        /\ UNCHANGED <<row, copy, solo, trusted>>
    BY <1>3 DEF RecordRevision, trust
  <2>2. solo = h => row' # NoRow /\ copy[h] = row'
    BY <2>1 DEF LoneInv, CopyInv
  <2> QED
    BY <1>0, <2>1, <2>2, GoOnLone
<1>4. CASE DeleteDeployment(h)
  <2>1. pc[h] = "write" /\ UNCHANGED <<solo, trusted>>
    BY <1>4 DEF DeleteDeployment, trust
  <2>2. CASE Respond(h) /\ UNCHANGED row
    BY <1>0, <2>1, <2>2, AnswerLone
  <2>3. CASE row' = NoRow /\ GoTo(h, "remove") /\ UNCHANGED copy
    BY <2>1, <2>3, GoOnLone
  <2> QED
    BY <1>4, <2>2, <2>3 DEF DeleteDeployment
<1> QED
  BY <1>1, <1>2, <1>3, <1>4

\* The last call of a request that is alone gives the resource what the row wants.
LEMMA LastCallLone ==
  ASSUME LoneInv, NEW h \in Handlers, pc[h] # "idle", Respond(h), Succeed(h), UNCHANGED row,
         solo = h => cr' = Wanted
  PROVE  AloneInv' /\ CopyInv' /\ TrustInv'
<1>1. GoTo(h, "idle") /\ pc' = [pc EXCEPT ![h] = "idle"] /\ "idle" \in Steps
  BY DEF Respond, GoTo, Steps
<1>2. UNCHANGED solo /\ (trusted' => trusted \/ solo = h)
  BY DEF Succeed
<1>3. pc'[h] = "idle"
  BY <1>1 DEF LoneInv, TypeInv, TypeOK
<1>4. AloneInv'
  BY <1>1, <1>2, StepAlone
<1>5. CopyInv'
  BY <1>2, <1>3, OwnCopy
<1>6. trusted' => cr' = Wanted
  BY <1>2, TrustedAlone
<1>7. TrustInv'
  BY <1>6 DEF TrustInv, Wanted
<1> QED
  BY <1>4, <1>5, <1>7

\* The calls of a handler to Kubernetes.
LEMMA CallLone ==
  ASSUME LoneInv, NEW h \in Handlers,
         \/ GetResource(h) \/ CreateResource(h) \/ UpdateResource(h)
         \/ DeleteResource(h) \/ SyncFails(h)
  PROVE  AloneInv' /\ CopyInv' /\ TrustInv'
<1>1. UNCHANGED row /\ pc[h] # "idle" /\ copy[h] \in Rows
  BY DEF GetResource, CreateResource, UpdateResource, DeleteResource, SyncFails, tables,
         LoneInv, TypeInv, FlightInv
<1>2. CASE GetResource(h)
  <2> DEFINE step == IF cr = NoSpec THEN "create" ELSE "update"
  <2>1. pc[h] = "get" /\ GoTo(h, step) /\ UNCHANGED <<copy, solo, trusted>>
    BY <1>2 DEF GetResource, trust
  <2>2. solo = h => row' # NoRow /\ copy[h] = row'
    BY <1>1, <2>1 DEF LoneInv, CopyInv
  <2>3. step \in {"create", "update"}
    OBVIOUS
  <2> HIDE DEF step
  <2> QED
    BY <1>1, <2>1, <2>2, <2>3, GoOnLone
<1>3. CASE CreateResource(h) \/ UpdateResource(h)
  <2>1. /\ pc[h] \in {"create", "update"}
        /\ Store(Desired(copy[h])) /\ Respond(h) /\ Succeed(h)
    BY <1>3 DEF CreateResource, UpdateResource
  <2>2. cr' = Desired(copy[h])
    BY <1>1, <2>1, DesiredIsSpec, StoreTypes DEF LoneInv
  <2>3. solo = h => cr' = Wanted
    BY <2>1, <2>2 DEF LoneInv, CopyInv, Wanted
  <2> QED
    BY <1>1, <2>1, <2>3, LastCallLone
<1>4. CASE DeleteResource(h)
  <2>1. pc[h] = "remove" /\ Store(NoSpec) /\ Respond(h) /\ Succeed(h)
    BY <1>4 DEF DeleteResource
  <2>2. cr' = NoSpec
    BY <2>1, StoreTypes DEF LoneInv
  <2>3. solo = h => cr' = Wanted
    BY <2>1, <2>2 DEF LoneInv, CopyInv, Wanted
  <2> QED
    BY <1>1, <2>1, <2>3, LastCallLone
<1>5. CASE SyncFails(h)
  BY <1>5, DistrustLone DEF SyncFails
<1> QED
  BY <1>2, <1>3, <1>4, <1>5

\* What the environment does is a failure or touches neither row nor specification.
LEMMA EnvironmentLone ==
  ASSUME LoneInv, Restart \/ OperatorWritesStatus \/ UNCHANGED vars
  PROVE  AloneInv' /\ CopyInv' /\ TrustInv'
<1>1. CASE Restart
  BY <1>1, DistrustLone DEF Restart
<1>2. CASE UNCHANGED <<row, cr, pc, kind, copy, solo, trusted>>
  <2>1. AloneInv'
    BY <1>2 DEF LoneInv, AloneInv, Quiet
  <2>2. CopyInv'
    BY <1>2 DEF LoneInv, CopyInv, Patched
  <2>3. TrustInv'
    BY <1>2 DEF LoneInv, TrustInv, Wanted
  <2> QED
    BY <2>1, <2>2, <2>3
<1> QED
  BY <1>1, <1>2 DEF OperatorWritesStatus, vars, tables, resource, handlers, trust

\* Every step keeps what a handler alone at work relies on.
LEMMA StepLone == LoneInv /\ [Next]_vars => LoneInv'
<1> SUFFICES ASSUME LoneInv, [Next]_vars PROVE LoneInv'
  OBVIOUS
<1>1. TypeInv'
  BY StepTypes DEF LoneInv
<1>2. AloneInv' /\ CopyInv' /\ TrustInv'
  BY RequestLone, StatementLone, CallLone, EnvironmentLone DEF Next, HandlerStep
<1> QED
  BY <1>1, <1>2 DEF LoneInv

\* A request that is alone from beginning to end, and goes through, leaves the
\* resource as the row wants it, whatever came before.
THEOREM LoneRequestRepairs == Spec => []LoneRequestHeals
<1>1. LoneInv => LoneRequestHeals
  BY DEF LoneInv, TrustInv, Wanted, LoneRequestHeals, Quiet
<1> QED
  BY <1>1, InitLone, StepLone, PTL DEF Spec
=============================================================================
