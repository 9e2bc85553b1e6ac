------------------------------ MODULE Operator ------------------------------
(***************************************************************************)
(* The operator: AgentDeploymentReconciler makes the objects of a cluster  *)
(* match one AgentDeployment.  It works from an informer's copy of the     *)
(* resource, writes the objects one by one and then the status, and is     *)
(* called again when the resource or an object it owns changes.  There is  *)
(* no leader election: a rolling update runs two operators side by side.   *)
(*                                                                         *)
(* A step is one call to Kubernetes that changes something; the Get before *)
(* it is part of the step.  The manager's client reads the objects it      *)
(* watches from informers too, so what it finds may be out of date.        *)
(* "workload" stands for the two Deployments, "network" for the Service and *)
(* the NetworkPolicy.  The template of the sandbox keeps its default name:  *)
(* under a new one there would be a second template, which nobody removes.  *)
(***************************************************************************)
EXTENDS Naturals, Sequences

CONSTANTS
  Operators,   \* processes that run the controller
  Specs,       \* specifications of the resource: image, rollback image, runtime with
               \* replicas, mode, host of the ingress, egress, size of the warm pool
  MaxChanges,  \* bound: changes of the specification
  MaxFaults    \* bound: objects changed by others, failing calls and restarts

VARIABLES
  cr,       \* the AgentDeployment
  objects,  \* what each object was made from; NoSpec if there is none
  crds,     \* the sandbox resources are known to the cluster
  seen,     \* the informer's copy of the resource
  queued,   \* the work queue holds the resource
  at,       \* place in Reconcile, 0 when not in it
  dep,      \* the copy Reconcile works with
  lagging,  \* which <<operator, kind>> copies of an object are out of date
  fresh,    \* which copies, <<"seen" or "dep", operator>>, have the current version
  drifted,  \* history: sandbox objects changed by others since they were written
  changes, faults

cluster == <<cr, objects, crds, drifted>>
controller == <<seen, queued, at, dep>>  \* lagging changes with the objects
bounds == <<changes, faults>>
vars == <<cluster, controller, lagging, fresh, bounds>>

\* The objects in the order Reconcile writes them, and its last step.
Order == <<"workload", "network", "ingress", "template", "pool", "status">>
Kinds == {Order[i] : i \in 1..Len(Order) - 1}
Sandbox == {"template", "pool"}

\* reconcileSandboxResources does not set the controller reference, and
\* SetupWithManager does not watch what it makes.
Owned == Kinds \ Sandbox

NoSpec == [image |-> "none"]
Foreign == [image |-> "foreign"]

ASSUME OperatorAssumption ==
  /\ Operators # {}
  /\ NoSpec \notin Specs /\ Foreign \notin Specs
  /\ MaxChanges \in Nat /\ MaxFaults \in Nat

Unready == [ready |-> FALSE, generation |-> 0]
Statuses == [ready : BOOLEAN, generation : 0..MaxChanges + 1]
Absent == [spec |-> NoSpec, generation |-> 0, status |-> Unready]
Resources ==
  [spec : Specs, generation : 1..MaxChanges + 1, status : Statuses] \cup {Absent}
Copies == {"seen", "dep"} \X Operators

TypeOK ==
  /\ cr \in Resources
  /\ objects \in [Kinds -> Specs \cup {NoSpec, Foreign}]
  /\ crds \in BOOLEAN
  /\ seen \in [Operators -> Resources]
  /\ queued \in [Operators -> BOOLEAN]
  /\ at \in [Operators -> 0..Len(Order)]
  /\ dep \in [Operators -> Resources]
  /\ lagging \subseteq Operators \X Owned
  /\ fresh \subseteq Copies
  /\ drifted \subseteq Sandbox
  /\ changes \in 0..MaxChanges
  /\ faults \in 0..MaxFaults

\* Informers list the resource when they start.
Init ==
  /\ \E spec \in Specs : cr = [spec |-> spec, generation |-> 1, status |-> Unready]
  /\ objects = [k \in Kinds |-> NoSpec]
  /\ crds \in BOOLEAN
  /\ seen = [o \in Operators |-> Absent]
  /\ queued = [o \in Operators |-> FALSE]
  /\ at = [o \in Operators |-> 0]
  /\ dep = [o \in Operators |-> Absent]
  /\ lagging = {}
  /\ fresh = {}
  /\ drifted = {}
  /\ changes = 0
  /\ faults = 0

-----------------------------------------------------------------------------
(* What an object is made of.                                              *)

Needs(spec, k) ==
  /\ k \in Sandbox => spec.mode = "mode_b"
  /\ k = "ingress" => spec.host # ""

\* The fields of the specification an object depends on.  A rollback image is for the
\* workload only: the template of the sandbox keeps the image.
Rendered(k, spec) ==
  CASE k = "workload" ->
         <<IF spec.rollback = "" THEN spec.image ELSE spec.rollback, spec.runtime, spec.mode>>
    [] k = "network" -> <<spec.egress>>
    [] k = "ingress" -> <<spec.host>>
    [] k = "template" -> <<spec.image, spec.runtime>>
    [] k = "pool" -> <<spec.warm>>

MadeFrom(k, spec) ==
  \/ objects[k] = spec
  \/ {objects[k], spec} \subseteq Specs /\ Rendered(k, objects[k]) = Rendered(k, spec)

\* Nothing removes the objects of the sandbox.
Matches(k, spec) ==
  IF Needs(spec, k) THEN MadeFrom(k, spec) ELSE k \in Owned => objects[k] = NoSpec

\* An error of Reconcile puts the resource back into the operator's queue.
Enqueue(o) == queued' = [queued EXCEPT ![o] = TRUE]

\* Mutant: the Service and the NetworkPolicy are not watched.
MutantChanged(k) == lagging' = lagging \cup (Operators \X ({k} \cap (Owned \ {"network"})))

\* SetupWithManager: a change of an owned object is an event for every operator.
Changed(k) == lagging' = lagging \cup (Operators \X ({k} \cap Owned))

\* An object that stays as it was is no event.
Put(k, spec) ==
  IF MadeFrom(k, spec)
  THEN UNCHANGED <<objects, lagging>>
  ELSE objects' = [objects EXCEPT ![k] = spec] /\ Changed(k)

-----------------------------------------------------------------------------
(* The work queue and Reconcile.                                           *)

Fault == faults < MaxFaults /\ faults' = faults + 1

Kind(o) == Order[at[o]]
InReconcile(o) == at[o] > 0

\* The informer delivers the current version and the resource is queued.
Observe(o) ==
  /\ <<"seen", o>> \notin fresh
  /\ seen' = [seen EXCEPT ![o] = cr]
  /\ fresh' = fresh \cup {<<"seen", o>>}
  /\ Enqueue(o)
  /\ UNCHANGED <<cluster, at, dep, lagging, bounds>>

\* The same for an object; its owner is the resource.
ObserveObject(o, k) ==
  /\ <<o, k>> \in lagging
  /\ lagging' = lagging \ {<<o, k>>}
  /\ Enqueue(o)
  /\ UNCHANGED <<cluster, seen, at, dep, fresh, bounds>>

\* Reconcile begins with a Get, from the informer's copy; none is nothing to do.
StartReconcile(o) ==
  /\ ~InReconcile(o)
  /\ queued[o]
  /\ queued' = [queued EXCEPT ![o] = FALSE]
  /\ IF seen[o] = Absent
     THEN UNCHANGED <<at, dep, fresh>>
     ELSE /\ at' = [at EXCEPT ![o] = 1]
          /\ dep' = [dep EXCEPT ![o] = seen[o]]
          /\ fresh' = IF <<"seen", o>> \in fresh THEN fresh \cup {<<"dep", o>>}
                                                 ELSE fresh \ {<<"dep", o>>}
  /\ UNCHANGED <<cluster, seen, lagging, bounds>>

Leave(o) ==
  /\ at' = [at EXCEPT ![o] = 0]
  /\ dep' = [dep EXCEPT ![o] = Absent]

\* The objects of the sandbox come last, and only in mode_b.
NextPlace(o) ==
  IF Kind(o) = "ingress" /\ dep[o].spec.mode # "mode_b" THEN Len(Order) ELSE at[o] + 1

\* reconcileDeployment, reconcileService, reconcileNetworkPolicy, reconcileIngress or
\* deleteIngressIfExists, reconcileUnstructured.
WriteObject(o) ==
  /\ InReconcile(o)
  /\ Kind(o) \in Kinds
  /\ Kind(o) \in Sandbox => crds
  /\ <<o, Kind(o)>> \notin lagging
  /\ Put(Kind(o), IF Needs(dep[o].spec, Kind(o)) THEN dep[o].spec ELSE NoSpec)
  /\ drifted' = drifted \ {Kind(o)}
  /\ at' = [at EXCEPT ![o] = NextPlace(o)]
  /\ UNCHANGED <<cr, crds, seen, queued, dep, fresh, bounds>>

\* With a copy out of date a Create finds the object there and an Update conflicts or
\* finds it gone.
WriteConflicts(o) ==
  /\ InReconcile(o)
  /\ <<o, Kind(o)>> \in lagging
  /\ Leave(o)
  /\ Enqueue(o)
  /\ UNCHANGED <<cluster, seen, lagging, fresh, bounds>>

\* A Delete does not look at the version, but without a copy there is nothing to delete.
DeleteLagging(o) ==
  /\ InReconcile(o)
  /\ Kind(o) = "ingress"
  /\ ~Needs(dep[o].spec, "ingress")
  /\ <<o, "ingress">> \in lagging
  /\ at' = [at EXCEPT ![o] = NextPlace(o)]
  /\ Put("ingress", NoSpec) \/ UNCHANGED <<objects, lagging>>
  /\ UNCHANGED <<cr, crds, drifted, seen, queued, dep, fresh, bounds>>

\* Mutant: the generation after the one that was observed.
MutantSetStatus(status) ==
  /\ cr' = [cr EXCEPT !.status = [status EXCEPT !.generation = @ + 1]]
  /\ fresh' = {}

\* A new status is a new version of the resource.
SetStatus(status) ==
  IF cr.status = status THEN UNCHANGED <<cr, fresh>>
  ELSE /\ cr' = [cr EXCEPT !.status = status]
       /\ fresh' = {}

\* The status is written with the version Reconcile began with; a conflict, or a
\* resource that is gone, is an error, and the resource is queued again.
Current(o) == <<"dep", o>> \in fresh /\ cr # Absent

WriteStatus(o) ==
  /\ InReconcile(o)
  /\ Kind(o) = "status"
  /\ Leave(o)
  /\ IF Current(o)
     THEN /\ SetStatus([ready |-> TRUE, generation |-> dep[o].generation])
          /\ UNCHANGED queued
     ELSE Enqueue(o) /\ UNCHANGED <<cr, fresh>>
  /\ UNCHANGED <<objects, crds, drifted, seen, lagging, bounds>>

\* The sandbox resources are not known, or one is deleted between its Get and Update.
SandboxMissing(o) ==
  /\ InReconcile(o)
  /\ Kind(o) \in Sandbox
  /\ IF crds THEN Fault ELSE UNCHANGED faults

ReportMissing(o) ==
  IF Current(o)
  THEN SetStatus([ready |-> FALSE, generation |-> dep[o].generation])
  ELSE UNCHANGED <<cr, fresh>>

\* The status says so, whether it can be written is not looked at, and the resource is
\* queued again 15 seconds later.
CRDsMissing(o) ==
  /\ SandboxMissing(o)
  /\ ReportMissing(o)
  /\ Leave(o)
  /\ Enqueue(o)
  /\ UNCHANGED <<objects, crds, drifted, seen, lagging, changes>>

\* Mutant: the error is dropped.
MutantCallFails(o) ==
  /\ Fault
  /\ InReconcile(o)
  /\ Leave(o)
  /\ UNCHANGED <<cluster, seen, queued, lagging, fresh, changes>>

\* A call fails: Reconcile returns the error.
CallFails(o) ==
  /\ Fault
  /\ InReconcile(o)
  /\ Leave(o)
  /\ Enqueue(o)
  /\ UNCHANGED <<cluster, seen, lagging, fresh, changes>>

\* An operator restarts: its queue and its copies are gone.
RestartOperator(o) ==
  /\ Fault
  /\ Leave(o)
  /\ queued' = [queued EXCEPT ![o] = FALSE]
  /\ seen' = [seen EXCEPT ![o] = Absent]
  /\ fresh' = fresh \ {<<"seen", o>>, <<"dep", o>>}
  /\ lagging' = lagging \ ({o} \X Owned)
  /\ UNCHANGED <<cluster, changes>>

-----------------------------------------------------------------------------
(* The cluster around it.                                                  *)

\* The control plane writes or deletes the resource.
ChangeSpec ==
  /\ cr # Absent
  /\ changes < MaxChanges
  /\ changes' = changes + 1
  /\ \E spec \in Specs \ {cr.spec} :
       cr' = [cr EXCEPT !.spec = spec, !.generation = @ + 1]
  /\ fresh' = {}
  /\ UNCHANGED <<objects, crds, drifted, controller, lagging, faults>>

DeleteResource ==
  /\ cr # Absent
  /\ cr' = Absent
  /\ fresh' = {}
  /\ UNCHANGED <<objects, crds, drifted, controller, lagging, bounds>>

\* Kubernetes collects owned objects whose owner is gone.
CollectGarbage ==
  /\ cr = Absent
  /\ \E k \in Owned :
       /\ objects[k] # NoSpec
       /\ objects' = [objects EXCEPT ![k] = NoSpec]
       /\ Changed(k)
  /\ UNCHANGED <<cr, crds, drifted, controller, fresh, bounds>>

\* Someone else changes or deletes an object.
Drift ==
  /\ Fault
  /\ \E k \in Kinds, what \in {NoSpec, Foreign} :
       /\ objects[k] \in Specs
       /\ objects' = [objects EXCEPT ![k] = what]
       /\ drifted' = drifted \cup ({k} \cap Sandbox)
       /\ Changed(k)
  /\ UNCHANGED <<cr, crds, controller, fresh, changes>>

InstallCRDs ==
  /\ ~crds
  /\ crds' = TRUE
  /\ UNCHANGED <<cr, objects, drifted, controller, lagging, fresh, bounds>>

ReconcileStep(o) ==
  \/ StartReconcile(o) \/ WriteObject(o) \/ WriteConflicts(o) \/ DeleteLagging(o)
  \/ WriteStatus(o) \/ CRDsMissing(o)

Next ==
  \/ \E o \in Operators :
       \/ Observe(o) \/ (\E k \in Owned : ObserveObject(o, k))
       \/ ReconcileStep(o) \/ CallFails(o) \/ RestartOperator(o)
  \/ ChangeSpec \/ DeleteResource \/ CollectGarbage \/ Drift \/ InstallCRDs

\* The informer of each type delivers, the work queue is worked off, garbage is collected.
Fairness ==
  /\ \A o \in Operators :
       /\ WF_vars(Observe(o)) /\ WF_vars(ReconcileStep(o))
       /\ \A k \in Owned : WF_vars(ObserveObject(o, k))
  /\ WF_vars(CollectGarbage)

Spec == Init /\ [][Next]_vars /\ Fairness

-----------------------------------------------------------------------------
(* Properties.                                                             *)

Idle ==
  /\ lagging = {}
  /\ \A o \in Operators : ~InReconcile(o) /\ ~queued[o] /\ <<"seen", o>> \in fresh

\* What the resource asks of an object.  What others did to the objects of the sandbox
\* nobody notices.
Done(k) == k \in drifted \/ Matches(k, cr.spec)

ReadyForThis == cr.status = [ready |-> TRUE, generation |-> cr.generation]

\* Nothing is forgotten: when no operator is going to look at the resource again, its
\* status says ready for the current generation and every object is as it should be,
\* whatever copies were out of date, operators overlapped, calls failed or conflicted
\* and processes restarted on the way.
IdleMeansReconciled ==
  Idle /\ cr # Absent => ReadyForThis /\ \A k \in Kinds : Done(k)

\* Once changes and failures have ended, the cluster comes to match the resource and
\* the status says so; missing CRDs hold up mode_b only as long as they are missing.
\* After a deletion the owned objects are gone.
Settled ==
  IF cr = Absent THEN \A k \in Owned : objects[k] = NoSpec
  ELSE IF cr.spec.mode = "mode_b" /\ ~crds
  THEN cr.status = [ready |-> FALSE, generation |-> cr.generation]
  ELSE ReadyForThis /\ \A k \in Kinds : Done(k)

Converges == <>[]Settled
=============================================================================
