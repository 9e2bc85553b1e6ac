--------------------------- MODULE OperatorProofs ---------------------------
(***************************************************************************)
(* Proofs about Operator, for any number of operators side by side, any    *)
(* specifications, and any number of changes and faults.                   *)
(***************************************************************************)
EXTENDS Operator, TLAPS

-----------------------------------------------------------------------------
(* Types.                                                                  *)

LEMMA OrderFacts ==
  /\ Len(Order) = 6
  /\ Kinds = {"workload", "network", "ingress", "template", "pool"}
  /\ Owned = {"workload", "network", "ingress"}
  /\ Order[1] = "workload" /\ Order[2] = "network" /\ Order[3] = "ingress"
  /\ Order[4] = "template" /\ Order[5] = "pool" /\ Order[6] = "status"
<1>1. Len(Order) = 6
  BY DEF Order
<1>2. /\ Order[1] = "workload" /\ Order[2] = "network" /\ Order[3] = "ingress"
      /\ Order[4] = "template" /\ Order[5] = "pool" /\ Order[6] = "status"
  BY DEF Order
<1>3. Kinds = {"workload", "network", "ingress", "template", "pool"}
  <2>1. Kinds = {Order[i] : i \in 1..5}
    BY <1>1 DEF Kinds
  <2>2. 1..5 = {1, 2, 3, 4, 5}
    OBVIOUS
  <2> QED
    BY <2>1, <2>2, <1>2
<1>4. Owned = {"workload", "network", "ingress"}
  BY <1>3 DEF Owned, Sandbox
<1> QED
  BY <1>1, <1>2, <1>3, <1>4

\* The generation counts the specifications; Reconcile works with a copy.
TypeInv ==
  /\ TypeOK
  /\ cr # Absent => cr.generation = changes + 1
  /\ \A o \in Operators : InReconcile(o) => dep[o] # Absent

\* The fields of a resource that is there.
LEMMA ResourceTyped ==
  ASSUME NEW r \in Resources, r # Absent
  PROVE  /\ r.spec \in Specs
         /\ r.generation \in 1..MaxChanges + 1
         /\ r.status \in Statuses
         /\ r = [spec |-> r.spec, generation |-> r.generation, status |-> r.status]
BY DEF Resources

\* Setting the status keeps the type of the resource, and its generation.
LEMMA StatusTyped ==
  ASSUME TypeInv, NEW o \in Operators, InReconcile(o), Current(o), NEW b \in BOOLEAN,
         SetStatus([ready |-> b, generation |-> dep[o].generation])
  PROVE  /\ cr' \in Resources
         /\ cr' # Absent /\ cr'.generation = cr.generation
         /\ fresh' \subseteq Copies
<1> DEFINE status == [ready |-> b, generation |-> dep[o].generation]
<1>1. dep[o] \in Resources /\ dep[o] # Absent /\ cr \in Resources /\ cr # Absent
  BY DEF TypeInv, TypeOK, Current
<1>2. dep[o].generation \in 1..MaxChanges + 1
  BY <1>1, ResourceTyped
<1>3. status \in Statuses
  BY <1>2, OperatorAssumption DEF Statuses
<1>4. cr' = cr \/ cr' = [cr EXCEPT !.status = status]
  BY DEF SetStatus
<1>5. cr = [spec |-> cr.spec, generation |-> cr.generation, status |-> cr.status]
      /\ cr.spec \in Specs /\ cr.generation \in 1..MaxChanges + 1
  BY <1>1, ResourceTyped
<1>6. ASSUME cr' = [cr EXCEPT !.status = status]
      PROVE  cr' \in Resources /\ cr' # Absent /\ cr'.generation = cr.generation
  <2>1. cr' = [spec |-> cr.spec, generation |-> cr.generation, status |-> status]
    BY <1>5, <1>6
  <2>2. cr'.generation = cr.generation /\ cr.generation # 0
    BY <2>1, <1>5
  <2> QED
    BY <2>1, <2>2, <1>3, <1>5 DEF Resources, Absent
<1>7. fresh' \subseteq Copies
  BY DEF SetStatus, TypeInv, TypeOK
<1> QED
  BY <1>1, <1>4, <1>6, <1>7

\* Putting an object keeps the types of the cluster.
LEMMA ObjectsTyped ==
  ASSUME TypeInv, NEW k \in Kinds, NEW spec \in Specs \cup {NoSpec}, Put(k, spec)
  PROVE  /\ objects' \in [Kinds -> Specs \cup {NoSpec, Foreign}]
         /\ lagging' \subseteq Operators \X Owned
<1>1. CASE MadeFrom(k, spec)
  BY <1>1 DEF Put, TypeInv, TypeOK
<1>2. CASE ~MadeFrom(k, spec)
  <2>1. /\ objects' = [objects EXCEPT ![k] = spec]
        /\ lagging' = lagging \cup (Operators \X ({k} \cap Owned))
    BY <1>2 DEF Put, Changed
  <2>2. /\ objects \in [Kinds -> Specs \cup {NoSpec, Foreign}]
        /\ lagging \subseteq Operators \X Owned
    BY DEF TypeInv, TypeOK
  <2>3. Operators \X ({k} \cap Owned) \subseteq Operators \X Owned
    OBVIOUS
  <2> QED
    BY <2>1, <2>2, <2>3
<1> QED
  BY <1>1, <1>2

\* Leaving the reconcile keeps the types of the controllers.
LEMMA LeaveTyped ==
  ASSUME TypeInv, NEW o \in Operators, Leave(o)
  PROVE  /\ at' \in [Operators -> 0..Len(Order)]
         /\ dep' \in [Operators -> Resources]
         /\ \A p \in Operators : at'[p] > 0 => dep'[p] # Absent
BY OrderFacts DEF TypeInv, TypeOK, Leave, Resources, InReconcile

\* The next place is a later one of the order.
LEMMA NextPlaceTyped ==
  ASSUME TypeInv, NEW o \in Operators, InReconcile(o), at[o] < 6,
         at' = [at EXCEPT ![o] = NextPlace(o)]
  PROVE  /\ at' \in [Operators -> 0..Len(Order)]
         /\ at'[o] > at[o]
BY OrderFacts DEF TypeInv, TypeOK, NextPlace, InReconcile

\* The types hold at first, when no object is there yet.
THEOREM TypeStart == Init => TypeInv
<1> SUFFICES ASSUME Init PROVE TypeInv
  OBVIOUS
<1>1. cr \in Resources /\ cr # Absent /\ cr.generation = 1
  <2>1. PICK spec \in Specs : cr = [spec |-> spec, generation |-> 1, status |-> Unready]
    BY DEF Init
  <2>2. Unready \in Statuses
    BY OperatorAssumption DEF Unready, Statuses
  <2>3. cr.generation = 1 /\ Absent.generation = 0
    BY <2>1 DEF Absent
  <2> QED
    BY <2>1, <2>2, <2>3, OperatorAssumption DEF Resources
<1>2. Absent \in Resources
  BY DEF Resources
<1> QED
  BY <1>1, <1>2, OrderFacts, OperatorAssumption DEF Init, TypeInv, TypeOK, InReconcile

\* Every step keeps the types.
LEMMA TypeStep == TypeInv /\ [Next]_vars => TypeInv'
<1> SUFFICES ASSUME TypeInv, [Next]_vars PROVE TypeInv'
  OBVIOUS
<1> USE OperatorAssumption, OrderFacts
<1>1. CASE UNCHANGED vars
  BY <1>1 DEF vars, cluster, controller, bounds, TypeInv, TypeOK, InReconcile
<1>2. ASSUME NEW o \in Operators, Observe(o) PROVE TypeInv'
  BY <1>2 DEF Observe, Enqueue, cluster, bounds, Copies, TypeInv, TypeOK, InReconcile
<1>3. ASSUME NEW o \in Operators, NEW k \in Owned, ObserveObject(o, k) PROVE TypeInv'
  BY <1>3 DEF ObserveObject, Enqueue, cluster, bounds, TypeInv, TypeOK, InReconcile
<1>4. ASSUME NEW o \in Operators, StartReconcile(o) PROVE TypeInv'
  BY <1>4 DEF StartReconcile, cluster, bounds, Copies, TypeInv, TypeOK, InReconcile
<1>5. ASSUME NEW o \in Operators, WriteObject(o) PROVE TypeInv'
  <2>1. Kind(o) \in Kinds /\ at[o] \in 0..6 /\ at[o] # 0
    BY <1>5 DEF WriteObject, InReconcile, TypeInv, TypeOK
  <2>2. at[o] < 6
    BY <2>1 DEF Kind
  <2>3. dep[o] \in Resources /\ dep[o] # Absent /\ InReconcile(o)
    BY <1>5 DEF WriteObject, TypeInv, TypeOK
  <2>4. dep[o].spec \in Specs
    BY <2>3, ResourceTyped
  <2>5. /\ objects' \in [Kinds -> Specs \cup {NoSpec, Foreign}]
        /\ lagging' \subseteq Operators \X Owned
    <3>1. Put(Kind(o), IF Needs(dep[o].spec, Kind(o)) THEN dep[o].spec ELSE NoSpec)
      BY <1>5 DEF WriteObject
    <3> QED
      BY <3>1, <2>1, <2>4, ObjectsTyped, Zenon
  <2>6. at' = [at EXCEPT ![o] = NextPlace(o)]
    BY <1>5 DEF WriteObject
  <2>7. at' \in [Operators -> 0..Len(Order)]
    BY <2>2, <2>3, <2>6, NextPlaceTyped
  <2>8. \A p \in Operators : at'[p] > 0 => at[p] > 0
    BY <2>3, <2>6 DEF InReconcile, TypeInv, TypeOK
  <2> QED
    BY <1>5, <2>5, <2>7, <2>8 DEF WriteObject, bounds, TypeInv, TypeOK, InReconcile
<1>6. ASSUME NEW o \in Operators, WriteConflicts(o) PROVE TypeInv'
  BY <1>6, LeaveTyped DEF WriteConflicts, Enqueue, cluster, bounds, TypeInv, TypeOK, InReconcile
<1>7. ASSUME NEW o \in Operators, DeleteLagging(o) PROVE TypeInv'
  <2>1. at[o] \in 0..6 /\ at[o] # 0 /\ InReconcile(o)
    BY <1>7 DEF DeleteLagging, InReconcile, TypeInv, TypeOK
  <2>2. at[o] < 6
    BY <1>7, <2>1 DEF DeleteLagging, Kind
  <2>3. /\ objects' \in [Kinds -> Specs \cup {NoSpec, Foreign}]
        /\ lagging' \subseteq Operators \X Owned
    <3>1. CASE Put("ingress", NoSpec)
      BY <3>1, ObjectsTyped
    <3>2. CASE UNCHANGED <<objects, lagging>>
      BY <3>2 DEF TypeInv, TypeOK
    <3> QED
      BY <1>7, <3>1, <3>2 DEF DeleteLagging
  <2>4. at' = [at EXCEPT ![o] = NextPlace(o)]
    BY <1>7 DEF DeleteLagging
  <2>5. at' \in [Operators -> 0..Len(Order)]
    BY <2>1, <2>2, <2>4, NextPlaceTyped
  <2>6. \A p \in Operators : at'[p] > 0 => at[p] > 0
    BY <2>1, <2>4 DEF InReconcile, TypeInv, TypeOK
  <2> QED
    BY <1>7, <2>3, <2>5, <2>6 DEF DeleteLagging, bounds, TypeInv, TypeOK, InReconcile
<1>8. ASSUME NEW o \in Operators, WriteStatus(o) PROVE TypeInv'
  <2>1. cr' \in Resources /\ (cr' # Absent => cr'.generation = changes + 1) /\ fresh' \subseteq Copies
    <3>1. CASE Current(o)
      <4>1. SetStatus([ready |-> TRUE, generation |-> dep[o].generation]) /\ cr # Absent
        BY <1>8, <3>1 DEF WriteStatus, Current
      <4> QED
        BY <1>8, <3>1, <4>1, StatusTyped DEF WriteStatus, TypeInv
    <3>2. CASE ~Current(o)
      BY <1>8, <3>2 DEF WriteStatus, TypeInv, TypeOK
    <3> QED
      BY <3>1, <3>2
  <2>2. queued' \in [Operators -> BOOLEAN]
    BY <1>8 DEF WriteStatus, Enqueue, TypeInv, TypeOK
  <2> QED
    BY <1>8, <2>1, <2>2, LeaveTyped DEF WriteStatus, bounds, TypeInv, TypeOK, InReconcile
<1>9. ASSUME NEW o \in Operators, CRDsMissing(o) PROVE TypeInv'
  <2>1. cr' \in Resources /\ (cr' # Absent => cr'.generation = changes + 1) /\ fresh' \subseteq Copies
    <3>1. CASE Current(o)
      <4>1. SetStatus([ready |-> FALSE, generation |-> dep[o].generation]) /\ cr # Absent
        BY <1>9, <3>1 DEF CRDsMissing, ReportMissing, Current
      <4> QED
        BY <1>9, <3>1, <4>1, StatusTyped DEF CRDsMissing, SandboxMissing, TypeInv
    <3>2. CASE ~Current(o)
      BY <1>9, <3>2 DEF CRDsMissing, ReportMissing, TypeInv, TypeOK
    <3> QED
      BY <3>1, <3>2
  <2>2. queued' \in [Operators -> BOOLEAN]
    BY <1>9 DEF CRDsMissing, Enqueue, TypeInv, TypeOK
  <2>3. faults' \in 0..MaxFaults
    BY <1>9 DEF CRDsMissing, SandboxMissing, Fault, TypeInv, TypeOK
  <2> QED
    BY <1>9, <2>1, <2>2, <2>3, LeaveTyped DEF CRDsMissing, TypeInv, TypeOK, InReconcile
<1>10. ASSUME NEW o \in Operators, CallFails(o) PROVE TypeInv'
  BY <1>10, LeaveTyped DEF CallFails, Fault, Enqueue, cluster, TypeInv, TypeOK, InReconcile
<1>11. ASSUME NEW o \in Operators, RestartOperator(o) PROVE TypeInv'
  <2>1. Absent \in Resources
    BY DEF Resources
  <2> QED
    BY <1>11, <2>1, LeaveTyped DEF RestartOperator, Fault, cluster, TypeInv, TypeOK, InReconcile
<1>12. CASE ChangeSpec
  <2>1. PICK spec \in Specs : cr' = [cr EXCEPT !.spec = spec, !.generation = @ + 1]
    BY <1>12 DEF ChangeSpec
  <2>2. /\ cr = [spec |-> cr.spec, generation |-> cr.generation, status |-> cr.status]
        /\ cr.status \in Statuses
        /\ cr.generation = changes + 1
    BY <1>12, ResourceTyped DEF ChangeSpec, TypeInv, TypeOK
  <2>3. cr' = [spec |-> spec, generation |-> cr.generation + 1, status |-> cr.status]
    BY <2>1, <2>2 DEF TypeInv, TypeOK
  <2>4. changes < MaxChanges /\ changes' = changes + 1 /\ changes \in Nat
    BY <1>12 DEF ChangeSpec, TypeInv, TypeOK
  <2>5. cr.generation + 1 \in 1..MaxChanges + 1 /\ cr.generation + 1 = changes' + 1
    BY <2>2, <2>4
  <2>6. cr' \in Resources /\ cr'.generation = changes' + 1
    BY <2>2, <2>3, <2>5 DEF Resources
  <2> QED
    BY <1>12, <2>4, <2>6 DEF ChangeSpec, controller, TypeInv, TypeOK, InReconcile
<1>13. CASE DeleteResource
  <2>1. Absent \in Resources
    BY DEF Resources
  <2> QED
    BY <1>13, <2>1 DEF DeleteResource, controller, bounds, TypeInv, TypeOK, InReconcile
<1>14. CASE CollectGarbage
  BY <1>14 DEF CollectGarbage, Changed, controller, bounds, TypeInv, TypeOK, InReconcile
<1>15. CASE Drift
  BY <1>15 DEF Drift, Fault, Changed, controller, TypeInv, TypeOK, InReconcile, Sandbox
<1>16. CASE InstallCRDs
  BY <1>16 DEF InstallCRDs, controller, bounds, TypeInv, TypeOK, InReconcile
<1> QED
  BY <1>1, <1>2, <1>3, <1>4, <1>5, <1>6, <1>7, <1>8, <1>9, <1>10, <1>11, <1>12, <1>13,
     <1>14, <1>15, <1>16 DEF Next, ReconcileStep

\* Every variable of the operator has its type: generations do not pass the bound,
\* copies are copies of a resource there was.
THEOREM TypeCorrect == Spec => []TypeOK
<1>1. TypeInv => TypeOK
  BY DEF TypeInv
<1> QED
  BY <1>1, TypeStart, TypeStep, PTL DEF Spec

-----------------------------------------------------------------------------
(* The inductive invariants.                                               *)

\* What is marked current is current.
CopyInv ==
  \A o \in Operators :
    /\ <<"seen", o>> \in fresh => seen[o] = cr
    /\ <<"dep", o>> \in fresh /\ InReconcile(o) => dep[o] = cr

\* An operator is going to write what is at place i of Order: it is still to be told of
\* something, its queue holds the resource, or it is in Reconcile and either not yet
\* past the place or bound to fail at the status.
WillReach(o, i) ==
  \/ <<"seen", o>> \notin fresh
  \/ queued[o]
  \/ \E k \in Owned : <<o, k>> \in lagging
  \/ InReconcile(o) /\ (<<"dep", o>> \notin fresh \/ at[o] <= i)

DoneAt(i) == IF i = 6 THEN ReadyForThis ELSE Done(Order[i])

WorkInv ==
  cr # Absent => \A i \in 1..6 : DoneAt(i) \/ \E o \in Operators : WillReach(o, i)

IInv == CopyInv /\ WorkInv

\* Every step keeps copies that are fresh equal to the resource.
LEMMA CopyStep == TypeInv /\ CopyInv /\ [Next]_vars => CopyInv'
<1> SUFFICES ASSUME TypeInv, CopyInv, [Next]_vars PROVE CopyInv'
  OBVIOUS
<1>1. ASSUME fresh' = {} PROVE CopyInv'
  BY <1>1 DEF CopyInv
<1>2. ASSUME UNCHANGED <<cr, seen, fresh>>,
             \A o \in Operators : InReconcile(o)' => InReconcile(o) /\ dep'[o] = dep[o]
      PROVE  CopyInv'
  BY <1>2 DEF CopyInv
<1>3. ASSUME NEW o \in Operators, Leave(o), UNCHANGED <<cr, seen, fresh>> PROVE CopyInv'
  <2>1. \A p \in Operators : InReconcile(p)' => InReconcile(p) /\ dep'[p] = dep[p]
    BY <1>3 DEF Leave, InReconcile, TypeInv, TypeOK
  <2> QED
    BY <1>2, <1>3, <2>1
<1>4. CASE UNCHANGED vars
  BY <1>2, <1>4 DEF vars, cluster, controller, InReconcile
<1>5. ASSUME NEW o \in Operators, Observe(o) PROVE CopyInv'
  BY <1>5 DEF CopyInv, Observe, cluster, InReconcile, TypeInv, TypeOK
<1>6. ASSUME NEW o \in Operators, NEW k \in Owned, ObserveObject(o, k) PROVE CopyInv'
  BY <1>2, <1>6 DEF ObserveObject, cluster, InReconcile
<1>7. ASSUME NEW o \in Operators, StartReconcile(o) PROVE CopyInv'
  <2>1. cr' = cr /\ seen' = seen
    BY <1>7 DEF StartReconcile, cluster
  <2>2. CASE seen[o] = Absent
    BY <1>2, <1>7, <2>1, <2>2 DEF StartReconcile, InReconcile
  <2>3. CASE seen[o] # Absent
    <3>1. /\ at' = [at EXCEPT ![o] = 1]
          /\ dep' = [dep EXCEPT ![o] = seen[o]]
          /\ fresh' = IF <<"seen", o>> \in fresh THEN fresh \cup {<<"dep", o>>}
                                                 ELSE fresh \ {<<"dep", o>>}
      BY <1>7, <2>3 DEF StartReconcile
    <3>2. \A p \in Operators : <<"seen", p>> \in fresh' => <<"seen", p>> \in fresh
      BY <3>1
    <3>3. \A p \in Operators \ {o} : <<"dep", p>> \in fresh' => <<"dep", p>> \in fresh
      BY <3>1
    <3>4. <<"dep", o>> \in fresh' => <<"seen", o>> \in fresh
      BY <3>1
    <3>5. dep'[o] = seen[o]
      BY <3>1 DEF TypeInv, TypeOK
    <3>6. \A p \in Operators \ {o} : dep'[p] = dep[p] /\ at'[p] = at[p]
      BY <3>1 DEF TypeInv, TypeOK
    <3> QED
      BY <2>1, <3>2, <3>3, <3>4, <3>5, <3>6 DEF CopyInv, InReconcile
  <2> QED
    BY <2>2, <2>3
<1>8. ASSUME NEW o \in Operators, WriteObject(o) \/ DeleteLagging(o) PROVE CopyInv'
  <2>1. \A p \in Operators : InReconcile(p)' => InReconcile(p)
    BY <1>8 DEF WriteObject, DeleteLagging, InReconcile, TypeInv, TypeOK
  <2> QED
    BY <1>2, <1>8, <2>1 DEF WriteObject, DeleteLagging
<1>9. ASSUME NEW o \in Operators, WriteConflicts(o) \/ CallFails(o) PROVE CopyInv'
  BY <1>3, <1>9 DEF WriteConflicts, CallFails, cluster
<1>10. ASSUME NEW o \in Operators, WriteStatus(o) PROVE CopyInv'
  <2>1. (cr' = cr /\ fresh' = fresh) \/ fresh' = {}
    BY <1>10 DEF WriteStatus, SetStatus
  <2> QED
    BY <1>1, <1>3, <1>10, <2>1 DEF WriteStatus
<1>11. ASSUME NEW o \in Operators, CRDsMissing(o) PROVE CopyInv'
  <2>1. (cr' = cr /\ fresh' = fresh) \/ fresh' = {}
    BY <1>11 DEF CRDsMissing, ReportMissing, SetStatus
  <2> QED
    BY <1>1, <1>3, <1>11, <2>1 DEF CRDsMissing
<1>12. ASSUME NEW o \in Operators, RestartOperator(o) PROVE CopyInv'
  <2>1. \A p \in Operators : InReconcile(p)' => InReconcile(p) /\ dep'[p] = dep[p]
    BY <1>12 DEF RestartOperator, Leave, InReconcile, TypeInv, TypeOK
  <2>2. \A p \in Operators : <<"seen", p>> \in fresh' => <<"seen", p>> \in fresh /\ p # o
    BY <1>12 DEF RestartOperator
  <2>3. \A p \in Operators : p # o => seen'[p] = seen[p]
    BY <1>12 DEF RestartOperator, TypeInv, TypeOK
  <2> QED
    BY <1>12, <2>1, <2>2, <2>3 DEF CopyInv, RestartOperator, cluster
<1>13. CASE ChangeSpec \/ DeleteResource
  BY <1>1, <1>13 DEF ChangeSpec, DeleteResource
<1>14. CASE CollectGarbage \/ Drift \/ InstallCRDs
  BY <1>2, <1>14 DEF CollectGarbage, Drift, InstallCRDs, controller, InReconcile
<1> QED
  BY <1>4, <1>5, <1>6, <1>7, <1>8, <1>9, <1>10, <1>11, <1>12, <1>13, <1>14
  DEF Next, ReconcileStep

-----------------------------------------------------------------------------
(* The work that is left.                                                  *)

\* What an operator is going to do it is still going to do, if it is not the one that
\* moves.
LEMMA OthersWait ==
  ASSUME NEW p \in Operators, NEW i \in 1..6, WillReach(p, i),
         at'[p] = at[p], queued'[p] = queued[p],
         lagging \subseteq lagging',
         <<"seen", p>> \in fresh' => <<"seen", p>> \in fresh,
         <<"dep", p>> \in fresh' => <<"dep", p>> \in fresh
  PROVE  WillReach(p, i)'
BY DEF WillReach, InReconcile

\* Nobody has the version that was just written.
LEMMA EverybodyLooks ==
  ASSUME fresh' = {}, NEW i \in 1..6
  PROVE  \E o \in Operators : WillReach(o, i)'
BY OperatorAssumption DEF WillReach

\* What was put is as the specification wants it.
LEMMA PutMatches ==
  ASSUME TypeInv, NEW k \in Kinds, NEW spec,
         Put(k, IF Needs(spec, k) THEN spec ELSE NoSpec)
  PROVE  Matches(k, spec)'
<1> DEFINE new == IF Needs(spec, k) THEN spec ELSE NoSpec
<1>1. (MadeFrom(k, new) /\ objects' = objects) \/ objects'[k] = new
  BY DEF Put, TypeInv, TypeOK
<1>2. CASE Needs(spec, k)
  BY <1>1, <1>2 DEF MadeFrom, Matches
<1>3. CASE ~Needs(spec, k)
  <2>1. objects'[k] = NoSpec
    BY <1>1, <1>3, OperatorAssumption DEF MadeFrom
  <2> QED
    BY <1>3, <2>1 DEF Matches
<1> QED
  BY <1>2, <1>3

\* Writing an object leaves every kind done or still to be reached.
LEMMA WriteObjectWork ==
  ASSUME TypeInv, IInv, NEW o \in Operators, WriteObject(o), cr # Absent, NEW i \in 1..6
  PROVE  DoneAt(i)' \/ \E p \in Operators : WillReach(p, i)'
<1>1. at[o] \in 1..5 /\ Kind(o) = Order[at[o]] /\ Kind(o) \in Kinds
  <2>1. at[o] \in 1..6
    BY OrderFacts DEF WriteObject, InReconcile, TypeInv, TypeOK
  <2> QED
    BY <2>1, OrderFacts DEF WriteObject, Kind
<1>2. /\ cr' = cr /\ fresh' = fresh /\ queued' = queued
      /\ at' = [at EXCEPT ![o] = NextPlace(o)]
      /\ drifted' = drifted \ {Kind(o)}
      /\ Put(Kind(o), IF Needs(dep[o].spec, Kind(o)) THEN dep[o].spec ELSE NoSpec)
  BY DEF WriteObject
<1>3. lagging \subseteq lagging'
  BY <1>2 DEF Put, Changed
<1>4. at'[o] = NextPlace(o) /\ at'[o] > 0
  BY <1>1, <1>2, OrderFacts DEF NextPlace, TypeInv, TypeOK
<1>5. CASE <<"dep", o>> \notin fresh
  BY <1>2, <1>4, <1>5 DEF WillReach, InReconcile
<1>6. CASE <<"dep", o>> \in fresh /\ i = at[o]
  <2>1. dep[o] = cr
    BY <1>6 DEF IInv, CopyInv, WriteObject
  <2>2. PICK k, spec : k \in Kinds /\ k = Kind(o) /\ spec = cr.spec
    BY <1>1
  <2>3. Put(k, IF Needs(spec, k) THEN spec ELSE NoSpec)
    BY <1>2, <2>1, <2>2
  <2>4. Matches(k, spec)'
    BY <2>2, <2>3, PutMatches
  <2>5. k = Order[i] /\ spec = cr'.spec /\ i # 6
    BY <1>1, <1>2, <1>6, <2>2
  <2> QED
    BY <2>4, <2>5 DEF DoneAt, Done
<1>7. CASE <<"dep", o>> \in fresh /\ i # at[o]
  <2>1. dep[o] = cr
    BY <1>7 DEF IInv, CopyInv, WriteObject
  <2>2. ASSUME DoneAt(i) PROVE DoneAt(i)'
    <3>1. CASE i = 6
      BY <1>2, <2>2, <3>1 DEF DoneAt, ReadyForThis
    <3>2. CASE i # 6
      <4>1. PICK k : k = Order[i]
        OBVIOUS
      <4>2. k \in Kinds /\ k # Kind(o)
        BY <1>1, <1>7, <3>2, <4>1, OrderFacts
      <4>3. objects'[k] = objects[k]
        BY <1>1, <1>2, <4>2 DEF Put, TypeInv, TypeOK
      <4>4. Done(k)
        BY <2>2, <3>2, <4>1 DEF DoneAt
      <4>5. Done(k)'
        BY <1>2, <4>2, <4>3, <4>4 DEF Done, Matches, MadeFrom
      <4> QED
        BY <3>2, <4>1, <4>5 DEF DoneAt
    <3> QED
      BY <3>1, <3>2
  <2>3. ASSUME NEW p \in Operators, p # o, WillReach(p, i) PROVE WillReach(p, i)'
    BY <1>2, <1>3, <2>3, OthersWait DEF TypeInv, TypeOK
  <2>4. ASSUME WillReach(o, i) PROVE DoneAt(i)' \/ WillReach(o, i)'
    <3>1. CASE at[o] < i
      <4>1. CASE at'[o] <= i
        BY <1>4, <4>1 DEF WillReach, InReconcile
      <4>2. CASE at'[o] > i
        <5>1. Kind(o) = "ingress" /\ cr.spec.mode # "mode_b"
          BY <1>1, <1>4, <2>1, <3>1, <4>2 DEF NextPlace
        <5>2. i \in {4, 5}
          <6>1. at[o] = 3
            <7>1. Order[at[o]] = "ingress" /\ at[o] \in {1, 2, 3, 4, 5}
              BY <1>1, <5>1
            <7> QED
              BY <7>1, OrderFacts
          <6>2. at'[o] = 6
            BY <1>4, <2>1, <5>1, OrderFacts DEF NextPlace
          <6> QED
            BY <3>1, <4>2, <6>1, <6>2
        <5>3. Order[i] \in Sandbox /\ Order[i] \notin Owned
          BY <5>2, OrderFacts DEF Sandbox
        <5>4. ~Needs(cr.spec, Order[i])
          BY <5>1, <5>3 DEF Needs
        <5> QED
          BY <1>2, <5>2, <5>3, <5>4 DEF DoneAt, Done, Matches
      <4> QED
        BY <1>1, <1>4, <4>1, <4>2, OrderFacts DEF NextPlace
    <3>2. CASE ~(at[o] < i)
      <4>1. \/ <<"seen", o>> \notin fresh
            \/ queued[o]
            \/ \E k \in Owned : <<o, k>> \in lagging
        BY <1>1, <1>7, <2>4, <3>2 DEF WillReach
      <4> QED
        BY <1>2, <1>3, <4>1 DEF WillReach
    <3> QED
      BY <3>1, <3>2
  <2> QED
    BY <2>2, <2>3, <2>4 DEF IInv, WorkInv
<1> QED
  BY <1>5, <1>6, <1>7

\* So does writing the status.
LEMMA WriteStatusWork ==
  ASSUME TypeInv, IInv, NEW o \in Operators, WriteStatus(o), cr' # Absent, NEW i \in 1..6
  PROVE  DoneAt(i)' \/ \E p \in Operators : WillReach(p, i)'
<1>1. at[o] = 6
  <2>1. at[o] \in 1..6
    BY OrderFacts DEF WriteStatus, InReconcile, TypeInv, TypeOK
  <2> QED
    BY <2>1, OrderFacts DEF WriteStatus, Kind
<1>2. CASE ~Current(o)
  BY <1>2 DEF WriteStatus, Enqueue, WillReach, TypeInv, TypeOK
<1>3. CASE fresh' = {}
  BY <1>3, EverybodyLooks
<1>4. CASE Current(o) /\ fresh' # {}
  <2>1. /\ cr' = cr /\ fresh' = fresh /\ queued' = queued
        /\ cr.status = [ready |-> TRUE, generation |-> dep[o].generation]
    BY <1>4 DEF WriteStatus, SetStatus
  <2>2. dep[o] = cr /\ <<"dep", o>> \in fresh
    BY <1>4 DEF IInv, CopyInv, WriteStatus, Current
  <2>3. CASE i = 6
    BY <2>1, <2>2, <2>3 DEF DoneAt, ReadyForThis
  <2>4. CASE i # 6
    <3>1. ASSUME DoneAt(i) PROVE DoneAt(i)'
      BY <2>1, <2>4, <3>1 DEF WriteStatus, DoneAt, Done, Matches, MadeFrom
    <3>2. ASSUME NEW p \in Operators, p # o, WillReach(p, i) PROVE WillReach(p, i)'
      <4>1. at'[p] = at[p] /\ lagging' = lagging
        BY <3>2 DEF WriteStatus, Leave, TypeInv, TypeOK
      <4> QED
        BY <2>1, <3>2, <4>1, OthersWait
    <3>3. ASSUME WillReach(o, i) PROVE WillReach(o, i)'
      BY <1>1, <2>1, <2>2, <2>4, <3>3 DEF WillReach, WriteStatus
    <3> QED
      BY <2>1, <3>1, <3>2, <3>3 DEF IInv, WorkInv
  <2> QED
    BY <2>3, <2>4
<1> QED
  BY <1>2, <1>3, <1>4

\* So does starting a reconcile.
LEMMA StartWork ==
  ASSUME TypeInv, IInv, NEW o \in Operators, StartReconcile(o), cr # Absent, NEW i \in 1..6
  PROVE  DoneAt(i)' \/ \E p \in Operators : WillReach(p, i)'
<1>1. /\ UNCHANGED <<cr, objects, drifted, seen, lagging>>
      /\ \A p \in Operators : <<"seen", p>> \in fresh' => <<"seen", p>> \in fresh
  BY DEF StartReconcile, cluster
<1>2. ASSUME DoneAt(i) PROVE DoneAt(i)'
  BY <1>1, <1>2 DEF DoneAt, ReadyForThis, Done, Matches, MadeFrom
<1>3. ASSUME NEW p \in Operators, p # o, WillReach(p, i) PROVE WillReach(p, i)'
  <2>1. at'[p] = at[p] /\ queued'[p] = queued[p]
    BY <1>3 DEF StartReconcile, TypeInv, TypeOK
  <2>2. <<"dep", p>> \in fresh' => <<"dep", p>> \in fresh
    BY <1>3 DEF StartReconcile
  <2> QED
    BY <1>1, <1>3, <2>1, <2>2, OthersWait
<1>4. WillReach(o, i)'
  <2>1. CASE <<"seen", o>> \notin fresh
    BY <1>1, <2>1 DEF WillReach
  <2>2. CASE <<"seen", o>> \in fresh
    <3>1. seen[o] # Absent
      BY <2>2 DEF IInv, CopyInv
    <3>2. at'[o] = 1
      BY <3>1 DEF StartReconcile, TypeInv, TypeOK
    <3> QED
      BY <3>2 DEF WillReach, InReconcile
  <2> QED
    BY <2>1, <2>2
<1> QED
  BY <1>4

\* Whatever happens, what differs from the resource is going to be looked at.
LEMMA WorkStep == TypeInv /\ IInv /\ [Next]_vars => WorkInv'
<1> SUFFICES ASSUME TypeInv, IInv, [Next]_vars, cr' # Absent, NEW i \in 1..6
             PROVE  DoneAt(i)' \/ \E p \in Operators : WillReach(p, i)'
  BY DEF WorkInv
<1> DEFINE Goal == DoneAt(i)' \/ \E p \in Operators : WillReach(p, i)'
<1>1. ASSUME NEW o \in Operators, Enqueue(o) PROVE Goal
  BY <1>1 DEF Enqueue, WillReach, TypeInv, TypeOK
<1>2. ASSUME fresh' = {} PROVE Goal
  BY <1>2, EverybodyLooks
<1>3. ASSUME cr # Absent, DoneAt(i) => Goal,
             UNCHANGED <<at, queued, fresh>>, lagging \subseteq lagging'
      PROVE  Goal
  <2>1. ASSUME NEW p \in Operators, WillReach(p, i) PROVE WillReach(p, i)'
    BY <1>3, <2>1, OthersWait
  <2> QED
    BY <1>3, <2>1 DEF IInv, WorkInv
<1>4. ASSUME UNCHANGED <<cr, objects, drifted>>, DoneAt(i) PROVE Goal
  BY <1>4 DEF DoneAt, ReadyForThis, Done, Matches, MadeFrom
<1>5. CASE UNCHANGED vars
  BY <1>3, <1>4, <1>5 DEF vars, cluster, controller
<1>6. ASSUME NEW o \in Operators,
             Observe(o) \/ (\E k \in Owned : ObserveObject(o, k)) PROVE Goal
  BY <1>1, <1>6 DEF Observe, ObserveObject
<1>7. ASSUME NEW o \in Operators, StartReconcile(o) PROVE Goal
  BY <1>7, StartWork DEF StartReconcile, cluster
<1>8. ASSUME NEW o \in Operators, WriteObject(o) PROVE Goal
  BY <1>8, WriteObjectWork DEF WriteObject
<1>9. ASSUME NEW o \in Operators, WriteConflicts(o) \/ CRDsMissing(o) \/ CallFails(o)
      PROVE  Goal
  BY <1>1, <1>9 DEF WriteConflicts, CRDsMissing, CallFails
<1>10. ASSUME NEW o \in Operators, DeleteLagging(o) PROVE Goal
  <2>1. <<o, "ingress">> \in lagging'
    BY <1>10 DEF DeleteLagging, Put, Changed
  <2> QED
    BY <2>1, OrderFacts DEF WillReach
<1>11. ASSUME NEW o \in Operators, WriteStatus(o) PROVE Goal
  BY <1>11, WriteStatusWork
<1>12. ASSUME NEW o \in Operators, RestartOperator(o) PROVE Goal
  BY <1>12 DEF RestartOperator, WillReach
<1>13. CASE ChangeSpec \/ DeleteResource
  BY <1>2, <1>13 DEF ChangeSpec, DeleteResource
<1>14. CASE CollectGarbage
  BY <1>14 DEF CollectGarbage
<1>15. CASE Drift
  <2>1. PICK k \in Kinds, what \in {NoSpec, Foreign} :
          /\ objects' = [objects EXCEPT ![k] = what]
          /\ drifted' = drifted \cup ({k} \cap Sandbox)
          /\ Changed(k)
    BY <1>15 DEF Drift
  <2>2. UNCHANGED <<cr, at, queued, fresh>> /\ lagging \subseteq lagging'
    BY <1>15, <2>1 DEF Drift, controller, Changed
  <2>3. CASE k \in Owned
    BY <2>1, <2>3, OperatorAssumption DEF Changed, WillReach
  <2>4. CASE k \notin Owned
    <3>1. ASSUME DoneAt(i) PROVE Goal
      <4>1. CASE i = 6
        BY <2>2, <3>1, <4>1 DEF DoneAt, ReadyForThis
      <4>2. CASE i # 6
        <5>1. PICK j : j = Order[i]
          OBVIOUS
        <5>2. j \in Kinds /\ Done(j)
          BY <3>1, <4>2, <5>1, OrderFacts DEF DoneAt
        <5>3. Done(j)'
          <6>1. CASE j = k
            BY <2>1, <2>4, <6>1 DEF Owned, Done
          <6>2. CASE j # k
            <7>1. objects'[j] = objects[j]
              BY <2>1, <5>2, <6>2 DEF TypeInv, TypeOK
            <7> QED
              BY <2>1, <2>2, <5>2, <7>1 DEF Done, Matches, MadeFrom
          <6> QED
            BY <6>1, <6>2
        <5> QED
          BY <4>2, <5>1, <5>3 DEF DoneAt
      <4> QED
        BY <4>1, <4>2
    <3> QED
      BY <1>3, <2>2, <3>1
  <2> QED
    BY <2>3, <2>4
<1>16. CASE InstallCRDs
  BY <1>3, <1>4, <1>16 DEF InstallCRDs, controller
<1> QED
  BY <1>5, <1>6, <1>7, <1>8, <1>9, <1>10, <1>11, <1>12, <1>13, <1>14, <1>15, <1>16
  DEF Next, ReconcileStep

\* Nothing is forgotten: with nothing left to be told, queued or under way in any of any
\* number of operators, the status is ready for the current generation and every object
\* is as the resource wants it.
THEOREM NothingForgotten == Spec => []IdleMeansReconciled
<1>1. Init => IInv
  <2>1. Init => fresh = {} /\ at = [o \in Operators |-> 0]
    BY DEF Init
  <2> QED
    BY <2>1, OperatorAssumption DEF IInv, CopyInv, WorkInv, WillReach
<1>2. TypeInv /\ IInv /\ [Next]_vars => IInv'
  BY CopyStep, WorkStep DEF IInv
<1>3. TypeInv /\ IInv => IdleMeansReconciled
  <2> SUFFICES ASSUME TypeInv, IInv, Idle, cr # Absent
               PROVE  ReadyForThis /\ \A k \in Kinds : Done(k)
    BY DEF IdleMeansReconciled
  <2>1. \A i \in 1..6, o \in Operators : ~WillReach(o, i)
    BY DEF Idle, WillReach
  <2>2. \A i \in 1..6 : DoneAt(i)
    BY <2>1 DEF IInv, WorkInv
  <2>3. ReadyForThis
    BY <2>2 DEF DoneAt
  <2>4. ASSUME NEW k \in Kinds PROVE Done(k)
    <3>1. PICK i \in 1..5 : k = Order[i]
      BY OrderFacts
    <3> QED
      BY <2>2, <3>1 DEF DoneAt
  <2> QED
    BY <2>3, <2>4
<1> QED
  BY <1>1, <1>2, <1>3, TypeStart, TypeStep, PTL DEF Spec
=============================================================================
