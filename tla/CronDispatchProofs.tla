------------------------- MODULE CronDispatchProofs -------------------------
(***************************************************************************)
(* Proofs about CronDispatch for every number of workers, all schedules,   *)
(* every lag and every number of slots per tick, whatever crashes.         *)
(***************************************************************************)
EXTENDS CronDispatch, FiniteSetTheorems, TLAPS

-----------------------------------------------------------------------------
(* Type correctness.                                                       *)

\* A worker that has found a free slot may dispatch it in this tick.
MayInsert == \A w \in Workers : cpc[w] \in {"insert", "wake"} => left[w] > 0

\* The inductive invariant.
TypeInv == TypeOK /\ MayInsert

\* A slot is a time of the clock.
LEMMA SlotIsTime ==
  ASSUME NEW s \in Slots
  PROVE  s \in 0..MaxTime /\ s \in Nat
  BY CronDispatchAssumption DEF CronDispatchAssumption, Slots

\* The next slot of a worker is one.
LEMMA NextIsUnique ==
  ASSUME NEW w, NEW s \in Slots, NEW t \in Slots, IsNext(w, s), IsNext(w, t)
  PROVE  s = t
  <1>1. CASE plan[w] = {}
    BY <1>1 DEF IsNext
  <1>2. CASE plan[w] # {}
    <2>1. s <= t /\ t <= s
      BY <1>2 DEF IsNext
    <2> QED
      BY <2>1, SlotIsTime
  <1> QED
    BY <1>1, <1>2

\* The end of a tick keeps the types of the loop.
LEMMA EndTickType ==
  ASSUME TypeInv, NEW w \in Workers, EndTick(w)
  PROVE  /\ cpc' \in [Workers -> {"idle", "baseline", "check", "insert", "wake"}]
         /\ tick' \in [Workers -> 0..MaxTime]
         /\ plan' \in [Workers -> Texts]
         /\ baseline' \in [Workers -> 0..MaxTime]
         /\ left' \in [Workers -> 0..CatchUp]
         /\ MayInsert'
  BY CronDispatchAssumption DEF CronDispatchAssumption, TypeInv, TypeOK, Texts, MayInsert, EndTick

\* Going on to the next slot keeps the types of the loop.
LEMMA AdvanceType ==
  ASSUME TypeInv, NEW w \in Workers, NEW s \in Slots, left[w] > 0, Advance(w, s)
  PROVE  /\ cpc' \in [Workers -> {"idle", "baseline", "check", "insert", "wake"}]
         /\ baseline' \in [Workers -> 0..MaxTime]
         /\ left' \in [Workers -> 0..CatchUp]
         /\ MayInsert'
  <1>1. left[w] - 1 \in 0..CatchUp
    BY CronDispatchAssumption DEF CronDispatchAssumption, TypeInv, TypeOK
  <1> QED
    BY <1>1, SlotIsTime DEF TypeInv, TypeOK, MayInsert, Advance

\* The types hold at first.
LEMMA InitType == Init => TypeInv
<1>1. Unparsable \in Texts /\ Restricted(Slots, schedule) \subseteq Slots
  BY DEF Texts, Restricted
<1> QED
  BY <1>1, CronDispatchAssumption DEF CronDispatchAssumption, Init, TypeInv, TypeOK, MayInsert

\* The clock and the API keep the types.
LEMMA AroundType ==
  ASSUME TypeInv, TimePasses \/ UpdateCron \/ DeleteCron
  PROVE  TypeInv'
  <1>1. /\ now' \in 0..MaxTime /\ job' \in {"enabled", "disabled", "deleted"}
        /\ schedule' \in Texts /\ kept' \subseteq Slots /\ changes' \in 0..MaxChanges
    BY CronDispatchAssumption
    DEF CronDispatchAssumption, TypeInv, TypeOK, TimePasses, UpdateCron, DeleteCron, cron, Restricted
  <1> QED
    BY <1>1 DEF TypeInv, TypeOK, MayInsert, TimePasses, UpdateCron, DeleteCron, loop, history

\* Every step of a loop keeps the types.
LEMMA LoopType ==
  ASSUME TypeInv, NEW w \in Workers, LoopStep(w) \/ WakeFails(w) \/ Crash(w)
  PROVE  TypeInv'
  <1>t. TypeOK /\ MayInsert
    BY DEF TypeInv
  <1>1. CASE DispatchDueCrons(w)
    <2>1. TypeOK'
      BY <1>1, <1>t DEF DispatchDueCrons, TypeOK, history, cron
    <2>2. MayInsert'
      BY <1>1, <1>t DEF DispatchDueCrons, TypeOK, MayInsert
    <2> QED
      BY <2>1, <2>2 DEF TypeInv
  <1>2. CASE ReadBaseline(w)
    <2>1. PICK b \in Baselines(w) : baseline' = [baseline EXCEPT ![w] = b]
      BY <1>2 DEF ReadBaseline
    <2>2. b \in 0..MaxTime
      <3>1. tick[w] \in Nat /\ tick[w] <= MaxTime /\ MaxTime \in Nat /\ Lag \in Nat
        BY <1>t, CronDispatchAssumption DEF CronDispatchAssumption, TypeOK
      <3>2. CASE Executed = {}
        BY <2>1, <3>1, <3>2 DEF Baselines
      <3>3. CASE Executed # {}
        BY <2>1, <3>3, SlotIsTime DEF Baselines, Executed
      <3> QED
        BY <3>2, <3>3
    <2>3. /\ left' \in [Workers -> 0..CatchUp]
          /\ blind' \subseteq Workers
      BY <1>2, <1>t, CronDispatchAssumption DEF CronDispatchAssumption, ReadBaseline, TypeOK
    <2>4. TypeOK'
      BY <1>2, <1>t, <2>1, <2>2, <2>3 DEF ReadBaseline, TypeOK, cron
    <2>5. MayInsert'
      BY <1>2, <1>t DEF ReadBaseline, TypeOK, MayInsert
    <2> QED
      BY <2>4, <2>5 DEF TypeInv
  <1>3. CASE NothingLeft(w) \/ ScheduleFails(w)
    BY <1>3, <1>t, EndTickType DEF NothingLeft, ScheduleFails, TypeInv, TypeOK, history, cron
  <1>4. ASSUME NEW s \in Slots, CheckSlot(w, s)
        PROVE  TypeInv'
    <2>1. /\ left[w] > 0 /\ cpc[w] = "check"
          /\ UNCHANGED <<now, job, schedule, kept, changes, executions, tick, plan, blind, faults>>
      BY <1>4 DEF CheckSlot, MayDispatch, cron
    <2>2. CASE Exists(s)
      <3>1. Advance(w, s) /\ raced' = raced
        BY <1>4, <2>2 DEF CheckSlot
      <3> QED
        BY <1>t, <2>1, <3>1, AdvanceType DEF TypeInv, TypeOK
    <2>3. CASE ~Exists(s)
      <3>1. /\ cpc' = [cpc EXCEPT ![w] = "insert"]
            /\ raced' \subseteq raced \cup {s}
            /\ UNCHANGED <<baseline, left>>
        BY <1>4, <2>3 DEF CheckSlot
      <3>2. TypeOK'
        BY <1>t, <2>1, <3>1 DEF TypeOK
      <3>3. MayInsert'
        BY <1>t, <2>1, <3>1 DEF TypeOK, MayInsert
      <3> QED
        BY <3>2, <3>3 DEF TypeInv
    <2> QED
      BY <2>2, <2>3
  <1>5. ASSUME NEW s \in Slots, CreateRunForCron(w, s)
        PROVE  TypeInv'
    <2>1. UNCHANGED <<now, job, schedule, kept, changes, blind, raced, faults>> /\ left[w] > 0
      BY <1>5, <1>t DEF CreateRunForCron, history, MayInsert, cron
    <2>2. CASE CronExists
      <3>1. /\ executions' = [executions EXCEPT ![s] = @ + 1]
            /\ cpc' = [cpc EXCEPT ![w] = "wake"]
            /\ UNCHANGED <<tick, plan, baseline, left>>
        BY <1>5, <2>2 DEF CreateRunForCron
      <3>2. TypeOK'
        BY <1>t, <2>1, <3>1 DEF TypeOK
      <3>3. MayInsert'
        BY <1>t, <2>1, <3>1 DEF TypeOK, MayInsert
      <3> QED
        BY <3>2, <3>3 DEF TypeInv
    <2>3. CASE ~CronExists
      BY <1>5, <1>t, <2>1, <2>3, EndTickType DEF CreateRunForCron, TypeInv, TypeOK
    <2> QED
      BY <2>2, <2>3
  <1>6. ASSUME NEW s \in Slots, Wake(w, s)
        PROVE  TypeInv'
    <2>1. /\ left[w] > 0 /\ Advance(w, s)
          /\ UNCHANGED <<now, job, schedule, kept, changes, executions, tick, plan, blind, raced, faults>>
      BY <1>6, <1>t DEF Wake, history, MayInsert, cron
    <2> QED
      BY <1>t, <2>1, AdvanceType DEF TypeInv, TypeOK
  <1>7. CASE WakeFails(w) \/ Crash(w)
    <2>1. /\ EndTick(w) /\ faults' \in 0..MaxFaults
          /\ UNCHANGED <<now, job, schedule, kept, changes, executions, blind, raced>>
      BY <1>7, <1>t, CronDispatchAssumption
      DEF CronDispatchAssumption, WakeFails, Crash, TypeOK, history, cron
    <2> QED
      BY <1>t, <2>1, EndTickType DEF TypeInv, TypeOK
  <1> QED
    BY <1>1, <1>2, <1>3, <1>4, <1>5, <1>6, <1>7 DEF LoopStep

\* Every step keeps the types.
LEMMA NextType == TypeInv /\ [Next]_vars => TypeInv'
  <1> SUFFICES ASSUME TypeInv, [Next]_vars PROVE TypeInv'
    OBVIOUS
  <1>1. CASE UNCHANGED vars
    BY <1>1 DEF vars, loop, history, cron, TypeInv, TypeOK, MayInsert
  <1> QED
    BY <1>1, AroundType, LoopType DEF Next

\* The types hold throughout.
LEMMA TypeInvariance == Spec => []TypeInv
  BY InitType, NextType, PTL DEF Spec

\* Every reachable state has the declared types: in particular no tick
\* dispatches more slots than the loop of dispatchCronJob allows.
THEOREM TypeCorrect == Spec => []TypeOK
  <1>1. TypeInv => TypeOK
    BY DEF TypeInv
  <1> QED
    BY <1>1, TypeInvariance, PTL

-----------------------------------------------------------------------------
(* No execution of a deleted job.                                          *)

LEMMA NextNoOrphan ==
  ASSUME TypeInv, NoOrphanExecution, [Next]_vars
  PROVE  NoOrphanExecution'
  <1>t. executions \in [Slots -> Nat]
    BY DEF TypeInv, TypeOK
  <1>1. CASE UNCHANGED <<job, executions>>
    BY <1>1 DEF NoOrphanExecution, Executed
  <1>2. CASE UpdateCron \/ DeleteCron
    BY <1>2 DEF UpdateCron, DeleteCron, NoOrphanExecution, Executed
  <1>3. ASSUME NEW w \in Workers, NEW s \in Slots, CreateRunForCron(w, s)
        PROVE  NoOrphanExecution'
    <2>1. CASE CronExists
      BY <1>3, <2>1 DEF CreateRunForCron, CronExists, NoOrphanExecution, cron
    <2>2. CASE ~CronExists
      <3>1. UNCHANGED <<job, executions>>
        BY <1>3, <2>2 DEF CreateRunForCron, cron
      <3> QED
        BY <1>1, <3>1
    <2> QED
      BY <2>1, <2>2
  <1> QED
    BY <1>1, <1>2, <1>3
    DEF Next, TimePasses, LoopStep, DispatchDueCrons, ScheduleFails, ReadBaseline, NothingLeft,
        CheckSlot, Wake, WakeFails, Crash, vars, cron

\* A tick that listed the job before it was deleted creates no run any more: the
\* foreign key of cron_executions refuses, and a job with executions stays.
THEOREM NoOrphan == Spec => []NoOrphanExecution
  <1>1. Init => NoOrphanExecution
    BY DEF Init, NoOrphanExecution
  <1>2. TypeInv /\ NoOrphanExecution /\ [Next]_vars => NoOrphanExecution'
    BY NextNoOrphan
  <1> QED
    BY <1>1, <1>2, TypeInvariance, PTL DEF Spec

-----------------------------------------------------------------------------
(* How often a slot is dispatched.                                         *)

\* The workers that have found slot s free and are about to insert it.
Inserting(s) == {w \in Workers : cpc[w] = "insert" /\ IsNext(w, s)}

\* Executions there are and executions to come: together they never exceed the
\* number of workers, nor one as long as no two workers raced.
CountInv ==
  \A s \in Slots :
    /\ executions[s] + Cardinality(Inserting(s)) <= Cardinality(Workers)
    /\ s \notin raced => executions[s] + Cardinality(Inserting(s)) <= 1

\* A set of workers is finite, and no larger than that of all.
LEMMA InsertingFinite ==
  ASSUME NEW S \in SUBSET Workers
  PROVE  /\ IsFiniteSet(S)
         /\ Cardinality(S) \in Nat
         /\ Cardinality(Workers) \in Nat
         /\ Cardinality(S) <= Cardinality(Workers)
  BY FS_Subset, FS_CardinalityType, CronDispatchAssumption DEF CronDispatchAssumption

\* What a step does to slot s: nothing that counts, a worker finds it free, or a
\* worker that had found it free inserts it.
Quiet(s) == /\ executions'[s] = executions[s]
            /\ Inserting(s)' \subseteq Inserting(s)
Finds(w, s) == /\ executions[s] = 0 /\ executions'[s] = 0
               /\ Inserting(s)' = Inserting(s) \cup {w}
               /\ s \notin raced' => Inserting(s) = {}
Fills(w, s) == /\ w \in Inserting(s)
               /\ executions'[s] = executions[s] + 1
               /\ Inserting(s)' = Inserting(s) \ {w}

\* A worker leaves the loops of the others alone.
LEMMA OwnLoop ==
  ASSUME TypeInv, NEW w \in Workers, LoopStep(w) \/ WakeFails(w) \/ Crash(w)
  PROVE  /\ \A v \in Workers \ {w} :
              /\ cpc'[v] = cpc[v] /\ tick'[v] = tick[v]
              /\ plan'[v] = plan[v] /\ baseline'[v] = baseline[v]
         /\ blind \subseteq blind' /\ raced \subseteq raced'
         /\ job' = job /\ schedule' = schedule /\ kept' = kept
  BY DEF TypeInv, TypeOK, LoopStep, DispatchDueCrons, ScheduleFails, ReadBaseline, NothingLeft,
         CheckSlot, CreateRunForCron, Wake, WakeFails, Crash, EndTick, Advance, history, cron

\* Seen from the other workers, their place in the loop does not change.
LEMMA OthersInsert ==
  ASSUME NEW w \in Workers, NEW s \in Slots,
         \A v \in Workers \ {w} :
           /\ cpc'[v] = cpc[v] /\ tick'[v] = tick[v]
           /\ plan'[v] = plan[v] /\ baseline'[v] = baseline[v]
  PROVE  Inserting(s)' \ {w} = Inserting(s) \ {w}
  <1>1. ASSUME NEW v \in Workers \ {w}
        PROVE  v \in Inserting(s)' <=> v \in Inserting(s)
    BY <1>1 DEF Inserting, IsNext
  <1>2. Inserting(s)' \subseteq Workers /\ Inserting(s) \subseteq Workers
    BY DEF Inserting
  <1> QED
    BY <1>1, <1>2

\* For a slot a step does nothing, or is one worker that finds it empty or
\* fills it.
LEMMA StepOfSlot ==
  ASSUME TypeInv, [Next]_vars, NEW s \in Slots
  PROVE  /\ raced \subseteq raced'
         /\ Quiet(s) \/ \E w \in Workers : Finds(w, s) \/ Fills(w, s)
  <1>t. TypeOK /\ executions \in [Slots -> Nat] /\ cpc \in [Workers -> {"idle", "baseline", "check", "insert", "wake"}]
    BY DEF TypeInv, TypeOK
  <1>1. CASE UNCHANGED <<executions, cpc, tick, plan, baseline, raced>>
    BY <1>1 DEF Quiet, Inserting, IsNext
  <1>2. ASSUME NEW w \in Workers, LoopStep(w) \/ WakeFails(w) \/ Crash(w)
        PROVE  /\ raced \subseteq raced'
               /\ Quiet(s) \/ Finds(w, s) \/ Fills(w, s)
    <2>o. raced \subseteq raced' /\ Inserting(s)' \ {w} = Inserting(s) \ {w}
      BY <1>2, OwnLoop, OthersInsert
    <2>1. ASSUME executions'[s] = executions[s], cpc'[w] # "insert"
          PROVE  Quiet(s)
      BY <2>o, <2>1 DEF Quiet, Inserting
    <2>2. CASE \/ DispatchDueCrons(w) \/ ScheduleFails(w) \/ ReadBaseline(w) \/ NothingLeft(w)
               \/ WakeFails(w) \/ Crash(w)
      BY <2>1, <2>2, <2>o, <1>t
      DEF DispatchDueCrons, ScheduleFails, ReadBaseline, NothingLeft, WakeFails, Crash, EndTick
    <2>3. ASSUME NEW t \in Slots, Wake(w, t)
          PROVE  Quiet(s)
      BY <2>1, <2>3, <1>t DEF Wake, Advance
    <2>4. ASSUME NEW t \in Slots, CheckSlot(w, t)
          PROVE  Quiet(s) \/ Finds(w, s)
      <3>1. executions' = executions /\ IsNext(w, t) /\ tick' = tick /\ plan' = plan /\ cpc[w] = "check"
        BY <2>4 DEF CheckSlot
      <3>2. CASE Exists(t)
        BY <2>1, <2>4, <3>1, <3>2, <1>t DEF CheckSlot, Advance
      <3>3. CASE ~Exists(t)
        <4>1. cpc' = [cpc EXCEPT ![w] = "insert"] /\ baseline' = baseline
          BY <2>4, <3>3 DEF CheckSlot
        <4>2. w \in Inserting(s)' <=> s = t
          BY <3>1, <4>1, <1>t, NextIsUnique DEF Inserting, IsNext
        <4>3. w \notin Inserting(s)
          BY <3>1 DEF Inserting
        <4>4. CASE s # t
          BY <2>o, <3>1, <4>2, <4>3, <4>4 DEF Quiet
        <4>5. CASE s = t
          <5>1. executions[s] = 0
            BY <3>3, <4>5, <1>t DEF Exists
          <5>2. s \notin raced' => Inserting(s) = {}
            BY <2>4, <3>3, <4>5 DEF CheckSlot, Inserting
          <5>3. Inserting(s)' = Inserting(s) \cup {w}
            BY <2>o, <4>2, <4>3, <4>5
          <5> QED
            BY <3>1, <5>1, <5>2, <5>3 DEF Finds
        <4> QED
          BY <4>4, <4>5
      <3> QED
        BY <3>2, <3>3
    <2>5. ASSUME NEW t \in Slots, CreateRunForCron(w, t)
          PROVE  Quiet(s) \/ Fills(w, s)
      <3>1. IsNext(w, t) /\ cpc[w] = "insert" /\ cpc'[w] # "insert"
        BY <2>5, <1>t DEF CreateRunForCron, EndTick
      <3>2. CASE executions'[s] = executions[s]
        BY <2>1, <3>1, <3>2
      <3>3. CASE executions'[s] # executions[s]
        <4>1. s = t /\ executions'[s] = executions[s] + 1
          BY <2>5, <3>3, <1>t DEF CreateRunForCron
        <4>2. w \in Inserting(s) /\ w \notin Inserting(s)'
          BY <3>1, <4>1 DEF Inserting
        <4> QED
          BY <2>o, <4>1, <4>2 DEF Fills
      <3> QED
        BY <3>2, <3>3
    <2> QED
      BY <1>2, <2>o, <2>2, <2>3, <2>4, <2>5 DEF LoopStep
  <1> QED
    BY <1>1, <1>2 DEF Next, TimePasses, UpdateCron, DeleteCron, vars, loop, history, cron

\* Every step keeps the count of executions and of those on their way.
LEMMA NextCount ==
  ASSUME TypeInv, CountInv, [Next]_vars
  PROVE  CountInv'
  <1> SUFFICES ASSUME NEW s \in Slots
               PROVE  /\ executions'[s] + Cardinality(Inserting(s)') <= Cardinality(Workers)
                      /\ s \notin raced' => executions'[s] + Cardinality(Inserting(s)') <= 1
    BY DEF CountInv
  <1>t. executions[s] \in Nat /\ executions'[s] \in Nat
    BY NextType DEF TypeInv, TypeOK
  <1>f. /\ IsFiniteSet(Inserting(s)) /\ IsFiniteSet(Inserting(s)')
        /\ Cardinality(Inserting(s)) \in Nat /\ Cardinality(Inserting(s)') \in Nat
        /\ Cardinality(Inserting(s)') <= Cardinality(Workers)
        /\ Cardinality(Workers) \in Nat
    <2>1. Inserting(s) \in SUBSET Workers /\ Inserting(s)' \in SUBSET Workers
      BY DEF Inserting
    <2> QED
      BY <2>1, InsertingFinite
  <1>i. /\ executions[s] + Cardinality(Inserting(s)) <= Cardinality(Workers)
        /\ s \notin raced => executions[s] + Cardinality(Inserting(s)) <= 1
    BY DEF CountInv
  <1>r. raced \subseteq raced'
    BY StepOfSlot
  <1>1. CASE Quiet(s)
    <2>1. Cardinality(Inserting(s)') <= Cardinality(Inserting(s))
      BY <1>1, <1>f, FS_Subset DEF Quiet
    <2> QED
      BY <1>1, <2>1, <1>t, <1>f, <1>i, <1>r DEF Quiet
  <1>2. ASSUME NEW w \in Workers, Finds(w, s)
        PROVE  /\ executions'[s] + Cardinality(Inserting(s)') <= Cardinality(Workers)
               /\ s \notin raced' => executions'[s] + Cardinality(Inserting(s)') <= 1
    <2>1. s \notin raced' => Inserting(s)' = {w}
      BY <1>2 DEF Finds
    <2>2. s \notin raced' => Cardinality(Inserting(s)') = 1
      BY <2>1, FS_Singleton
    <2> QED
      BY <1>2, <2>2, <1>f DEF Finds
  <1>3. ASSUME NEW w \in Workers, Fills(w, s)
        PROVE  /\ executions'[s] + Cardinality(Inserting(s)') <= Cardinality(Workers)
               /\ s \notin raced' => executions'[s] + Cardinality(Inserting(s)') <= 1
    <2>1. Cardinality(Inserting(s)') = Cardinality(Inserting(s)) - 1
      BY <1>3, <1>f, FS_RemoveElement DEF Fills
    <2> QED
      BY <1>3, <2>1, <1>t, <1>f, <1>i, <1>r DEF Fills
  <1> QED
    BY <1>1, <1>2, <1>3, StepOfSlot

\* However ticks fail, restart and overlap: without a race a slot gets one
\* execution, and with any number of races not more than one per worker.
THEOREM BoundedDispatch == Spec => []DispatchesPerSlot
  <1>1. Init => CountInv
    <2> SUFFICES ASSUME Init, NEW s \in Slots
                 PROVE  executions[s] + Cardinality(Inserting(s)) = 0
      BY InsertingFinite DEF CountInv
    <2>1. Inserting(s) = {} /\ executions[s] = 0
      BY DEF Init, Inserting
    <2> QED
      BY <2>1, FS_EmptySet
  <1>2. TypeInv /\ CountInv /\ [Next]_vars => CountInv'
    BY NextCount
  <1>3. TypeInv /\ CountInv => DispatchesPerSlot
    <2> SUFFICES ASSUME TypeInv, CountInv, NEW s \in Slots
                 PROVE  /\ executions[s] > 1 => s \in raced
                        /\ executions[s] <= Cardinality(Workers)
      BY DEF DispatchesPerSlot
    <2>1. executions[s] \in Nat /\ Cardinality(Inserting(s)) \in Nat /\ Cardinality(Workers) \in Nat
      <3>1. Inserting(s) \in SUBSET Workers
        BY DEF Inserting
      <3> QED
        BY <3>1, InsertingFinite DEF TypeInv, TypeOK
    <2> QED
      BY <2>1 DEF CountInv
  <1> QED
    BY <1>1, <1>2, <1>3, TypeInvariance, PTL DEF Spec

-----------------------------------------------------------------------------
(* No slot is left out.                                                    *)

\* At most one worker ever found no execution to start from.
OneBlind == \A v, w \in blind : v = w

\* Between two dispatched slots none is left out that every schedule so far names.
Convex ==
  \A s, u \in Slots, t \in kept : s < t /\ t < u /\ {s, u} \subseteq Executed => t \in Executed

\* Where a worker at work continues: as long as nothing was dispatched it is the
\* blind one, afterwards it starts from a dispatched slot.
Continues ==
  \A w \in Workers :
    /\ cpc[w] \in {"check", "insert"} =>
         IF Executed = {} THEN w \in blind ELSE baseline[w] \in Executed
    /\ cpc[w] = "wake" => \E s \in Executed : IsNext(w, s)

\* The schedule a worker works by was one of the job's.
Planned(w) == plan[w] \in Schedules => kept \subseteq plan[w]
PlanInv ==
  /\ schedule \in Schedules => kept \subseteq schedule
  /\ \A w \in Workers :
       Planned(w) /\ (cpc[w] \in {"check", "insert", "wake"} => plan[w] \in Schedules)

\* The inductive invariant.
SkipInv == PlanInv /\ (OneBlind => Convex /\ Continues)

\* The plans stay.
LEMMA NextPlans ==
  ASSUME TypeInv, PlanInv, [Next]_vars
  PROVE  PlanInv'
  <1>t. /\ cpc \in [Workers -> {"idle", "baseline", "check", "insert", "wake"}]
        /\ plan \in [Workers -> Texts] /\ Unparsable \notin Schedules
    BY CronDispatchAssumption DEF CronDispatchAssumption, TypeInv, TypeOK
  <1>1. CASE UNCHANGED <<schedule, kept, plan, cpc>>
    BY <1>1 DEF PlanInv, Planned
  <1>2. CASE UpdateCron
    <2>1. kept' \subseteq kept /\ plan' = plan /\ cpc' = cpc
      BY <1>2 DEF UpdateCron, Restricted, loop
    <2>2. schedule' \in Schedules => kept' \subseteq schedule'
      BY <1>2, <1>t DEF UpdateCron, Restricted, PlanInv
    <2> QED
      BY <2>1, <2>2 DEF PlanInv, Planned
  <1>3. ASSUME NEW w \in Workers, LoopStep(w) \/ WakeFails(w) \/ Crash(w)
        PROVE  PlanInv'
    <2>1. /\ \A v \in Workers \ {w} : cpc'[v] = cpc[v] /\ plan'[v] = plan[v]
          /\ schedule' = schedule /\ kept' = kept
      BY <1>3, OwnLoop
    <2>2. \/ plan'[w] = schedule /\ cpc'[w] = "baseline"
          \/ plan'[w] = Unparsable /\ cpc'[w] = "idle"
          \/ /\ plan'[w] = plan[w] /\ plan[w] \in Schedules
      BY <1>3, <1>t DEF LoopStep, DispatchDueCrons, ScheduleFails, ReadBaseline, NothingLeft,
         CheckSlot, CreateRunForCron, Wake, WakeFails, Crash, EndTick, Advance, PlanInv, Texts
    <2> QED
      BY <1>t, <2>1, <2>2 DEF PlanInv, Planned
  <1> QED
    BY <1>1, <1>2, <1>3 DEF Next, TimePasses, DeleteCron, vars, loop, cron

\* At most one blind worker by count is at most one by name.
LEMMA OneOrMany ==
  ASSUME blind \subseteq Workers, Cardinality(blind) <= 1
  PROVE  OneBlind
  <1> SUFFICES ASSUME NEW v \in blind, NEW w \in blind, v # w PROVE FALSE
    BY DEF OneBlind
  <1>1. Cardinality({v, w}) = 2
    <2>1. IsFiniteSet({v}) /\ Cardinality({v}) = 1
      BY FS_Singleton
    <2>2. {v, w} = {v} \cup {w}
      OBVIOUS
    <2>3. w \notin {v}
      OBVIOUS
    <2>4. Cardinality({v} \cup {w}) = Cardinality({v}) + 1
      BY <2>1, <2>3, FS_AddElement
    <2> QED
      BY <2>1, <2>2, <2>4
  <1>2. IsFiniteSet(blind) /\ Cardinality(blind) \in Nat
    BY InsertingFinite, FS_Subset, CronDispatchAssumption DEF CronDispatchAssumption
  <1>3. Cardinality({v, w}) <= Cardinality(blind)
    BY <1>2, FS_Subset
  <1> QED
    BY <1>1, <1>2, <1>3

\* A slot that continues a convex set of slots at its end, or in the middle,
\* leaves it convex.
LEMMA ExtendConvex ==
  ASSUME Convex, NEW w, NEW s \in Slots, IsNext(w, s), baseline[w] \in Executed,
         kept \subseteq plan[w], kept \subseteq Slots,
         Executed' = Executed \cup {s}, kept' = kept
  PROVE  Convex'
  <1> SUFFICES ASSUME NEW a \in Slots, NEW u \in Slots, NEW t \in kept,
                      a < t, t < u, a \in Executed', u \in Executed'
               PROVE  t \in Executed'
    BY DEF Convex
  <1>n. /\ a \in Nat /\ t \in Nat /\ u \in Nat /\ s \in Nat
        /\ baseline[w] \in Slots /\ baseline[w] \in Nat
    BY SlotIsTime DEF Executed
  <1>p. t \in plan[w] /\ plan[w] # {}
    OBVIOUS
  <1>1. baseline[w] < t => s <= t
    BY <1>p DEF IsNext
  <1>2. baseline[w] < s
    BY <1>p DEF IsNext
  <1>3. CASE a \in Executed /\ u \in Executed
    BY <1>3 DEF Convex
  <1>4. CASE u = s
    <2>1. t <= baseline[w]
      BY <1>n, <1>1, <1>4
    <2>2. CASE t = baseline[w]
      BY <2>2
    <2>3. CASE t < baseline[w]
      <3>1. a \in Executed
        BY <1>n, <1>4
      <3>2. {a, baseline[w]} \subseteq Executed /\ a < t /\ t < baseline[w]
        BY <2>3, <3>1
      <3> QED
        BY <1>n, <3>2 DEF Convex
    <2> QED
      BY <1>n, <2>1, <2>2, <2>3
  <1>5. CASE a = s /\ u # s
    <2>1. u \in Executed /\ baseline[w] < t
      BY <1>n, <1>2, <1>5
    <2>2. {baseline[w], u} \subseteq Executed /\ t < u
      BY <2>1
    <2> QED
      BY <1>n, <2>1, <2>2 DEF Convex
  <1> QED
    BY <1>3, <1>4, <1>5

\* Steps that dispatch nothing: what is left to show is where the workers are.
LEMMA KeepsConvex ==
  ASSUME Convex, Executed' = Executed, kept' \subseteq kept
  PROVE  Convex'
  BY DEF Convex

\* A step of a loop leaves no gap while at most one worker is blind.
LEMMA LoopSkips ==
  ASSUME TypeInv, PlanInv, OneBlind, OneBlind', Convex, Continues,
         NEW w \in Workers, LoopStep(w) \/ WakeFails(w) \/ Crash(w)
  PROVE  Convex' /\ Continues'
  <1>t. /\ executions \in [Slots -> Nat] /\ baseline \in [Workers -> 0..MaxTime]
        /\ cpc \in [Workers -> {"idle", "baseline", "check", "insert", "wake"}]
    BY DEF TypeInv, TypeOK
  <1>o. /\ \A v \in Workers \ {w} :
              /\ cpc'[v] = cpc[v] /\ tick'[v] = tick[v]
              /\ plan'[v] = plan[v] /\ baseline'[v] = baseline[v]
        /\ blind \subseteq blind' /\ kept' = kept
    BY OwnLoop
  <1> DEFINE At(v) == /\ cpc[v] \in {"check", "insert"} =>
                           IF Executed = {} THEN v \in blind ELSE baseline[v] \in Executed
                      /\ cpc[v] = "wake" => \E s \in Executed : IsNext(v, s)
  <1>k. kept \subseteq Slots
    BY DEF TypeInv, TypeOK
  <1>a. \A v \in Workers : At(v)
    BY DEF Continues
  <1>c. (\A v \in Workers : At(v)') => Continues'
    BY DEF Continues
  <1>1. ASSUME executions' = executions, At(w)'
        PROVE  Convex' /\ Continues'
    <2>1. Executed' = Executed
      BY <1>1 DEF Executed
    <2>2. ASSUME NEW v \in Workers \ {w} PROVE At(v)'
      BY <1>a, <1>o, <2>1, <2>2 DEF IsNext
    <2> QED
      BY <1>1, <1>c, <1>o, <2>1, <2>2, KeepsConvex
  <1>2. CASE DispatchDueCrons(w) \/ ScheduleFails(w) \/ NothingLeft(w) \/ WakeFails(w) \/ Crash(w)
    <2>1. executions' = executions /\ cpc'[w] \in {"baseline", "idle"}
      BY <1>2, <1>t DEF DispatchDueCrons, ScheduleFails, NothingLeft, WakeFails, Crash, EndTick
    <2> QED
      BY <1>1, <2>1
  <1>3. CASE ReadBaseline(w)
    <2>1. PICK b \in Baselines(w) : baseline' = [baseline EXCEPT ![w] = b]
      BY <1>3 DEF ReadBaseline
    <2>2. executions' = executions /\ cpc'[w] = "check" /\ baseline'[w] = b
      BY <1>3, <1>t, <2>1 DEF ReadBaseline
    <2>3. Executed = {} => w \in blind'
      BY <1>3 DEF ReadBaseline
    <2>4. Executed # {} => b \in Executed
      BY <2>1 DEF Baselines
    <2>5. Executed' = Executed
      BY <2>2 DEF Executed
    <2> QED
      BY <1>1, <2>2, <2>3, <2>4, <2>5
  <1>4. ASSUME NEW s \in Slots, Advance(w, s), executions' = executions, s \in Executed
        PROVE  Convex' /\ Continues'
    <2>1. cpc'[w] = "check" /\ baseline'[w] = s
      BY <1>4, <1>t DEF Advance
    <2>2. Executed' = Executed
      BY <1>4 DEF Executed
    <2> QED
      BY <1>1, <1>4, <2>1, <2>2
  <1>5. ASSUME NEW s \in Slots, CheckSlot(w, s)
        PROVE  Convex' /\ Continues'
    <2>1. CASE Exists(s)
      BY <1>4, <1>5, <2>1 DEF CheckSlot, Exists, Executed
    <2>2. CASE ~Exists(s)
      <3>1. executions' = executions /\ baseline' = baseline /\ cpc[w] = "check" /\ cpc'[w] = "insert"
        BY <1>5, <1>t, <2>2 DEF CheckSlot
      <3>2. Executed' = Executed
        BY <3>1 DEF Executed
      <3> QED
        BY <1>1, <1>a, <1>o, <3>1, <3>2
    <2> QED
      BY <2>1, <2>2
  <1>6. ASSUME NEW s \in Slots, Wake(w, s)
        PROVE  Convex' /\ Continues'
    <2>1. s \in Executed
      <3>1. PICK t \in Executed : IsNext(w, t)
        BY <1>6, <1>a DEF Wake
      <3>2. t \in Slots /\ IsNext(w, s)
        BY <1>6 DEF Executed, Wake
      <3> QED
        BY <3>1, <3>2, NextIsUnique
    <2> QED
      BY <1>4, <1>6, <2>1 DEF Wake
  <1>7. ASSUME NEW s \in Slots, CreateRunForCron(w, s)
        PROVE  Convex' /\ Continues'
    <2>1. CASE ~CronExists
      <3>1. executions' = executions /\ cpc'[w] = "idle"
        BY <1>7, <1>t, <2>1 DEF CreateRunForCron, EndTick
      <3> QED
        BY <1>1, <3>1
    <2>2. CASE CronExists
      <3>1. /\ executions' = [executions EXCEPT ![s] = @ + 1]
            /\ cpc' = [cpc EXCEPT ![w] = "wake"]
            /\ UNCHANGED <<tick, plan, baseline, blind>>
            /\ cpc[w] = "insert" /\ IsNext(w, s)
        BY <1>7, <2>2 DEF CreateRunForCron, history
      <3>2. Executed' = Executed \cup {s}
        BY <3>1, <1>t DEF Executed
      <3>3. At(w)'
        BY <3>1, <3>2, <1>t DEF IsNext
      <3>4. CASE Executed = {}
        <4>1. w \in blind
          BY <1>a, <3>1, <3>4
        <4>2. ASSUME NEW v \in Workers \ {w} PROVE At(v)'
          <5>1. cpc[v] \notin {"check", "insert", "wake"}
            BY <1>a, <3>4, <4>1 DEF OneBlind
          <5> QED
            BY <1>o, <5>1
        <4>3. Convex'
          <5>1. \A a, u \in Executed' : a = u
            BY <3>2, <3>4
          <5> QED
            BY <5>1, <1>k, <1>o, SlotIsTime DEF Convex
        <4> QED
          BY <1>c, <3>3, <4>2, <4>3
      <3>5. CASE Executed # {}
        <4>1. baseline[w] \in Executed
          BY <1>a, <3>1, <3>5
        <4>2. ASSUME NEW v \in Workers \ {w} PROVE At(v)'
          BY <1>a, <1>o, <3>2, <3>5, <4>2 DEF IsNext
        <4>3. kept \subseteq plan[w]
          BY <3>1 DEF PlanInv, Planned
        <4> QED
          BY <1>c, <1>k, <1>o, <3>1, <3>2, <3>3, <4>1, <4>2, <4>3, ExtendConvex
      <3> QED
        BY <3>4, <3>5
    <2> QED
      BY <2>1, <2>2
  <1> QED
    BY <1>2, <1>3, <1>5, <1>6, <1>7 DEF LoopStep

\* Every step keeps that.
LEMMA NextSkips ==
  ASSUME TypeInv, SkipInv, [Next]_vars
  PROVE  SkipInv'
  <1> SUFFICES ASSUME OneBlind' PROVE Convex' /\ Continues'
    BY NextPlans DEF SkipInv
  <1>1. CASE UNCHANGED <<executions, cpc, tick, plan, baseline, blind>> /\ kept' \subseteq kept
    <2>1. OneBlind /\ Executed' = Executed
      BY <1>1 DEF OneBlind, Executed
    <2>2. Convex /\ Continues
      BY <2>1 DEF SkipInv
    <2>3. Continues'
      BY <1>1, <2>1, <2>2 DEF Continues, IsNext
    <2> QED
      BY <1>1, <2>1, <2>2, <2>3, KeepsConvex
  <1>2. ASSUME NEW w \in Workers, LoopStep(w) \/ WakeFails(w) \/ Crash(w)
        PROVE  Convex' /\ Continues'
    <2>1. OneBlind
      BY <1>2, OwnLoop DEF OneBlind
    <2>2. Convex /\ Continues
      BY <2>1 DEF SkipInv
    <2> QED
      BY <1>2, <2>1, <2>2, LoopSkips DEF SkipInv
  <1> QED
    BY <1>1, <1>2 DEF Next, TimePasses, UpdateCron, DeleteCron, Restricted, vars, loop, history, cron

\* Any number of loops, crashing and restarting, while the job is switched on and
\* off and rescheduled: a slot all its schedules name is skipped only if two workers
\* started from nothing.
THEOREM SkipsAreBlind == Spec => []SkipsNeedABlindRace
  <1>1. Init => SkipInv
    BY CronDispatchAssumption DEF CronDispatchAssumption, Init, SkipInv, PlanInv, Planned, Convex,
       Continues, Executed, Restricted
  <1>2. TypeInv /\ SkipInv /\ [Next]_vars => SkipInv'
    BY NextSkips
  <1>3. TypeInv /\ SkipInv => SkipsNeedABlindRace
    <2> SUFFICES ASSUME TypeInv, SkipInv, ~(Cardinality(blind) > 1)
                 PROVE  Convex
      BY DEF SkipsNeedABlindRace, Convex
    <2>1. blind \in SUBSET Workers
      BY DEF TypeInv, TypeOK
    <2>2. Cardinality(blind) \in Nat
      BY <2>1, InsertingFinite
    <2>3. OneBlind
      BY <2>1, <2>2, OneOrMany
    <2> QED
      BY <2>3 DEF SkipInv
  <1> QED
    BY <1>1, <1>2, <1>3, TypeInvariance, PTL DEF Spec
=============================================================================
