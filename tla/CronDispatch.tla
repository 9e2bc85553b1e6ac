---------------------------- MODULE CronDispatch ----------------------------
(***************************************************************************)
(* The cron loop of every worker process, over one cron job: at each tick  *)
(* the loop reads the last slot that was dispatched and creates a run for  *)
(* every slot since, a bounded number per tick.  The check that a slot has *)
(* no execution and the INSERT are two statements, cron_executions has no  *)
(* unique constraint, and nothing keeps two loops apart.                   *)
(*                                                                         *)
(* Time is counted in units of the schedules' granularity, from 1; time 0  *)
(* is Go's zero time, long before.  The API stores any text as a schedule: *)
(* it may not parse, or name no time there is (31 February).  The runs     *)
(* that are created are RunLifecycle's.                                    *)
(***************************************************************************)
EXTENDS Naturals, FiniteSets

CONSTANTS
  Workers,    \* worker processes, each with one cron loop
  MaxTime,    \* bound: the clock stops here
  Schedules,  \* the schedules a job may have, each the set of times it names
  Unparsable, \* a text that is no schedule
  MaxChanges, \* bound: changes of the schedule
  Lag,        \* the baseline of a job never dispatched: the hour before the tick
  CatchUp,    \* slots per tick
  MaxFaults   \* bound: crashes and failing LPUSHes

ASSUME CronDispatchAssumption ==
  /\ {MaxTime, MaxChanges, Lag, MaxFaults} \subseteq Nat
  /\ CatchUp \in Nat \ {0}
  /\ Schedules \subseteq SUBSET (1..MaxTime)
  /\ Unparsable \notin Schedules
  /\ IsFiniteSet(Workers)

Slots == 0..MaxTime
Texts == Schedules \cup {Unparsable}

VARIABLES
  now,         \* the clock
  job,         \* cron_jobs: "enabled", "disabled", or "deleted"
  schedule,    \* cron_jobs: its schedule
  executions,  \* cron_executions, each with its run: how many rows a slot has
  cpc,         \* per worker: "idle", "baseline", "check", "insert", "wake"
  tick,        \* per worker: now as the tick read it
  plan,        \* per worker: the schedule as the tick read it
  baseline,    \* per worker: the slot it has come to
  left,        \* per worker: slots it may still dispatch in this tick
  blind,       \* history: workers that found no execution to start from
  raced,       \* history: slots two workers were about to insert at once
  kept,        \* history: times every schedule the job has had names
  changes, faults

loop == <<cpc, tick, plan, baseline, left>>
history == <<blind, raced>>
cron == <<job, schedule, kept, changes>>
vars == <<now, cron, executions, loop, history, faults>>

TypeOK ==
  /\ now \in 0..MaxTime
  /\ job \in {"enabled", "disabled", "deleted"}
  /\ schedule \in Texts
  /\ executions \in [Slots -> Nat]
  /\ cpc \in [Workers -> {"idle", "baseline", "check", "insert", "wake"}]
  /\ tick \in [Workers -> 0..MaxTime]
  /\ plan \in [Workers -> Texts]
  /\ baseline \in [Workers -> 0..MaxTime]
  /\ left \in [Workers -> 0..CatchUp]
  /\ blind \subseteq Workers
  /\ raced \subseteq Slots
  /\ kept \subseteq Slots
  /\ changes \in 0..MaxChanges /\ faults \in 0..MaxFaults

(* What is left of times once a schedule is in force that may be no schedule *)
Restricted(times, text) == IF text = Unparsable THEN times ELSE times \cap text

Init ==
  /\ now = 0
  /\ job = "enabled"
  /\ schedule \in Texts
  /\ executions = [s \in Slots |-> 0]
  /\ cpc = [w \in Workers |-> "idle"]
  /\ tick = [w \in Workers |-> 0]
  /\ plan = [w \in Workers |-> Unparsable]
  /\ baseline = [w \in Workers |-> 0]
  /\ left = [w \in Workers |-> 0]
  /\ blind = {}
  /\ raced = {}
  /\ kept = Restricted(Slots, schedule)
  /\ changes = 0 /\ faults = 0

Executed == {s \in Slots : executions[s] > 0}

-----------------------------------------------------------------------------
(* The clock and the API.                                                  *)

TimePasses ==
  /\ now < MaxTime
  /\ now' = now + 1
  /\ UNCHANGED <<cron, executions, loop, history, faults>>

\* updateCron: enabled is set either way and the schedule to any text, at any time.
UpdateCron ==
  /\ job # "deleted"
  /\ job' \in {"enabled", "disabled"}
  /\ \/ UNCHANGED <<schedule, kept, changes>>
     \/ /\ changes < MaxChanges
        /\ changes' = changes + 1
        /\ schedule' \in Texts
        /\ kept' = Restricted(kept, schedule')
  /\ UNCHANGED <<now, executions, loop, history, faults>>

\* deleteCron: the foreign key of cron_executions refuses it once a slot was dispatched.
DeleteCron ==
  /\ job # "deleted"
  /\ Executed = {}
  /\ job' = "deleted"
  /\ UNCHANGED <<now, schedule, kept, changes, executions, loop, history, faults>>

-----------------------------------------------------------------------------
(* The cron loop of worker w.                                              *)

\* The tick ends, after its last slot or with an error.
EndTick(w) ==
  /\ cpc' = [cpc EXCEPT ![w] = "idle"]
  /\ tick' = [tick EXCEPT ![w] = 0]
  /\ plan' = [plan EXCEPT ![w] = Unparsable]
  /\ baseline' = [baseline EXCEPT ![w] = 0]
  /\ left' = [left EXCEPT ![w] = 0]

\* dispatchDueCrons: the enabled jobs, each with its schedule.
DispatchDueCrons(w) ==
  /\ cpc[w] = "idle"
  /\ job = "enabled"
  /\ cpc' = [cpc EXCEPT ![w] = "baseline"]
  /\ tick' = [tick EXCEPT ![w] = now]
  /\ plan' = [plan EXCEPT ![w] = schedule]
  /\ UNCHANGED <<now, cron, executions, baseline, left, history, faults>>

\* dispatchCronJob: ParseStandard refuses the schedule.
ScheduleFails(w) ==
  /\ cpc[w] = "baseline"
  /\ plan[w] = Unparsable
  /\ EndTick(w)
  /\ UNCHANGED <<now, cron, executions, history, faults>>

\* Mutant: a job is taken up at the current tick, not at the last execution.
MutantBaselines(w) == {tick[w]}

\* MAX(scheduled_for), or one Lag before the tick; no slot is before time 1.
Baselines(w) ==
  IF Executed = {} THEN {IF tick[w] > Lag THEN tick[w] - Lag ELSE 0}
  ELSE {s \in Executed : \A t \in Executed : t <= s}

\* dispatchCronJob, up to its loop.
ReadBaseline(w) ==
  /\ cpc[w] = "baseline"
  /\ plan[w] # Unparsable
  /\ \E b \in Baselines(w) : baseline' = [baseline EXCEPT ![w] = b]
  /\ left' = [left EXCEPT ![w] = CatchUp]
  /\ blind' = IF Executed = {} THEN blind \cup {w} ELSE blind
  /\ cpc' = [cpc EXCEPT ![w] = "check"]
  /\ UNCHANGED <<now, cron, executions, tick, plan, raced, faults>>

\* Mutant: the loop goes to the newest due slot.
MutantIsNext(w, s) ==
  /\ s \in plan[w]
  /\ baseline[w] < s
  /\ s <= tick[w]
  /\ \A t \in plan[w] : t <= tick[w] => t <= s

\* s is spec.Next(baseline), and is due.  Of a schedule that names no time it is
\* the zero time, which is not after now.
IsNext(w, s) ==
  \/ plan[w] = {} /\ s = 0
  \/ /\ s \in plan[w]
     /\ baseline[w] < s
     /\ s <= tick[w]
     /\ \A t \in plan[w] : baseline[w] < t => s <= t

\* Mutant: one slot more than the limit.
MutantMayDispatch(w) == left[w] >= 0

\* for range 12
MayDispatch(w) == left[w] > 0

\* One round of dispatchCronJob's loop is over.
Advance(w, s) ==
  /\ baseline' = [baseline EXCEPT ![w] = s]
  /\ left' = [left EXCEPT ![w] = @ - 1]
  /\ cpc' = [cpc EXCEPT ![w] = "check"]

\* Mutant: the slot is not looked up.
MutantExists(s) == FALSE

\* createRunForCron: SELECT EXISTS.
Exists(s) == executions[s] > 0

CheckSlot(w, s) ==
  /\ cpc[w] = "check"
  /\ MayDispatch(w)
  /\ IsNext(w, s)
  /\ IF Exists(s) THEN Advance(w, s) /\ UNCHANGED raced
     ELSE /\ cpc' = [cpc EXCEPT ![w] = "insert"]
          /\ raced' = IF \E v \in Workers : cpc[v] = "insert" /\ IsNext(v, s)
                      THEN raced \cup {s} ELSE raced
          /\ UNCHANGED <<baseline, left>>
  /\ UNCHANGED <<now, cron, executions, tick, plan, blind, faults>>

NothingLeft(w) ==
  /\ cpc[w] = "check"
  /\ ~MayDispatch(w) \/ ~\E s \in Slots : IsNext(w, s)
  /\ EndTick(w)
  /\ UNCHANGED <<now, cron, executions, history, faults>>

\* Mutant: the job is taken to be there still.
MutantCronExists == TRUE

\* The foreign key of cron_executions.
CronExists == job # "deleted"

\* createRunForCron: the run and its execution, committed together, if the job is
\* still there.
CreateRunForCron(w, s) ==
  /\ cpc[w] = "insert"
  /\ IsNext(w, s)
  /\ IF CronExists
     THEN /\ executions' = [executions EXCEPT ![s] = @ + 1]
          /\ cpc' = [cpc EXCEPT ![w] = "wake"]
          /\ UNCHANGED <<tick, plan, baseline, left>>
     ELSE EndTick(w) /\ UNCHANGED executions
  /\ UNCHANGED <<now, cron, history, faults>>

\* The LPUSH after the commit.
Wake(w, s) ==
  /\ cpc[w] = "wake"
  /\ IsNext(w, s)
  /\ Advance(w, s)
  /\ UNCHANGED <<now, cron, executions, tick, plan, history, faults>>

\* The LPUSH fails: the job's dispatch ends for this tick.
WakeFails(w) ==
  /\ cpc[w] = "wake"
  /\ faults < MaxFaults
  /\ faults' = faults + 1
  /\ EndTick(w)
  /\ UNCHANGED <<now, cron, executions, history>>

\* A statement fails or the process dies and comes back.
Crash(w) ==
  /\ cpc[w] # "idle"
  /\ faults < MaxFaults
  /\ faults' = faults + 1
  /\ EndTick(w)
  /\ UNCHANGED <<now, cron, executions, history>>

-----------------------------------------------------------------------------
LoopStep(w) ==
  \/ DispatchDueCrons(w) \/ ScheduleFails(w) \/ ReadBaseline(w) \/ NothingLeft(w)
  \/ \E s \in Slots : CheckSlot(w, s) \/ CreateRunForCron(w, s) \/ Wake(w, s)

Next ==
  \/ TimePasses \/ UpdateCron \/ DeleteCron
  \/ \E w \in Workers : LoopStep(w) \/ WakeFails(w) \/ Crash(w)

Spec == Init /\ [][Next]_vars

\* The ticker of every worker fires and time passes.
FairSpec ==
  /\ Spec
  /\ WF_vars(TimePasses)
  /\ \A w \in Workers : WF_vars(LoopStep(w))

-----------------------------------------------------------------------------
(* Properties.                                                             *)

\* A slot is dispatched twice only if two workers had both found it free before
\* either inserted it, and even then at most once by each worker, however their
\* ticks fail and start again.
DispatchesPerSlot ==
  \A s \in Slots :
    /\ executions[s] > 1 => s \in raced
    /\ executions[s] <= Cardinality(Workers)

\* Between two dispatched slots none is left out that every schedule of the job so
\* far names, whatever is disabled, rescheduled, lost or restarted in between, unless
\* two workers both found no execution to start from: the later of them may start
\* beyond what the earlier one gets to.
SkipsNeedABlindRace ==
  \A s, u \in Slots, t \in kept :
    s < t /\ t < u /\ {s, u} \subseteq Executed
      => t \in Executed \/ Cardinality(blind) > 1

\* A job is deleted only while no slot was dispatched, and none is dispatched
\* afterwards, though a tick that listed the job may still be under way.
NoOrphanExecution == job = "deleted" => Executed = {}

\* A job that stays enabled and keeps a schedule catches up with it in the end, over
\* the slots of the time it was disabled or had none too, though a tick dispatches only
\* CatchUp slots, looks some of them up in vain, and may be cut short.
CatchesUp ==
  <>[](job = "enabled") /\ <>[][UNCHANGED schedule]_schedule
    => <>[](schedule \in Schedules => \A s \in schedule : \E t \in Executed : s <= t)
=============================================================================
