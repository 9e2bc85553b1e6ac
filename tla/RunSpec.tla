------------------------------ MODULE RunSpec ------------------------------
(***************************************************************************)
(* What the platform promises about one row of the runs table, whoever     *)
(* touches it: the API server, any number of workers, the cron loop.       *)
(* A run is submitted once, started once and once more for every execution *)
(* that ended with the run pending again, gets the outcome of an execution *)
(* only if one was started, may be interrupted or removed at any time, and *)
(* a removed run never comes back.                                         *)
(*                                                                         *)
(* One transaction of the program may move two runs (a create request that *)
(* interrupts or removes the run it replaces), so a step moves every run   *)
(* by its own transition or leaves it alone.                               *)
(***************************************************************************)
EXTENDS Naturals

CONSTANTS
  RunIds,    \* identities of runs
  Outcomes   \* statuses an execution may record

VARIABLES
  state,     \* state[r]: status column, or "absent" / "deleted" when there is no row
  starts,    \* starts[r]: how often r was handed to a worker
  returns    \* returns[r]: how many of its executions made it pending again

vars == <<state, starts, returns>>

Exists(r) == state[r] \notin {"absent", "deleted"}

Init ==
  /\ state = [r \in RunIds |-> "absent"]
  /\ starts = [r \in RunIds |-> 0]
  /\ returns = [r \in RunIds |-> 0]

SameStarts(r) == starts'[r] = starts[r]
SameReturns(r) == returns'[r] = returns[r]

Submit(r) ==
  /\ state[r] = "absent"
  /\ state'[r] = "pending"
  /\ SameStarts(r) /\ SameReturns(r)

\* Of the executions started so far all have made the run pending again.
Start(r) ==
  /\ state[r] = "pending"
  /\ starts[r] = returns[r]
  /\ state'[r] = "running"
  /\ starts'[r] = starts[r] + 1
  /\ SameReturns(r)

Record(r) ==
  /\ Exists(r)
  /\ starts[r] > 0
  /\ state'[r] \in Outcomes \ {"pending"}
  /\ SameStarts(r) /\ SameReturns(r)

\* The one execution that has not done so yet makes the run pending again.
Return(r) ==
  /\ Exists(r)
  /\ starts[r] = returns[r] + 1
  /\ "pending" \in Outcomes
  /\ state'[r] = "pending"
  /\ returns'[r] = returns[r] + 1
  /\ SameStarts(r)

Interrupt(r) ==
  /\ Exists(r)
  /\ state'[r] = "interrupted"
  /\ SameStarts(r) /\ SameReturns(r)

Remove(r) ==
  /\ Exists(r)
  /\ state'[r] = "deleted"
  /\ SameStarts(r) /\ SameReturns(r)

Keep(r) ==
  /\ state'[r] = state[r]
  /\ SameStarts(r) /\ SameReturns(r)

RunStep(r) ==
  \/ Submit(r) \/ Start(r) \/ Record(r) \/ Return(r) \/ Interrupt(r) \/ Remove(r)

Next == \A r \in RunIds : RunStep(r) \/ Keep(r)

Spec == Init /\ [][Next]_vars
============================================================================
