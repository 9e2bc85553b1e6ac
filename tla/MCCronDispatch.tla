--------------------------- MODULE MCCronDispatch ---------------------------
(* CronDispatch on a small instance: an irregular schedule and a sparse    *)
(* one, whose last slots are within the lag of the end of time, and one    *)
(* that names no time.                                                     *)
EXTENDS CronDispatch

CONSTANTS w1, w2

TwoWorkers == {w1, w2}
ThreeSchedules == {{1, 2, 3}, {2, 3}, {}}
=============================================================================
