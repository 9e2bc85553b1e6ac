--------------------------- MODULE MCRunLifecycle ---------------------------
(* RunLifecycle on a small instance.                                       *)
EXTENDS RunLifecycle, TLC

CONSTANTS c1, c2, w1, w2, t1, none

TwoClients == {c1, c2}
OneClient == {c1}
TwoWorkers == {w1, w2}
OneWorker == {w1}
OneThread == {t1}

AllStrategies == {"reject", "interrupt", "rollback", "enqueue"}
AllActions == {"interrupt", "rollback"}
Usual == {"success", "error"}
ReplyPending == {"pending"}
ReplyActive == {"pending", "running"}
NoFaults == {}

Symmetric == Permutations(TwoClients) \cup Permutations(TwoWorkers)
=============================================================================
