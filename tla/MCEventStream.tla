---------------------------- MODULE MCEventStream ----------------------------
(* EventStream on a small instance.                                        *)
EXTENDS EventStream

CONSTANTS c1, c2, none

OneClient == {c1}
TwoClients == {c1, c2}
AnyOpener == {none, c1}
NoOpener == {none}
NoFault == {}
=============================================================================
