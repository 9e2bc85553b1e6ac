---- MODULE MCDeployments ----
(* Instances of Deployments for TLC. *)
EXTENDS Deployments, TLC

CONSTANTS h1, h2, i1, i2

TwoHandlers == {h1, h2}
TwoImages == {i1, i2}
Symmetric == Permutations(TwoHandlers) \cup Permutations(TwoImages)
====
