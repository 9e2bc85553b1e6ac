---------------------------- MODULE MCOwnership ----------------------------
(* Two deployments of one project and one of another, each with its        *)
(* assistant, a thread of the first, a build of the second                 *)
EXTENDS Ownership, TLC

CONSTANTS h1, h2, p1, p2, d1, d2, d3, b2, a1, a2, a3, t1, s1, r1, r2, c1, x1, v1

MCHandlers == {h1, h2}
MCProjects == {p1, p2}
MCDeployments == {d1, d2, d3}
MCAssistants == {a1, a2, a3}
MCRuns == {r1, r2}
MCProjectOf == d1 :> p1 @@ d2 :> p1 @@ d3 :> p2
MCFirstOwners == d1 :> {} @@ d2 :> {} @@ d3 :> {} @@ b2 :> {d2}
                   @@ a1 :> {d1} @@ a3 :> {d3} @@ t1 :> {a1}
MCFirstRows == DOMAIN MCFirstOwners
Symmetry == Permutations(MCHandlers) \cup Permutations(MCRuns)
=============================================================================
