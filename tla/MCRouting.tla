------------------------------ MODULE MCRouting ------------------------------
(* Instances of Routing for TLC.                                           *)
EXTENDS Routing, TLC

CONSTANTS a, b, c, i, j, q1, q2

MCNodes == {a, b, c}
MCHomes == {MCNodes, {a}}
MCIds == {i, j}
MCReqs == {q1, q2}
Symmetry == Permutations(MCReqs)

Apart == [slots |-> (a :> {1}) @@ (b :> {2}) @@ (c :> {3}), hash |-> (i :> 0) @@ (j :> 2),
          named |-> MCNodes]
Clash == [slots |-> (a :> {3}) @@ (b :> {1}) @@ (c :> {1, 2}), hash |-> (i :> 0) @@ (j :> 2),
          named |-> MCNodes]

\* Distinct positions; a position that b and c both claim.
MCPlacements == {Apart, Clash}

\* Every node has the default address.
MCDefault == {[Apart EXCEPT !.named = {}]}
=============================================================================
