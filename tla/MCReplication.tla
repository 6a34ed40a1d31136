---------------------------- MODULE MCReplication ----------------------------
(* Instances of Replication for TLC.                                       *)
EXTENDS Replication, TLC

CONSTANTS a, b, c, w, r

MCNodes == {a, b, c}
Symmetry == Permutations(MCNodes)
=============================================================================
