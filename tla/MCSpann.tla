------------------------------- MODULE MCSpann -------------------------------
(* Instances of Spann for TLC.                                             *)
EXTENDS Spann, TLC

CONSTANTS x, y, z, v, w

MCIds == {x, y, z}
MCVectors == {v, w}
Symmetry == Permutations(MCIds) \cup Permutations(MCVectors)
=============================================================================
