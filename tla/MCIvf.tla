-------------------------------- MODULE MCIvf --------------------------------
(* Instances of Ivf for TLC.                                               *)
EXTENDS Ivf, TLC

CONSTANTS x, y, z

MCIds == {x, y, z}
Symmetry == Permutations(MCIds)
=============================================================================
