-------------------------- MODULE MCHnswCollection --------------------------
(* Instances of HnswCollection for TLC.                                    *)
EXTENDS HnswCollection, TLC

CONSTANTS a, b, v1, v2, m1, flusher

MCIds == {a, b}
MCOneId == {a}
MCOneVec == {v1}
MCTwoVecs == {v1, v2}
MCMetas == {m1}
MCNoMetas == {}
MCDrainers == {Applier, flusher}
Symmetry == Permutations(MCIds)
=============================================================================
