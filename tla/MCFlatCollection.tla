-------------------------- MODULE MCFlatCollection --------------------------
(* Instances of FlatCollection for TLC.                                    *)
EXTENDS FlatCollection, TLC

CONSTANTS a, b, v1, v2, bad, k1, k2, m1

MCIds == {a, b}
MCVecs == {v1, v2}
MCBadVecs == {bad}
MCNoVecs == {}
MCWithDoc == {v1}
MCNoKeys == {}
MCMetaKeys == {k1, k2}
MCMetaValues == {m1}
IdSymmetry == Permutations(MCIds)
Symmetry == IdSymmetry \cup Permutations(MCMetaKeys)
=============================================================================
