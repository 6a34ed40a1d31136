----------------------------- MODULE MCSegmentGC -----------------------------
(* Instances of SegmentGC for TLC.                                         *)
EXTENDS SegmentGC, TLC

CONSTANTS s1, s2, r1, r2

MCSegments == {s1, s2}
MCReaders == {r1, r2}
Symmetry == Permutations(MCSegments) \cup Permutations(MCReaders)
=============================================================================
