----------------------------- MODULE MCRecovery -----------------------------
(* Instances of Recovery for TLC.                                          *)
EXTENDS Recovery

CONSTANTS h, f,  \* an hnsw and a flat collection
          a,     \* a vector id
          v      \* a vector

MCCols == {h, f}
MCHnsw == {h}
MCIds == {a}
MCVecs == {v}
=============================================================================
