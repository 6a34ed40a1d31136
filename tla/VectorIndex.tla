----------------------------- MODULE VectorIndex -----------------------------
(***************************************************************************)
(* What the clustered indexes, IVFIndex and SPANNIndex, have in common.    *)
(***************************************************************************)
CONSTANTS Ids,   \* vector ids
          None   \* no vector, cluster or posting list

VARIABLE built   \* a rebuild has been put in place: there are posting lists
=============================================================================
