------------------------------- MODULE MCS3Log -------------------------------
(* Instances of S3Log for TLC.                                             *)
EXTENDS S3Log, TLC

CONSTANTS w, p, q

MCReaders == {p, q}
MCClients == {w, p, q}
Symmetry == Permutations(MCReaders)
=============================================================================
