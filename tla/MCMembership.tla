---------------------------- MODULE MCMembership ----------------------------
(* Instances of Membership for TLC.                                        *)
EXTENDS Membership, TLC

CONSTANTS a, b, c

MCNodes == {a, b, c}

\* A cycle of seed lists: every event needs two hops, and comes back.
MCPeers == (a :> {b}) @@ (b :> {c}) @@ (c :> {a})
=============================================================================
