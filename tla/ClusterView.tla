---------------------------- MODULE ClusterView ----------------------------
(***************************************************************************)
(* What the rest of a node relies on about its hash ring: it starts with   *)
(* the node alone, other nodes come and go one at a time, and the node     *)
(* itself stays for as long as it runs.                                    *)
(***************************************************************************)
CONSTANT Nodes

VARIABLES running,  \* the nodes whose process is up
          ring      \* ring[n]: the members of the hash ring of n

viewVars == <<running, ring>>

\* Nobody runs, or a cluster has formed.
ViewInit ==
  /\ running \in {{}, Nodes}
  /\ ring = [n \in Nodes |-> running]

Begin(n) ==
  /\ n \notin running
  /\ running' = running \cup {n}
  /\ ring' = [ring EXCEPT ![n] = {n}]

Learn(n, x) ==
  /\ n \in running /\ x # n
  /\ ring' = [ring EXCEPT ![n] = @ \cup {x}]
  /\ UNCHANGED running

Forget(n, x) ==
  /\ n \in running /\ x # n
  /\ ring' = [ring EXCEPT ![n] = @ \ {x}]
  /\ UNCHANGED running

End(n) ==
  /\ n \in running
  /\ running' = running \ {n}
  /\ ring' = [ring EXCEPT ![n] = {}]

ViewNext ==
  \E n \in Nodes : \/ Begin(n) \/ End(n)
                   \/ \E x \in Nodes : Learn(n, x) \/ Forget(n, x)

ViewSpec == ViewInit /\ [][ViewNext]_viewVars
=============================================================================
