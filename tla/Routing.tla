------------------------------- MODULE Routing -------------------------------
(***************************************************************************)
(* The cluster-aware request handlers: inserts are split by ring owner and *)
(* forwarded, searches are scattered over the ring, deletes go to the      *)
(* owner, each by the ring of the node that handles the request.  A        *)
(* forwarded insert is split again by the receiver.  A search or delete    *)
(* that carries an X-Forwarded-For header is not routed: one that a node   *)
(* forwarded, and also one of a client behind a proxy that adds the header.*)
(*                                                                         *)
(* A node is called at the address it gossips, its own configured listen   *)
(* address.  One that names no host (":8080", the default) leads every     *)
(* caller back to itself.                                                  *)
(*                                                                         *)
(* The rings follow ClusterView.  One collection, with the flat index's    *)
(* refusal of duplicates; a node stores ids durably.  Distances and k are  *)
(* left out: a search returns all it finds.                                *)
(***************************************************************************)
EXTENDS ClusterView, HashRing, Sequences, FiniteSets

CONSTANTS Ids,         \* vector ids
          Reqs,        \* client requests, each made once
          None,
          Placements,  \* slots and addresses of the nodes, positions of the ids
          Homes,       \* sets of nodes that may know the collection's id
          Batch,       \* bound on the ids of an insert
          MaxHops,     \* bound on the forwards of an insert
          MaxChanges   \* bound on losses of nodes, from a ring or by a stop

Task == [req : Reqs, op : {"insert", "store", "remove", "query"}, node : Nodes,
         ids : SUBSET Ids, path : Seq(Nodes)]
Request == [op : {"insert", "delete", "search"}, at : Nodes, status : {"busy", "ok", "error"},
            marked : BOOLEAN, failed : BOOLEAN, found : SUBSET Ids, sure : SUBSET Ids,
            ids : SUBSET Ids]

ASSUME RoutingAssumption ==
  /\ IsFiniteSet(Nodes) /\ Nodes # {} /\ None \notin Request
  /\ Placements \subseteq [slots : [Nodes -> (SUBSET Positions) \ {{}}], hash : [Ids -> Positions],
                     named : SUBSET Nodes]
  /\ Homes \subseteq SUBSET Nodes /\ Batch \in Nat \ {0} /\ MaxHops \in Nat /\ MaxChanges \in Nat

VARIABLES place,    \* the hash values of this behaviour, and the nodes whose address names their host
          map,      \* map[n]: HashRing.nodeMap of n
          has,      \* nodes that know the collection by the id the clients use
          stored,   \* stored[n]: ids in the index of n
          tasks,    \* work of requests in progress: forwards and local calls
          reqs,     \* the request of each client, or None
          live,     \* history: acknowledged inserts with no delete requested since
          settled,  \* history: every id has had one owner so far, on all running nodes
          changes   \* nodes lost so far

view == <<running, ring, map, settled, changes>>
vars == <<view, place, has, stored, tasks, reqs, live>>

\* GetNodeForVector, on the ring of n.
Owner(n, i) == GetNode(map[n], place.hash[i])

\* GetAddress: the node that a call of n to the address of x arrives at.
Host(n, x) == IF x \in place.named THEN x ELSE n

\* path: the nodes that have handled the work, the one it is at included.
NewTask(r, op, n, B, path) == [req |-> r, op |-> op, node |-> n, ids |-> B, path |-> path]
\* The work of n's request for x: a local call, or a forward.
Call(r, op, n, x, B) ==
  IF x = n THEN NewTask(r, op, n, B, <<n>>)
  ELSE NewTask(r, op, Host(n, x), B, <<n, Host(n, x)>>)

Remote(t) == Len(t.path) > 1

Failed(R) == [r \in Reqs |-> IF r \in R THEN [reqs[r] EXCEPT !.failed = TRUE] ELSE reqs[r]]

-----------------------------------------------------------------------------
(* Ring changes.                                                           *)

\* Some node runs, and every node that runs has the owners that those that ran
\* before had.
Steady(newMap) ==
  /\ running' # {}
  /\ \A n \in running, m \in running' : \A i \in Ids :
       GetNode(newMap[m], place.hash[i]) = Owner(n, i)

\* The rings become newMap; k counts the nodes lost.
Changing(newMap, k) ==
  /\ changes + k <= MaxChanges
  /\ changes' = changes + k
  /\ map' = newMap
  /\ settled' = (settled /\ Steady(newMap))

Joined(n, x) ==
  /\ Learn(n, x) /\ x \notin ring[n]
  /\ Changing([map EXCEPT ![n] = RingAdd(@, place.slots, x)], 0)
  /\ UNCHANGED <<place, has, stored, tasks, reqs, live>>

Gone(n, x) ==
  /\ Forget(n, x) /\ x \in ring[n]
  /\ Changing([map EXCEPT ![n] = RingRemove(@, x)], 1)
  /\ UNCHANGED <<place, has, stored, tasks, reqs, live>>

\* The process of n ends, with the requests and calls it was serving.
Down(n) ==
  /\ End(n)
  /\ Changing([map EXCEPT ![n] = EmptyRing], 1)
  /\ tasks' = {t \in tasks : t.node # n}
  /\ LET lost == {t.req : t \in {u \in tasks : u.node = n}} IN
       reqs' = [r \in Reqs |->
                 IF reqs[r] # None /\ reqs[r].status = "busy" /\ reqs[r].at = n
                 THEN [reqs[r] EXCEPT !.status = "error"]
                 ELSE IF r \in lost THEN [reqs[r] EXCEPT !.failed = TRUE] ELSE reqs[r]]
  /\ UNCHANGED <<place, has, stored, live>>

Up(n) ==
  /\ Begin(n)
  /\ Changing([map EXCEPT ![n] = RingAdd(EmptyRing, place.slots, n)], 0)
  /\ UNCHANGED <<place, has, stored, tasks, reqs, live>>

-----------------------------------------------------------------------------
(* Requests of clients.  A node that does not know the collection id       *)
(* answers 404 at once.                                                    *)

\* marked: the request carries an X-Forwarded-For header.
NewRequest(op, n, marked, B, sure) ==
  [op |-> op, at |-> n, status |-> "busy", marked |-> marked, failed |-> FALSE,
   found |-> {}, sure |-> sure, ids |-> B]

Open(r, op, n, marked, B, sure) ==
  /\ reqs[r] = None /\ n \in running \cap has
  /\ reqs' = [reqs EXCEPT ![r] = NewRequest(op, n, marked, B, sure)]

Removing == UNION {t.ids : t \in {u \in tasks : u.op = "remove"}}

\* An insert is routed whether it is marked or not.
Insert(r, n, B) ==
  /\ Open(r, "insert", n, FALSE, B, B \ Removing)
  /\ tasks' = tasks \cup {NewTask(r, "insert", n, B, <<n>>)}
  /\ UNCHANGED <<view, place, has, stored, live>>

\* DeleteVectorScoped sends the delete to the owner of the id, unless it is
\* marked; from here on no other request may count on the id.
Delete(r, n, marked, i) ==
  /\ n \in running \cap has /\ reqs[r] = None
  /\ reqs' = [q \in Reqs |->
       IF q = r THEN NewRequest("delete", n, marked, {i}, {})
       ELSE IF reqs[q] = None \/ reqs[q].status # "busy" THEN reqs[q]
       ELSE [reqs[q] EXCEPT !.sure = @ \ {i}]]
  /\ live' = live \ {i}
  /\ tasks' = tasks \cup {Call(r, "remove", n, IF marked THEN n ELSE Owner(n, i), {i})}
  /\ UNCHANGED <<view, place, has, stored>>

\* Mutant of Search: only the local node is asked.
SearchLocal(r, n, marked) ==
  /\ Open(r, "search", n, marked, {}, live)
  /\ tasks' = tasks \cup {Call(r, "query", n, n, {})}
  /\ UNCHANGED <<view, place, has, stored, live>>

\* SearchVectorsScoped asks every node of the ring, or this node only when the
\* search is marked.
Search(r, n, marked) ==
  /\ Open(r, "search", n, marked, {}, live)
  /\ tasks' = tasks \cup {Call(r, "query", n, x, {}) : x \in IF marked THEN {n} ELSE ring[n]}
  /\ UNCHANGED <<view, place, has, stored, live>>

-----------------------------------------------------------------------------
(* The work of a request.                                                  *)

\* Mutant of BucketVectors: everything is kept where the request came in.
BucketVectorsLocal(n, B) == [x \in Nodes |-> IF x = n THEN B ELSE {}]

\* BucketVectors: the ids of the batch by owner.
BucketVectors(n, B) == [x \in Nodes |-> {i \in B : Owner(n, i) = x}]

\* A forward arrives at a running node that knows the collection.
Reachable(t) == t.node \in running \cap has

\* InsertVectorsScoped: one local call or forward for every bucket.
Split(t) ==
  /\ t \in tasks /\ t.op = "insert" /\ Reachable(t) /\ Len(t.path) <= MaxHops
  /\ LET bucket == BucketVectors(t.node, t.ids) IN
       tasks' = (tasks \ {t}) \cup
         {IF x = t.node THEN NewTask(t.req, "store", x, bucket[x], t.path)
          ELSE NewTask(t.req, "insert", Host(t.node, x), bucket[x], Append(t.path, Host(t.node, x))) :
            x \in {y \in Nodes : bucket[y] # {}}}
  /\ UNCHANGED <<view, place, has, stored, reqs, live>>

\* Mutant of Store: a duplicate ends the batch without an error.
StoreQuiet(t) ==
  /\ t \in tasks /\ t.op = "store"
  /\ \E part \in SUBSET (t.ids \ stored[t.node]) :
       /\ t.ids \cap stored[t.node] = {} => part = t.ids
       /\ stored' = [stored EXCEPT ![t.node] = @ \cup part]
  /\ tasks' = tasks \ {t}
  /\ UNCHANGED <<view, place, has, reqs, live>>

\* Manager.InsertVectors: refused at the first duplicate, what came before it
\* in the batch stays.
Store(t) ==
  /\ t \in tasks /\ t.op = "store"
  /\ \E part \in SUBSET (t.ids \ stored[t.node]) :
       /\ t.ids \cap stored[t.node] = {} => part = t.ids
       /\ stored' = [stored EXCEPT ![t.node] = @ \cup part]
  /\ reqs' = IF t.ids \cap stored[t.node] = {} THEN reqs ELSE Failed({t.req})
  /\ tasks' = tasks \ {t}
  /\ UNCHANGED <<view, place, has, live>>

\* Manager.DeleteVector on the node the delete was sent to.
Remove(t) ==
  /\ t \in tasks /\ t.op = "remove" /\ Reachable(t)
  /\ stored' = [stored EXCEPT ![t.node] = @ \ t.ids]
  /\ reqs' = IF t.ids \subseteq stored[t.node] THEN reqs ELSE Failed({t.req})
  /\ tasks' = tasks \ {t}
  /\ UNCHANGED <<view, place, has, live>>

Query(t) ==
  /\ t \in tasks /\ t.op = "query" /\ Reachable(t)
  /\ reqs' = [reqs EXCEPT ![t.req].found = @ \cup stored[t.node]]
  /\ tasks' = tasks \ {t}
  /\ UNCHANGED <<view, place, has, stored, live>>

\* A call that finds nobody, or no such collection, ends with an error.
Refused(t) ==
  /\ t \in tasks /\ t.op # "store" /\ ~Reachable(t)
  /\ tasks' = tasks \ {t}
  /\ reqs' = Failed({t.req})
  /\ UNCHANGED <<view, place, has, stored, live>>

\* The forwarder's timeout: the request goes on as failed, the call as well.
TimeOut(t) ==
  /\ t \in tasks /\ Remote(t) /\ ~reqs[t.req].failed
  /\ reqs' = Failed({t.req})
  /\ UNCHANGED <<view, place, has, stored, tasks, live>>

\* The answer, when every goroutine has returned.  A search fails only if
\* it has an error and no result.
Reply(r) ==
  /\ reqs[r] # None /\ reqs[r].status = "busy"
  /\ \A t \in tasks : t.req = r => reqs[r].failed /\ Remote(t)
  /\ LET q == reqs[r]
         ok == ~q.failed \/ (q.op = "search" /\ q.found # {})
     IN /\ reqs' = [reqs EXCEPT ![r].status = IF ok THEN "ok" ELSE "error"]
        /\ live' = IF q.op = "insert" /\ ok THEN live \cup q.sure ELSE live
  /\ UNCHANGED <<view, place, has, stored, tasks>>

-----------------------------------------------------------------------------

\* A formed cluster: each node added itself first and then the others.
Orders == {o \in [1..Cardinality(Nodes) -> Nodes] : \A n \in Nodes : \E k \in DOMAIN o : o[k] = n}
Built(o) ==
  LET after[k \in 0..Cardinality(Nodes)] ==
        IF k = 0 THEN EmptyRing ELSE RingAdd(after[k - 1], place.slots, o[k])
  IN after[Cardinality(Nodes)]

\* The collection has one id on all nodes when they were set up from one data
\* directory.  When gossip created it, every node made an id of its own, and
\* only the node of the creator knows the one the clients use.
Init ==
  /\ ViewInit /\ running = Nodes
  /\ place \in Placements
  /\ map \in [Nodes -> {Built(o) : o \in Orders}]
  /\ \A n \in Nodes : \E o \in Orders : o[1] = n /\ map[n] = Built(o)
  /\ has \in Homes
  /\ stored = [n \in Nodes |-> {}]
  /\ tasks = {} /\ reqs = [r \in Reqs |-> None]
  /\ live = {} /\ changes = 0
  /\ settled = (\A m, n \in Nodes : \A i \in Ids : Owner(m, i) = Owner(n, i))

Batches == {B \in SUBSET Ids : B # {} /\ Cardinality(B) <= Batch}

Next ==
  \/ \E n \in Nodes : \/ Down(n) \/ Up(n) \/ \E x \in Nodes : Joined(n, x) \/ Gone(n, x)
  \/ \E r \in Reqs, n \in Nodes : \/ \E B \in Batches : Insert(r, n, B)
                                  \/ \E marked \in BOOLEAN :
                                       \/ \E i \in Ids : Delete(r, n, marked, i)
                                       \/ Search(r, n, marked)
  \/ \E t \in tasks : \/ Split(t) \/ Store(t) \/ Remove(t) \/ Query(t)
                      \/ Refused(t) \/ TimeOut(t)
  \/ \E r \in Reqs : Reply(r)

Spec == Init /\ [][Next]_vars

-----------------------------------------------------------------------------

TypeOK ==
  /\ running \in SUBSET Nodes /\ ring \in [Nodes -> SUBSET Nodes]
  /\ place \in Placements /\ has \in SUBSET Nodes
  /\ \A n \in Nodes : DOMAIN map[n] \subseteq Positions /\ \A p \in DOMAIN map[n] : map[n][p] \in ring[n]
  /\ stored \in [Nodes -> SUBSET Ids]
  /\ tasks \in SUBSET Task
  /\ reqs \in [Reqs -> Request \cup {None}]
  /\ live \in SUBSET Ids /\ settled \in BOOLEAN /\ changes \in 0..MaxChanges

\* No forwarded insert comes back to a node that has handled it: what the
\* X-Forwarded-For mark is set for (forwarder.go:81).
NeverBack ==
  \A t \in tasks : t.op \in {"insert", "store"} =>
    \A j, k \in 1..Len(t.path) : t.path[j] = t.path[k] => j = k

\* When every node gossips an address that names its host, no forwarded insert
\* comes back to a node that has handled it, although every node splits it again
\* by its own ring, the rings differ and change, and nothing reads the mark of
\* an insert: each hop is closer to the id (InsertVectorsScoped).
NoForwardLoop == place.named = Nodes => NeverBack

\* While the nodes agree on the owners and these stay, an id is stored on its
\* owner only, so that the owner's delete removes it for good: with refused and
\* timed-out forwards, retries and inserts that failed half way
\* (DeleteVectorScoped).
StoredAtOwner ==
  settled => \A n \in Nodes : \A i \in stored[n] : \A m \in running : Owner(m, i) = n

\* What was acknowledged is stored somewhere, over any ring change, partial
\* failure and timeout, until a delete of it is requested (InsertVectorsScoped).
AckedStored == \A i \in live : \E n \in Nodes : i \in stored[n]

\* While the nodes agree on the owners and these stay, and every address names
\* its host, a search that carried no X-Forwarded-For header and had no error
\* returns every id that was acknowledged before it started and not deleted
\* since (SearchVectorsScoped).
SearchFindsAcked ==
  settled /\ place.named = Nodes => \A r \in Reqs :
    reqs[r] # None /\ reqs[r].op = "search" /\ reqs[r].status = "ok"
      /\ ~reqs[r].marked /\ ~reqs[r].failed
      => reqs[r].sure \subseteq reqs[r].found
=============================================================================
