--------------------------- MODULE HnswCollection ---------------------------
(***************************************************************************)
(* One collection backed by the HNSW index, while the process is up:       *)
(* InsertVectors, DeleteVector and SearchVectors against the dirty buffer, *)
(* the graph, the metadata rows and the bitmap index, with the background  *)
(* applier and Flush/Rebuild draining the buffer concurrently.             *)
(*                                                                         *)
(* Locks.  col.mu: one writer, or searches; it is held while writer.pc or  *)
(* search.pc is not "idle".  dirtyMu and the bitmap's mutex are never held *)
(* across a call that takes another lock, so each of their sections is one *)
(* step.  h.mu is the variable mu; a drain holds it for its whole batch,   *)
(* readers use it for one step.                                            *)
(*                                                                         *)
(* The graph's layers and edges are left out.  With no more nodes than the *)
(* pruning limit the bottom layer is connected, so an unfiltered search    *)
(* walks over as many nodes as its beam holds, whichever they are, unless  *)
(* its visited tracker is new or its context ends; deleted nodes take      *)
(* places in the beam.  A filtered search only crosses matching nodes and  *)
(* returns the entry point with any matching nodes it can reach.  The cut  *)
(* to the k best is left out.                                              *)
(***************************************************************************)
EXTENDS Integers, Sequences, FiniteSets

CONSTANTS Ids,         \* vector ids
          Vecs,        \* vectors of the collection's dimension
          Metas,       \* per-vector metadata, one field
          None,        \* no metadata, or no filter
          Drainers,    \* goroutines that drain the buffer
          Applier,     \* the background applier, one of them
          Ef,          \* beam width of a search
          MaxOps,      \* bound on InsertVectors and DeleteVector calls
          MaxRebuilds  \* bound on Rebuild calls

ASSUME ConstantsAssumption ==
  /\ None \notin Metas
  /\ Applier \in Drainers
  /\ "free" \notin Drainers
  /\ Ef \in Nat \ {0}
  /\ MaxOps \in Nat /\ MaxRebuilds \in Nat

Insertion == [id : Ids, vec : Vecs]

VARIABLES dirty,     \* the buffer of pending inserts
          nodes,     \* id of each graph node
          slab,      \* vectors in the order they were added to the graph
          idToNode,  \* node of an id, 0 when there is none
          deleted,   \* soft-deleted nodes
          mu,        \* the drainer that holds h.mu, or "free"
          drain,     \* the progress of each drainer
          writer,    \* the write that holds col.mu
          search,    \* the search that holds col.mu for reading
          result,    \* the last answered search
          meta,      \* SysDB vector_metadata
          bits,      \* bitmap index: pairs of metadata and node
          present,   \* history: ids inserted and not deleted since
          given,     \* history: vectors inserted under each id
          ops,       \* calls so far
          rebuilds   \* Rebuild calls so far

graph == <<nodes, slab, idToNode, deleted>>
vars == <<dirty, graph, mu, drain, writer, search, result, meta, bits, present,
          given, ops, rebuilds>>

IdsOf(s) == {s[n].id : n \in 1..Len(s)}
IdleDrain == [pc |-> "idle", batch |-> <<>>, drained |-> {}, rebuild |-> FALSE]
IdleWriter == [pc |-> "idle", id |-> None, meta |-> None]
IdleSearch == [pc |-> "idle", filter |-> None, path |-> "plain", allowed |-> {}, found |-> {},
               inflight |-> {}]

\* Nodes that are not soft-deleted, and whether an id has one.
Live == {n \in 1..Len(nodes) : n \notin deleted}
IsLive(i) == idToNode[i] \in Live

\* Ids taken out of the buffer by a drain and not applied yet.
InFlight == UNION {IdsOf(drain[d].batch) : d \in Drainers}

-----------------------------------------------------------------------------
(* InsertVectors and DeleteVector, without the log.                        *)

ColMuFree == writer.pc = "idle" /\ search.pc = "idle"

\* A SysDB call that fails is logged and the write goes on.
SaveVectorMetadata(i, m) ==
  \/ meta' = IF m = None THEN meta ELSE [meta EXCEPT ![i] = m]
  \/ meta' = meta
DeleteVectorMetadata(i) == meta' = [meta EXCEPT ![i] = None] \/ meta' = meta

\* HNSWIndex.Insert only appends to the buffer.
InsertBuffer(i, v, m) ==
  /\ ColMuFree /\ ops < MaxOps
  /\ dirty' = Append(dirty, [id |-> i, vec |-> v])
  /\ writer' = [pc |-> "inserted", id |-> i, meta |-> m]
  /\ present' = present \cup {i}
  /\ given' = [given EXCEPT ![i] = @ \cup {v}]
  /\ ops' = ops + 1
  /\ UNCHANGED <<graph, mu, drain, search, result, meta, bits, rebuilds>>

\* SaveVectorMetadata when metadata is given, then idx.Len, which reads h.mu.
InsertFinish ==
  /\ writer.pc = "inserted" /\ mu = "free"
  /\ SaveVectorMetadata(writer.id, writer.meta)
  /\ writer' = IdleWriter
  /\ UNCHANGED <<dirty, graph, mu, drain, search, result, bits, present, given, ops, rebuilds>>

\* Mutant of DeleteGraph: the lookup's miss is not checked.
DeleteGraphUnchecked(i) ==
  /\ ColMuFree /\ ops < MaxOps /\ mu = "free"
  /\ deleted' = deleted \cup {idToNode[i]}
  /\ writer' = [pc |-> "deleted", id |-> i, meta |-> None]
  /\ present' = present \ {i}
  /\ ops' = ops + 1
  /\ UNCHANGED <<dirty, nodes, slab, idToNode, mu, drain, search, result, meta, bits,
                 given, rebuilds>>

\* HNSWIndex.Delete looks in the graph only: an id that is still in the
\* buffer is not found, and an id deleted before is deleted again.
DeleteGraph(i) ==
  /\ ColMuFree /\ ops < MaxOps /\ mu = "free"
  /\ idToNode[i] # 0
  /\ deleted' = deleted \cup {idToNode[i]}
  /\ writer' = [pc |-> "deleted", id |-> i, meta |-> None]
  /\ present' = present \ {i}
  /\ ops' = ops + 1
  /\ UNCHANGED <<dirty, nodes, slab, idToNode, mu, drain, search, result, meta, bits,
                 given, rebuilds>>

DeleteFinish ==
  /\ writer.pc = "deleted" /\ mu = "free"
  /\ DeleteVectorMetadata(writer.id)
  /\ writer' = IdleWriter
  /\ UNCHANGED <<dirty, graph, mu, drain, search, result, bits, present, given, ops, rebuilds>>

-----------------------------------------------------------------------------
(* drainDirtyBuffer, OnDrain and Rebuild.                                  *)

\* Mutant of DrainTake: a single pending insert is left in the buffer.
DrainTakeLazy(d, rebuild) ==
  /\ drain[d].pc = "idle"
  /\ ~rebuild /\ Len(dirty) > 1
  /\ drain' = [drain EXCEPT ![d] = [pc |-> "taken", batch |-> dirty, drained |-> {},
                                    rebuild |-> rebuild]]
  /\ dirty' = <<>>
  /\ UNCHANGED <<graph, mu, writer, search, result, meta, bits, present, given, ops, rebuilds>>

\* Take the whole buffer under dirtyMu.  The applier only drains; Flush also
\* only drains; Rebuild drains first, whether or not there is something.
DrainTake(d, rebuild) ==
  /\ drain[d].pc = "idle"
  /\ IF rebuild THEN d # Applier /\ rebuilds < MaxRebuilds ELSE dirty # <<>>
  /\ drain' = [drain EXCEPT ![d] = [pc |-> IF dirty = <<>> THEN "rebuild" ELSE "taken",
                                    batch |-> dirty, drained |-> {}, rebuild |-> rebuild]]
  /\ dirty' = <<>>
  /\ rebuilds' = IF rebuild THEN rebuilds + 1 ELSE rebuilds
  /\ UNCHANGED <<graph, mu, writer, search, result, meta, bits, present, given, ops>>

DrainLock(d) ==
  /\ drain[d].pc = "taken" /\ mu = "free"
  /\ mu' = d
  /\ drain' = [drain EXCEPT ![d].pc = "apply"]
  /\ UNCHANGED <<dirty, graph, writer, search, result, meta, bits, present, given, ops, rebuilds>>

\* Mutants of Duplicate: no id is refused, or a deleted one is refused too.
NeverDuplicate(i) == FALSE
DuplicateOrDeleted(i) == idToNode[i] # 0

Duplicate(i) == IsLive(i)

\* insertLocked of the next entry: a live id is refused, a deleted or new id
\* gets a new node.
DrainApply(d) ==
  /\ drain[d].pc = "apply" /\ drain[d].batch # <<>>
  /\ LET e == Head(drain[d].batch)
         n == Len(nodes) + 1
     IN IF Duplicate(e.id)
        THEN /\ UNCHANGED graph
             /\ drain' = [drain EXCEPT ![d].batch = Tail(@)]
        ELSE /\ nodes' = Append(nodes, e.id)
             /\ slab' = Append(slab, e.vec)
             /\ idToNode' = [idToNode EXCEPT ![e.id] = n]
             /\ deleted' = deleted
             /\ drain' = [drain EXCEPT ![d].batch = Tail(@),
                                       ![d].drained = @ \cup {<<e.id, n>>}]
  /\ UNCHANGED <<dirty, mu, writer, search, result, meta, bits, present, given, ops, rebuilds>>

DrainUnlock(d) ==
  /\ drain[d].pc = "apply" /\ drain[d].batch = <<>>
  /\ mu' = "free"
  /\ drain' = [drain EXCEPT ![d].pc = "notify"]
  /\ UNCHANGED <<dirty, graph, writer, search, result, meta, bits, present, given, ops, rebuilds>>

\* OnDrain: the metadata of each drained id is read now, and a bit set for
\* its node when there is some.
DrainNotify(d) ==
  /\ drain[d].pc = "notify"
  /\ \E p \in drain[d].drained :
       /\ bits' = IF meta[p[1]] = None THEN bits ELSE bits \cup {<<meta[p[1]], p[2]>>}
       /\ drain' = [drain EXCEPT ![d].drained = @ \ {p}]
  /\ UNCHANGED <<dirty, graph, mu, writer, search, result, meta, present, given, ops, rebuilds>>

DrainEnd(d) ==
  /\ drain[d].pc = "notify" /\ drain[d].drained = {}
  /\ drain' = [drain EXCEPT ![d] = IF drain[d].rebuild THEN [@ EXCEPT !.pc = "rebuild"]
                                   ELSE IdleDrain]
  /\ UNCHANGED <<dirty, graph, mu, writer, search, result, meta, bits, present, given, ops, rebuilds>>

\* The live nodes, in order, numbered from 1.
LiveOrder ==
  {f \in UNION {[1..m -> Live] : m \in 0..Len(nodes)} :
     /\ \A j, k \in DOMAIN f : j < k => f[j] < f[k]
     /\ \A n \in Live : \E k \in DOMAIN f : f[k] = n}

\* Rebuild under h.mu: nodes, map and deleted set start afresh and every live
\* node is inserted again; the vector slab and its offsets are not reset.
RebuildGraph(d) ==
  /\ drain[d].pc = "rebuild" /\ mu = "free"
  /\ IF deleted = {} THEN UNCHANGED graph
     ELSE \E f \in LiveOrder :
            /\ nodes' = [k \in DOMAIN f |-> nodes[f[k]]]
            /\ slab' = slab \o [k \in DOMAIN f |-> slab[f[k]]]
            /\ idToNode' = [i \in Ids |-> IF \E k \in DOMAIN f : nodes[f[k]] = i
                                          THEN CHOOSE k \in DOMAIN f : nodes[f[k]] = i
                                          ELSE 0]
            /\ deleted' = {}
  /\ drain' = [drain EXCEPT ![d] = IdleDrain]
  /\ UNCHANGED <<dirty, mu, writer, search, result, meta, bits, present, given, ops, rebuilds>>

-----------------------------------------------------------------------------
(* SearchVectors: the path is chosen and the buffer read first, then the   *)
(* graph under h.mu.                                                       *)

\* Resolve: a copy of the filter's bitmap.
Resolve(m) == {p[2] : p \in {q \in bits : q[1] = m}}
ValidIds(m) == {i \in Ids : meta[i] = m}

SearchPath(m) ==
  IF m = None THEN "plain"
  ELSE IF Resolve(m) # {} THEN "bitmap"
  ELSE IF ValidIds(m) # {} THEN "ids"
  ELSE "post"

\* Mutant of SearchBuffer: the buffer is not searched.
SearchBufferSkipped(m) ==
  /\ ColMuFree
  /\ search' = [pc |-> "graph", filter |-> m, path |-> SearchPath(m), allowed |-> Resolve(m),
                inflight |-> InFlight, found |-> {}]
  /\ UNCHANGED <<dirty, graph, mu, drain, writer, result, meta, bits, present, given, ops, rebuilds>>

\* The buffer is filtered by id on the map path and not at all on the others.
DirtyResults(m) ==
  IF SearchPath(m) = "ids" THEN IdsOf(dirty) \cap ValidIds(m) ELSE IdsOf(dirty)

SearchBuffer(m) ==
  /\ ColMuFree
  /\ search' = [pc |-> "graph", filter |-> m, path |-> SearchPath(m), allowed |-> Resolve(m),
                inflight |-> InFlight, found |-> DirtyResults(m)]
  /\ UNCHANGED <<dirty, graph, mu, drain, writer, result, meta, bits, present, given, ops, rebuilds>>

\* Answers of a search that crosses only the nodes of s, whatever the edges:
\* the entry point and some of s, deleted or not.
Crossing(s) ==
  IF nodes = <<>> THEN {{}}
  ELSE {{nodes[n] : n \in t \cup {e}} : t \in SUBSET s, e \in 1..Len(nodes)}

\* The nodes searchLayer ends up with.  A tracker that the pool has just made
\* has generation 0 for every node and for itself, so all neighbours count as
\* visited; with a used one the beam fills up; a context that ends stops it.
FreshWalks == {{e} : e \in 1..Len(nodes)}
BeamWalks ==
  {w \in SUBSET (1..Len(nodes)) :
     Cardinality(w) = IF Ef < Len(nodes) THEN Ef ELSE Len(nodes)}
CutWalks == {w \in SUBSET (1..Len(nodes)) : w # {} /\ Cardinality(w) <= Ef}

\* The answer to a walk leaves deleted nodes out.
WalkResult(w, cut) ==
  [ids |-> {nodes[n] : n \in w \ deleted}, unreached |-> {nodes[n] : n \in Live \ w}, cut |-> cut]

PlainResults ==
  {WalkResult(w, FALSE) : w \in FreshWalks \cup BeamWalks}
  \cup {WalkResult(w, TRUE) : w \in CutWalks}

\* What the graph adds on each path.
GraphResults ==
  CASE search.path \in {"plain", "post"} -> PlainResults
    [] search.path = "bitmap" ->
         {[ids |-> g, unreached |-> {}, cut |-> FALSE] :
            g \in Crossing(search.allowed \cap 1..Len(nodes))}
    [] search.path = "ids" ->
         {[ids |-> g, unreached |-> {}, cut |-> FALSE] :
            g \in Crossing({n \in 1..Len(nodes) : nodes[n] \in ValidIds(search.filter)})}

SearchGraph ==
  /\ search.pc = "graph" /\ mu = "free"
  /\ \E g \in GraphResults :
       LET ids == search.found \cup g.ids
           kept == IF search.path = "post" THEN ids \cap ValidIds(search.filter) ELSE ids
       IN result' = [path |-> search.path, ids |-> kept, missed |-> present \ kept,
                     ghosts |-> {i \in kept : i \notin present},
                     inflight |-> search.inflight, unreached |-> g.unreached, cut |-> g.cut]
  /\ search' = IdleSearch
  /\ UNCHANGED <<dirty, graph, mu, drain, writer, meta, bits, present, given, ops, rebuilds>>

-----------------------------------------------------------------------------

Init ==
  /\ dirty = <<>> /\ nodes = <<>> /\ slab = <<>>
  /\ idToNode = [i \in Ids |-> 0] /\ deleted = {}
  /\ mu = "free" /\ drain = [d \in Drainers |-> IdleDrain]
  /\ writer = IdleWriter /\ search = IdleSearch
  /\ result = [path |-> "none", ids |-> {}, missed |-> {}, ghosts |-> {}, inflight |-> {},
               unreached |-> {}, cut |-> FALSE]
  /\ meta = [i \in Ids |-> None] /\ bits = {}
  /\ present = {} /\ given = [i \in Ids |-> {}] /\ ops = 0 /\ rebuilds = 0

DrainStep(d) ==
  \/ DrainLock(d) \/ DrainApply(d) \/ DrainUnlock(d) \/ DrainNotify(d) \/ DrainEnd(d)
  \/ RebuildGraph(d)

Next ==
  \/ \E i \in Ids, v \in Vecs, m \in Metas \cup {None} : InsertBuffer(i, v, m)
  \/ InsertFinish
  \/ \E i \in Ids : DeleteGraph(i)
  \/ DeleteFinish
  \/ \E d \in Drainers, r \in BOOLEAN : DrainTake(d, r)
  \/ \E d \in Drainers : DrainStep(d)
  \/ \E m \in Metas \cup {None} : SearchBuffer(m)
  \/ SearchGraph

\* Goroutines run: the ticker makes the applier look at the buffer again and
\* again, a drain that started goes on, and h.mu, a sync.RWMutex, is not
\* withheld from a waiting drain for ever.
Fairness ==
  /\ WF_vars(DrainTake(Applier, FALSE))
  /\ \A d \in Drainers : WF_vars(DrainStep(d))

Spec == Init /\ [][Next]_vars
FairSpec == Spec /\ Fairness

-----------------------------------------------------------------------------

TypeOK ==
  /\ dirty \in Seq(Insertion)
  /\ nodes \in Seq(Ids) /\ slab \in Seq(Vecs)
  /\ idToNode \in [Ids -> Nat] /\ deleted \in SUBSET (Nat \ {0})
  /\ mu \in Drainers \cup {"free"}
  /\ drain \in [Drainers -> [pc : {"idle", "taken", "apply", "notify", "rebuild"},
                             batch : Seq(Insertion), drained : SUBSET (Ids \X Nat),
                             rebuild : BOOLEAN]]
  /\ writer \in [pc : {"idle", "inserted", "deleted"}, id : Ids \cup {None},
                 meta : Metas \cup {None}]
  /\ writer.pc # "idle" => writer.id \in Ids
  /\ search \in [pc : {"idle", "graph"}, filter : Metas \cup {None},
                 path : {"plain", "bitmap", "ids", "post"}, allowed : SUBSET Nat,
                 found : SUBSET Ids, inflight : SUBSET Ids]
  /\ result \in [path : {"none", "plain", "bitmap", "ids", "post"}, ids : SUBSET Ids,
                 missed : SUBSET Ids, ghosts : SUBSET Ids, inflight : SUBSET Ids,
                 unreached : SUBSET Ids, cut : BOOLEAN]
  /\ meta \in [Ids -> Metas \cup {None}] /\ bits \in SUBSET (Metas \X Nat)
  /\ present \in SUBSET Ids /\ given \in [Ids -> SUBSET Vecs]
  /\ ops \in Nat /\ rebuilds \in Nat

\* The graph never serves two nodes for one id: idToNode points to a node of
\* its id, and a node that is not deleted is the one its id points to, however
\* drains, deletes, re-inserts and rebuilds interleave (insertLocked, Delete,
\* Rebuild).
GraphMapOK ==
  /\ \A i \in Ids : idToNode[i] # 0 =>
       idToNode[i] \in 1..Len(nodes) /\ nodes[idToNode[i]] = i
  /\ \A n \in Live : idToNode[nodes[n]] = n
  /\ deleted \subseteq 1..Len(nodes)

\* An inserted vector is always somewhere: in the buffer, in the batch of a
\* drain that has not applied it yet, or live in the graph.  The window of
\* drainDirtyBuffer between the two locks loses nothing.  This is said of ids:
\* the drain drops a second vector inserted under a live id (insertLocked's
\* duplicate check), although InsertVectors acknowledged it.
NoVectorLost ==
  \A i \in present : IsLive(i) \/ i \in IdsOf(dirty) \cup InFlight

\* An unfiltered search reads the buffer and the graph under different locks,
\* and drains, deletes and rebuilds run in between; still every inserted
\* vector that it misses was in the batch of a drain when it read the buffer,
\* or is a live node of the graph that its walk did not reach.
MissesExplained ==
  result.path = "plain" => result.missed \subseteq result.inflight \cup result.unreached

\* A search whose beam is as wide as the graph, and whose context does not
\* end, reaches every live node: nothing counts as visited before it is.
WideBeamReachesAll ==
  Ef >= MaxOps /\ result.path = "plain" /\ ~result.cut => result.unreached = {}

\* Every inserted vector reaches the graph unless it is deleted: the applier
\* drains what the callers of Insert left in the buffer.
InsertsReachGraph == \A i \in Ids : i \in present ~> (IsLive(i) \/ i \notin present)

\* A filtered search returns no vector whose deletion was acknowledged: the
\* bitmap index keeps the bits of deleted nodes and says that deletes are
\* handled by the HNSW deleted set.
DeletedNotReturned == result.path = "bitmap" => result.ghosts = {}

\* With nothing in progress the bitmap index is in sync with the metadata
\* rows: the node of every live vector has the bit of its metadata.
BitmapInSync ==
  /\ writer.pc = "idle" /\ dirty = <<>> /\ rebuilds = 0
  /\ \A d \in Drainers : drain[d].pc = "idle"
  => \A i \in Ids : IsLive(i) /\ meta[i] # None => <<meta[i], idToNode[i]>> \in bits

\* A live vector is one that was inserted under its id, after any rebuild.
VectorsAsGiven == \A i \in Ids : IsLive(i) => slab[idToNode[i]] \in given[i]
=============================================================================
