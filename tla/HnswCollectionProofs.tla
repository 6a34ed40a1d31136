------------------------ MODULE HnswCollectionProofs ------------------------
(***************************************************************************)
(* Proofs about HnswCollection for any ids, vectors, metadata, number of   *)
(* drainers and bounds.                                                    *)
(***************************************************************************)
EXTENDS HnswCollection, SequenceTheorems, TLAPS

DrainType == [pc : {"idle", "taken", "apply", "notify", "rebuild"},
              batch : Seq(Insertion), drained : SUBSET (Ids \X Nat), rebuild : BOOLEAN]

\* A search in progress that is not filtered has already found, or will find
\* in the graph, every inserted vector that was not in flight when it started.
SearchInv ==
  search.pc = "graph" /\ search.path = "plain" =>
    \A i \in present : IsLive(i) \/ i \in search.found \cup search.inflight

\* Only a drain between its two locks, or applying, has a batch.
DrainShape == \A d \in Drainers : drain[d].pc \notin {"taken", "apply"} => drain[d].batch = <<>>

Inv ==
  /\ TypeOK
  /\ DrainShape
  /\ Len(nodes) <= Len(slab)
  /\ GraphMapOK
  /\ NoVectorLost
  /\ SearchInv
  /\ MissesExplained

\* A function on 1..n is a sequence of length n.
LEMMA FunIsSeq ==
  ASSUME NEW S, NEW n \in Nat, NEW f \in [1..n -> S]
  PROVE  f \in Seq(S) /\ Len(f) = n
  OBVIOUS

\* Taking the head off a batch takes at most the head's id out of it.
LEMMA IdsOfTail ==
  ASSUME NEW s \in Seq(Insertion), s # <<>>
  PROVE  /\ Head(s) \in Insertion /\ Tail(s) \in Seq(Insertion)
         /\ IdsOf(s) = IdsOf(Tail(s)) \cup {Head(s).id}
<1>1. /\ Head(s) \in Insertion /\ Tail(s) \in Seq(Insertion) /\ Head(s) = s[1]
      /\ Len(s) \in Nat /\ Len(s) > 0 /\ Len(Tail(s)) = Len(s) - 1
      /\ \A k \in 1..(Len(s) - 1) : Tail(s)[k] = s[k + 1]
  OBVIOUS
<1>2. ASSUME NEW k \in 1..Len(s) PROVE s[k].id \in IdsOf(Tail(s)) \cup {Head(s).id}
  <2>1. CASE k = 1
    BY <1>1, <2>1
  <2>2. CASE k # 1
    <3>1. k - 1 \in 1..Len(Tail(s)) /\ Tail(s)[k - 1] = s[k]
      BY <1>1, <2>2
    <3> QED
      BY <3>1 DEF IdsOf
  <2> QED
    BY <2>1, <2>2
<1>3. ASSUME NEW k \in 1..Len(Tail(s)) PROVE Tail(s)[k].id \in IdsOf(s)
  <2>1. k + 1 \in 1..Len(s) /\ Tail(s)[k] = s[k + 1]
    BY <1>1
  <2> QED
    BY <2>1 DEF IdsOf
<1>4. Head(s).id \in IdsOf(s)
  <2>1. 1 \in 1..Len(s)
    BY <1>1
  <2> QED
    BY <1>1, <2>1 DEF IdsOf
<1>5. IdsOf(s) \subseteq IdsOf(Tail(s)) \cup {Head(s).id}
  BY <1>2 DEF IdsOf
<1>6. IdsOf(Tail(s)) \subseteq IdsOf(s)
  BY <1>3 DEF IdsOf
<1> QED
  BY <1>1, <1>4, <1>5, <1>6

\* Appending to the buffer adds the id of the new entry.
LEMMA IdsOfAppend ==
  ASSUME NEW s \in Seq(Insertion), NEW e \in Insertion
  PROVE  IdsOf(Append(s, e)) = IdsOf(s) \cup {e.id}
<1> DEFINE t == Append(s, e)
<1>1. /\ t \in Seq(Insertion) /\ Len(t) = Len(s) + 1 /\ Len(s) \in Nat
      /\ \A k \in 1..Len(s) : t[k] = s[k]
      /\ t[Len(s) + 1] = e
  BY AppendProperties
<1> HIDE DEF t
<1>2. ASSUME NEW k \in 1..Len(t) PROVE t[k].id \in IdsOf(s) \cup {e.id}
  <2>1. k \in 1..Len(s) \/ k = Len(s) + 1
    BY <1>1
  <2> QED
    BY <1>1, <2>1 DEF IdsOf
<1>3. ASSUME NEW k \in 1..Len(s) PROVE s[k].id \in IdsOf(t)
  <2>1. k \in 1..Len(t) /\ t[k] = s[k]
    BY <1>1
  <2> QED
    BY <2>1 DEF IdsOf
<1>4. e.id \in IdsOf(t)
  <2>1. Len(s) + 1 \in 1..Len(t)
    BY <1>1
  <2> QED
    BY <1>1, <2>1 DEF IdsOf
<1>5. IdsOf(t) \subseteq IdsOf(s) \cup {e.id}
  BY <1>2 DEF IdsOf
<1>6. IdsOf(s) \subseteq IdsOf(t)
  BY <1>3 DEF IdsOf
<1>7. IdsOf(t) = IdsOf(s) \cup {e.id}
  BY <1>4, <1>5, <1>6
<1> QED
  BY <1>7 DEF t

\* The ids of a buffer are ids.
LEMMA IdsOfType ==
  ASSUME NEW s \in Seq(Insertion)
  PROVE  IdsOf(s) \subseteq Ids
<1>1. \A k \in 1..Len(s) : s[k] \in Insertion
  BY ElementOfSeq
<1> QED
  BY <1>1 DEF IdsOf, Insertion

\* An empty buffer has no ids.
LEMMA IdsOfEmpty == IdsOf(<<>>) = {}
  BY DEF IdsOf

-----------------------------------------------------------------------------
(* insertLocked and Rebuild keep one live node per id.                     *)

GraphType ==
  /\ nodes \in Seq(Ids) /\ slab \in Seq(Vecs) /\ Len(nodes) <= Len(slab)
  /\ idToNode \in [Ids -> Nat] /\ deleted \in SUBSET (Nat \ {0})

\* What TypeOK says of the state a drain's apply and rebuild leave alone.
RestType ==
  /\ dirty \in Seq(Insertion) /\ mu \in Drainers \cup {"free"}
  /\ writer \in [pc : {"idle", "inserted", "deleted"}, id : Ids \cup {None},
                 meta : Metas \cup {None}]
  /\ writer.pc # "idle" => writer.id \in Ids
  /\ search \in [pc : {"idle", "graph"}, filter : Metas \cup {None},
                 path : {"plain", "bitmap", "ids", "post"}, allowed : SUBSET Nat,
                 found : SUBSET Ids, inflight : SUBSET Ids]
  /\ result \in [path : {"none", "plain", "bitmap", "ids", "post"}, ids : SUBSET Ids,
                 missed : SUBSET Ids, ghosts : SUBSET Ids, inflight : SUBSET Ids,
                 unreached : SUBSET Ids, cut : BOOLEAN]
  /\ meta \in [Ids -> Metas \cup {None}] /\ bits \in SUBSET (Metas \X Nat)
  /\ present \in SUBSET Ids /\ given \in [Ids -> SUBSET Vecs]
  /\ ops \in Nat /\ rebuilds \in Nat

\* The type invariant gives the type of that state.
LEMMA TypeParts == TypeOK => RestType
  BY DEF TypeOK, RestType

\* A step that changes only the graph and one drain (DrainLocked's apply loop,
\* Rebuild) keeps the type invariant when it keeps the types of these two.
LEMMA KeepType ==
  ASSUME TypeOK, GraphType', drain' \in [Drainers -> DrainType],
         UNCHANGED <<dirty, mu, writer, search, result, meta, bits, present, given, ops, rebuilds>>
  PROVE  TypeOK'
<1>1. RestType'
  <2>1. RestType
    BY TypeParts
  <2> QED
    BY <2>1 DEF RestType
<1>2. /\ nodes' \in Seq(Ids) /\ slab' \in Seq(Vecs)
      /\ idToNode' \in [Ids -> Nat] /\ deleted' \in SUBSET (Nat \ {0})
  BY DEF GraphType
<1> QED
  BY <1>1, <1>2, Zenon DEF TypeOK, RestType, DrainType

NewNode(e) ==
  /\ nodes' = Append(nodes, e.id)
  /\ slab' = Append(slab, e.vec)
  /\ idToNode' = [idToNode EXCEPT ![e.id] = Len(nodes) + 1]
  /\ deleted' = deleted

\* A new node for an id without a live one makes that id live and no other
\* id any less so.
LEMMA NewNodeLemma ==
  ASSUME GraphType, GraphMapOK, NEW e \in Insertion, ~IsLive(e.id), NewNode(e)
  PROVE  /\ GraphType' /\ GraphMapOK'
         /\ \A i \in Ids : IsLive(i)' <=> IsLive(i) \/ i = e.id
<1>0. e.id \in Ids /\ e.vec \in Vecs
  BY DEF Insertion
<1>1. /\ nodes' \in Seq(Ids) /\ Len(nodes') = Len(nodes) + 1 /\ Len(nodes) \in Nat
      /\ nodes'[Len(nodes) + 1] = e.id
      /\ \A n \in 1..Len(nodes) : nodes'[n] = nodes[n]
  BY <1>0, AppendProperties DEF GraphType, NewNode
<1>2. slab' \in Seq(Vecs) /\ Len(slab') = Len(slab) + 1 /\ Len(slab) \in Nat
  BY <1>0 DEF GraphType, NewNode
<1>3. GraphType'
  BY <1>0, <1>1, <1>2 DEF GraphType, NewNode
<1>4. /\ idToNode'[e.id] = Len(nodes) + 1
      /\ \A i \in Ids : i # e.id => idToNode'[i] = idToNode[i]
  BY <1>0 DEF GraphType, NewNode
<1>5. \A n \in 1..Len(nodes) : nodes[n] \in Ids
  BY ElementOfSeq DEF GraphType
<1>6. Live' = Live \cup {Len(nodes) + 1}
  BY <1>1 DEF Live, NewNode, GraphMapOK
<1>7. ASSUME NEW i \in Ids, idToNode'[i] # 0
      PROVE  idToNode'[i] \in 1..Len(nodes') /\ nodes'[idToNode'[i]] = i
  BY <1>1, <1>4, <1>7 DEF GraphMapOK
<1>8. ASSUME NEW n \in Live' PROVE idToNode'[nodes'[n]] = n
  <2>1. CASE n = Len(nodes) + 1
    BY <1>1, <1>4, <2>1
  <2>2. CASE n \in Live
    <3>1. n \in 1..Len(nodes) /\ nodes'[n] = nodes[n] /\ nodes[n] \in Ids
          /\ idToNode[nodes[n]] = n
      BY <1>1, <1>5, <2>2 DEF Live, GraphMapOK
    <3>2. nodes[n] # e.id
      BY <2>2, <3>1 DEF IsLive
    <3> QED
      BY <1>4, <3>1, <3>2
  <2> QED
    BY <1>6, <2>1, <2>2
<1>9. GraphMapOK'
  <2>1. deleted' \subseteq 1..Len(nodes')
    BY <1>1 DEF NewNode, GraphMapOK
  <2> QED
    BY <1>7, <1>8, <2>1 DEF GraphMapOK
<1>10. ASSUME NEW i \in Ids PROVE IsLive(i)' <=> IsLive(i) \/ i = e.id
  <2>1. CASE i = e.id
    BY <1>4, <1>6, <2>1 DEF IsLive
  <2>2. CASE i # e.id
    <3>1. idToNode'[i] = idToNode[i] /\ idToNode[i] # Len(nodes) + 1
      BY <1>1, <1>4, <2>2 DEF GraphMapOK
    <3> QED
      BY <1>6, <2>2, <3>1 DEF IsLive
  <2> QED
    BY <2>1, <2>2
<1> QED
  BY <1>3, <1>9, <1>10

\* Rebuild renumbers the live nodes and keeps exactly the live ids.
LEMMA RebuildLemma ==
  ASSUME GraphType, GraphMapOK, NEW d \in Drainers, RebuildGraph(d)
  PROVE  /\ GraphType' /\ GraphMapOK'
         /\ \A i \in Ids : IsLive(i)' <=> IsLive(i)
<1>1. CASE deleted = {}
  BY <1>1 DEF RebuildGraph, graph, GraphType, GraphMapOK, IsLive, Live
<1>2. CASE deleted # {}
  <2>1. PICK f \in LiveOrder :
            /\ nodes' = [k \in DOMAIN f |-> nodes[f[k]]]
            /\ slab' = slab \o [k \in DOMAIN f |-> slab[f[k]]]
            /\ idToNode' = [i \in Ids |-> IF \E k \in DOMAIN f : nodes[f[k]] = i
                                          THEN CHOOSE k \in DOMAIN f : nodes[f[k]] = i
                                          ELSE 0]
            /\ deleted' = {}
    BY <1>2 DEF RebuildGraph
  <2>2. PICK m \in 0..Len(nodes) : f \in [1..m -> Live]
    BY DEF LiveOrder
  <2>3. /\ m \in Nat /\ DOMAIN f = 1..m
        /\ \A j, k \in 1..m : j < k => f[j] < f[k]
        /\ \A n \in Live : \E k \in 1..m : f[k] = n
        /\ \A k \in 1..m : f[k] \in Live /\ f[k] \in 1..Len(nodes) /\ f[k] \in Nat
    BY <2>2 DEF LiveOrder, Live, GraphType
  <2>4. \A k \in 1..m : nodes[f[k]] \in Ids /\ slab[f[k]] \in Vecs
    <3>1. ASSUME NEW k \in 1..m PROVE f[k] \in 1..Len(nodes) /\ f[k] \in 1..Len(slab)
      BY <2>3 DEF GraphType
    <3> QED
      BY <3>1, ElementOfSeq DEF GraphType
  <2>5. nodes' \in [1..m -> Ids] /\ nodes' \in Seq(Ids) /\ Len(nodes') = m
    <3>1. nodes' \in [1..m -> Ids]
      BY <2>1, <2>3, <2>4
    <3> QED
      BY <2>3, <3>1, FunIsSeq
  <2>6. slab' \in Seq(Vecs) /\ Len(slab') = Len(slab) + m
    <3> DEFINE g == [k \in DOMAIN f |-> slab[f[k]]]
    <3>1. g \in [1..m -> Vecs]
      BY <2>3, <2>4
    <3> HIDE DEF g
    <3>2. g \in Seq(Vecs) /\ Len(g) = m
      BY <2>3, <3>1, FunIsSeq
    <3> QED
      BY <2>1, <3>2 DEF GraphType, g
  <2>7. \A j, k \in 1..m : nodes[f[j]] = nodes[f[k]] => j = k
    <3>1. ASSUME NEW j \in 1..m, NEW k \in 1..m, nodes[f[j]] = nodes[f[k]] PROVE j = k
      <4>1. f[j] = f[k]
        <5>1. f[j] \in Live /\ f[k] \in Live
          BY <2>3
        <5>2. idToNode[nodes[f[j]]] = f[j] /\ idToNode[nodes[f[k]]] = f[k]
          BY <5>1 DEF GraphMapOK
        <5> QED
          BY <3>1, <5>2
      <4>2. f[j] \in Nat /\ f[k] \in Nat /\ ~(f[j] < f[k]) /\ ~(f[k] < f[j])
        <5>1. f[j] \in Nat /\ f[k] \in Nat
          BY <2>3
        <5> QED
          BY <4>1, <5>1
      <4>3. ~(j < k) /\ ~(k < j)
        BY <2>3, <4>2
      <4> QED
        BY <2>3, <4>3
    <3> QED
      BY <3>1
  <2>8. \A k \in 1..m : idToNode'[nodes[f[k]]] = k
    <3>1. ASSUME NEW k \in 1..m PROVE idToNode'[nodes[f[k]]] = k
      <4> DEFINE c == CHOOSE j \in DOMAIN f : nodes[f[j]] = nodes[f[k]]
      <4>1. c \in 1..m /\ nodes[f[c]] = nodes[f[k]]
        BY <2>3
      <4> HIDE DEF c
      <4>2. c = k
        BY <2>7, <4>1
      <4>3. idToNode'[nodes[f[k]]] = c
        BY <2>1, <2>3, <2>4 DEF c
      <4> QED
        BY <4>2, <4>3
    <3> QED
      BY <3>1
  <2>9. \A i \in Ids : idToNode'[i] # 0 => \E k \in 1..m : nodes[f[k]] = i
    BY <2>1, <2>3
  <2>10. Live' = 1..m
    BY <2>1, <2>5 DEF Live
  <2>11. \A k \in 1..m : nodes'[k] = nodes[f[k]]
    BY <2>1, <2>3
  <2>12. GraphType'
    <3>1. idToNode' \in [Ids -> Nat]
      <4>1. ASSUME NEW i \in Ids PROVE idToNode'[i] \in Nat
        BY <2>3, <2>8, <2>9
      <4> QED
        BY <2>1, <4>1
    <3>2. Len(nodes') <= Len(slab')
      BY <2>3, <2>5, <2>6 DEF GraphType
    <3> QED
      BY <2>1, <2>5, <2>6, <3>1, <3>2 DEF GraphType
  <2>13. GraphMapOK'
    <3>1. ASSUME NEW i \in Ids, idToNode'[i] # 0
          PROVE  idToNode'[i] \in 1..Len(nodes') /\ nodes'[idToNode'[i]] = i
      BY <2>5, <2>8, <2>9, <2>11, <3>1
    <3>2. \A n \in Live' : idToNode'[nodes'[n]] = n
      BY <2>8, <2>10, <2>11
    <3>3. deleted' \subseteq 1..Len(nodes')
      BY <2>1
    <3> QED
      BY <3>1, <3>2, <3>3 DEF GraphMapOK
  <2>14. ASSUME NEW i \in Ids PROVE IsLive(i)' <=> IsLive(i)
    <3>1. ASSUME IsLive(i) PROVE IsLive(i)'
      <4>1. idToNode[i] \in Live /\ nodes[idToNode[i]] = i
        BY <3>1 DEF IsLive, Live, GraphMapOK, GraphType
      <4>2. PICK k \in 1..m : f[k] = idToNode[i]
        BY <2>3, <4>1
      <4>3. idToNode'[i] = k
        BY <2>8, <4>1, <4>2
      <4> QED
        BY <2>10, <4>3 DEF IsLive
    <3>2. ASSUME IsLive(i)' PROVE IsLive(i)
      <4>1. idToNode'[i] # 0
        BY <2>3, <2>10, <3>2 DEF IsLive
      <4>2. PICK k \in 1..m : nodes[f[k]] = i
        BY <2>9, <4>1
      <4>3. idToNode[i] = f[k]
        BY <2>3, <4>2 DEF GraphMapOK
      <4> QED
        BY <2>3, <4>3 DEF IsLive
    <3> QED
      BY <3>1, <3>2
  <2> QED
    BY <2>12, <2>13, <2>14
<1> QED
  BY <1>1, <1>2

-----------------------------------------------------------------------------
(* The invariant.  The interesting part of a step is what it does to the   *)
(* places a vector can be in.                                              *)

Somewhere(i) == IsLive(i) \/ i \in IdsOf(dirty) \cup InFlight

\* The initial states satisfy the inductive invariant.
LEMMA InvInit == Init => Inv
<1> SUFFICES ASSUME Init PROVE Inv
  OBVIOUS
<1>1. IdleDrain \in DrainType
  BY DEF IdleDrain, DrainType
<1>2. TypeOK
  BY <1>1 DEF Init, TypeOK, DrainType, IdleWriter, IdleSearch
<1>3. GraphMapOK /\ Len(nodes) <= Len(slab)
  BY DEF Init, GraphMapOK, Live
<1>5. DrainShape
  BY DEF Init, DrainShape, IdleDrain
<1>4. NoVectorLost /\ SearchInv /\ MissesExplained
  BY DEF Init, NoVectorLost, SearchInv, IdleSearch, MissesExplained
<1> QED
  BY <1>2, <1>3, <1>4, <1>5 DEF Inv

\* A step of drainer d that only changes its own record changes what is in
\* flight only through its batch.
LEMMA InFlightLemma ==
  ASSUME TypeOK, NEW d \in Drainers, NEW r, drain' = [drain EXCEPT ![d] = r]
  PROVE  /\ drain'[d] = r
         /\ \A e \in Drainers : e # d => drain'[e] = drain[e]
         /\ \A i : i \in InFlight => i \in InFlight' \/ i \in IdsOf(drain[d].batch)
         /\ \A i : i \in IdsOf(r.batch) => i \in InFlight'
<1>1. drain'[d] = r /\ \A e \in Drainers : e # d => drain'[e] = drain[e]
  BY DEF TypeOK
<1>2. ASSUME NEW i, i \in InFlight PROVE i \in InFlight' \/ i \in IdsOf(drain[d].batch)
  <2>1. PICK e \in Drainers : i \in IdsOf(drain[e].batch)
    BY <1>2 DEF InFlight
  <2>2. CASE e = d
    BY <2>1, <2>2
  <2>3. CASE e # d
    <3>1. i \in IdsOf(drain'[e].batch)
      BY <1>1, <2>1, <2>3
    <3> QED
      BY <3>1 DEF InFlight, IdsOf
  <2> QED
    BY <2>2, <2>3
<1>3. ASSUME NEW i, i \in IdsOf(r.batch) PROVE i \in InFlight'
  <2>1. i \in IdsOf(drain'[d].batch)
    BY <1>1, <1>3
  <2> QED
    BY <2>1 DEF InFlight, IdsOf
<1> QED
  BY <1>1, <1>2, <1>3

\* Steps that add nothing to present and lose no place of a vector keep the
\* last three parts of the invariant.
LEMMA KeepPlaces ==
  ASSUME Inv, present' = present, UNCHANGED <<search, result>>,
         \A i \in present : Somewhere(i) => Somewhere(i)',
         \A i \in present : IsLive(i) => IsLive(i)'
  PROVE  NoVectorLost' /\ SearchInv' /\ MissesExplained'
<1>1. NoVectorLost'
  BY DEF Inv, NoVectorLost, Somewhere
<1>2. SearchInv'
  BY DEF Inv, SearchInv
<1>3. MissesExplained'
  BY DEF Inv, MissesExplained
<1> QED
  BY <1>1, <1>2, <1>3

\* Steps that leave the graph alone keep its map and what is live.
LEMMA SameGraph ==
  ASSUME UNCHANGED graph
  PROVE  /\ GraphMapOK => GraphMapOK'
         /\ Len(nodes) <= Len(slab) => Len(nodes') <= Len(slab')
         /\ \A i : IsLive(i)' <=> IsLive(i)
  BY DEF graph, GraphMapOK, IsLive, Live

\* Every step of a writer, a search, a drain or a rebuild keeps the invariant.
LEMMA InvStep == Inv /\ [Next]_vars => Inv'
<1> SUFFICES ASSUME Inv, [Next]_vars PROVE Inv'
  OBVIOUS
<1>0. /\ TypeOK /\ GraphMapOK /\ GraphType /\ DrainShape
      /\ drain \in [Drainers -> DrainType] /\ dirty \in Seq(Insertion)
  BY DEF Inv, TypeOK, GraphType, DrainType
<1>1. ASSUME NEW i \in Ids, NEW v \in Vecs, NEW m \in Metas \cup {None}, InsertBuffer(i, v, m)
      PROVE  Inv'
  <2> DEFINE e == [id |-> i, vec |-> v]
  <2>1. e \in Insertion /\ dirty' = Append(dirty, e) /\ dirty' \in Seq(Insertion)
    BY <1>0, <1>1 DEF InsertBuffer, Insertion
  <2>2. IdsOf(dirty') = IdsOf(dirty) \cup {i}
    BY <1>0, <2>1, IdsOfAppend
  <2>3. /\ UNCHANGED graph /\ UNCHANGED <<drain, search, result>>
        /\ search.pc = "idle" /\ present' = present \cup {i}
    BY <1>1 DEF InsertBuffer, ColMuFree
  <2>4. TypeOK'
    BY <1>0, <1>1, <2>1 DEF InsertBuffer, TypeOK, graph
  <2>5. NoVectorLost'
    <3>1. ASSUME NEW j \in present' PROVE IsLive(j)' \/ j \in IdsOf(dirty') \cup InFlight'
      <4>1. CASE j = i
        BY <2>2, <4>1
      <4>2. CASE j # i
        <5>1. j \in present /\ (IsLive(j) \/ j \in IdsOf(dirty) \cup InFlight)
          BY <2>3, <4>2 DEF Inv, NoVectorLost
        <5>2. InFlight' = InFlight
          BY <2>3 DEF InFlight, IdsOf
        <5> QED
          BY <2>2, <2>3, <5>1, <5>2, SameGraph
      <4> QED
        BY <4>1, <4>2
    <3> QED
      BY <3>1 DEF NoVectorLost, IdsOf
  <2>6. SearchInv' /\ MissesExplained'
    BY <2>3 DEF Inv, SearchInv, MissesExplained
  <2> QED
    BY <1>0, <2>3, <2>4, <2>5, <2>6, SameGraph DEF Inv, DrainShape
<1>2. ASSUME NEW i \in Ids, DeleteGraph(i) PROVE Inv'
  <2>1. /\ idToNode[i] # 0 /\ deleted' = deleted \cup {idToNode[i]}
        /\ UNCHANGED <<nodes, slab, idToNode, dirty, drain, search, result>>
        /\ search.pc = "idle" /\ present' = present \ {i}
    BY <1>2 DEF DeleteGraph, ColMuFree
  <2>2. idToNode[i] \in 1..Len(nodes) /\ nodes[idToNode[i]] = i
    BY <1>0, <2>1 DEF GraphMapOK
  <2>3. TypeOK'
    <3>1. deleted' \in SUBSET (Nat \ {0})
      <4>1. idToNode[i] \in Nat \ {0} /\ deleted \in SUBSET (Nat \ {0})
        BY <1>0, <2>1 DEF TypeOK
      <4> QED
        BY <2>1, <4>1
    <3>2. /\ writer' \in [pc : {"idle", "inserted", "deleted"}, id : Ids \cup {None},
                          meta : Metas \cup {None}]
          /\ writer'.id \in Ids
      BY <1>2 DEF DeleteGraph
    <3>3. present' \in SUBSET Ids /\ ops' \in Nat
      BY <1>0, <1>2 DEF DeleteGraph, TypeOK
    <3>4. UNCHANGED <<mu, meta, bits, given, rebuilds>>
      BY <1>2 DEF DeleteGraph
    <3> QED
      BY <1>0, <2>1, <3>1, <3>2, <3>3, <3>4 DEF TypeOK
  <2>4. Live' = Live \ {idToNode[i]}
    BY <2>1 DEF Live
  <2>5. GraphMapOK' /\ Len(nodes') <= Len(slab')
    <3>1. deleted' \subseteq 1..Len(nodes)
      BY <1>0, <2>1, <2>2 DEF GraphMapOK
    <3> QED
      BY <1>0, <2>1, <2>4, <3>1 DEF GraphMapOK, GraphType
  <2>6. ASSUME NEW j \in Ids, j # i, IsLive(j) PROVE IsLive(j)'
    <3>1. idToNode[j] \in Live /\ nodes[idToNode[j]] = j
      BY <1>0, <2>6 DEF IsLive, Live, GraphMapOK
    <3> QED
      BY <2>1, <2>2, <2>4, <2>6, <3>1 DEF IsLive
  <2>7. NoVectorLost'
    <3>1. ASSUME NEW j \in present' PROVE IsLive(j)' \/ j \in IdsOf(dirty') \cup InFlight'
      <4>1. j \in present /\ j # i /\ j \in Ids
        BY <1>0, <2>1 DEF TypeOK
      <4>2. IsLive(j) \/ j \in IdsOf(dirty) \cup InFlight
        BY <4>1 DEF Inv, NoVectorLost
      <4>3. InFlight' = InFlight /\ IdsOf(dirty') = IdsOf(dirty)
        BY <2>1 DEF InFlight, IdsOf
      <4> QED
        BY <2>6, <4>1, <4>2, <4>3
    <3> QED
      BY <3>1 DEF NoVectorLost, IdsOf
  <2>8. SearchInv' /\ MissesExplained'
    BY <2>1 DEF Inv, SearchInv, MissesExplained
  <2> QED
    BY <1>0, <2>1, <2>3, <2>5, <2>7, <2>8 DEF Inv, DrainShape
<1>3. CASE InsertFinish \/ DeleteFinish
  <2>1. UNCHANGED <<dirty, graph, drain, search, result, present>>
    BY <1>3 DEF InsertFinish, SaveVectorMetadata, DeleteFinish, DeleteVectorMetadata
  <2>2. TypeOK'
    <3>1. writer.pc # "idle" /\ writer.id \in Ids
      BY <1>0, <1>3 DEF TypeOK, InsertFinish, SaveVectorMetadata, DeleteFinish, DeleteVectorMetadata
    <3>2. meta' \in [Ids -> Metas \cup {None}] /\ writer' = IdleWriter
      BY <1>0, <1>3, <3>1 DEF TypeOK, InsertFinish, SaveVectorMetadata, DeleteFinish, DeleteVectorMetadata
    <3> QED
      BY <1>0, <1>3, <3>2 DEF TypeOK, InsertFinish, SaveVectorMetadata, DeleteFinish, DeleteVectorMetadata, graph, IdleWriter
  <2>3. \A j : (IsLive(j)' <=> IsLive(j)) /\ (Somewhere(j)' <=> Somewhere(j))
    BY <2>1 DEF Somewhere, InFlight, IdsOf, IsLive, Live, graph
  <2>4. NoVectorLost' /\ SearchInv' /\ MissesExplained'
    BY <2>1, <2>3, KeepPlaces
  <2> QED
    BY <1>0, <2>1, <2>2, <2>4, SameGraph DEF Inv, DrainShape
<1>4. ASSUME NEW d \in Drainers, NEW rb \in BOOLEAN, DrainTake(d, rb) PROVE Inv'
  <2> DEFINE r == [pc |-> IF dirty = <<>> THEN "rebuild" ELSE "taken",
                   batch |-> dirty, drained |-> {}, rebuild |-> rb]
  <2>1. /\ drain' = [drain EXCEPT ![d] = r] /\ drain[d].pc = "idle" /\ dirty' = <<>>
        /\ UNCHANGED graph /\ UNCHANGED <<search, result, present>>
    BY <1>4 DEF DrainTake
  <2>2. r \in DrainType
    BY <1>0 DEF DrainType
  <2>3. TypeOK'
    BY <1>0, <1>4, <2>1, <2>2 DEF DrainTake, TypeOK, DrainType, graph
  <2>4. ASSUME NEW i \in present, Somewhere(i) PROVE Somewhere(i)'
    <3>1. IsLive(i) => IsLive(i)'
      BY <2>1, SameGraph
    <3> r.batch = dirty
      OBVIOUS
    <3> HIDE DEF r
    <3>2. i \in IdsOf(dirty) => i \in InFlight'
      BY <1>0, <2>1, <2>2, InFlightLemma
    <3>3. i \in InFlight => i \in InFlight' \/ i \in IdsOf(drain[d].batch)
      BY <1>0, <2>1, InFlightLemma
    <3>4. IdsOf(drain[d].batch) = {}
      BY <1>0, <2>1, IdsOfEmpty DEF DrainShape
    <3> QED
      BY <2>4, <3>1, <3>2, <3>3, <3>4 DEF Somewhere
  <2>5. DrainShape'
    <3>1. IF rb THEN TRUE ELSE dirty # <<>>
      BY <1>4 DEF DrainTake
    <3> QED
      BY <1>0, <2>1, <3>1, InFlightLemma DEF DrainShape
  <2>6. NoVectorLost' /\ SearchInv' /\ MissesExplained'
    BY <2>1, <2>4, SameGraph, KeepPlaces
  <2> QED
    BY <2>1, <2>3, <2>5, <2>6, SameGraph DEF Inv
<1>5. ASSUME NEW d \in Drainers, DrainLock(d) \/ DrainUnlock(d) \/ DrainNotify(d) \/ DrainEnd(d)
      PROVE  Inv'
  <2>1. UNCHANGED graph /\ UNCHANGED <<dirty, search, result, present>>
    BY <1>5 DEF DrainLock, DrainUnlock, DrainNotify, DrainEnd
  <2>2. \E r \in DrainType : /\ drain' = [drain EXCEPT ![d] = r] /\ r.batch = drain[d].batch
                             /\ r.pc \in {"taken", "apply"} \/ r.batch = <<>>
    <3>1. drain[d] \in DrainType /\ (drain[d].pc \notin {"taken", "apply"} => drain[d].batch = <<>>)
      BY <1>0 DEF DrainShape
    <3>2. CASE DrainLock(d)
      <4> DEFINE r == [drain[d] EXCEPT !.pc = "apply"]
      <4>1. drain' = [drain EXCEPT ![d] = r]
        BY <1>0, <3>2 DEF DrainLock
      <4>2. r \in DrainType /\ r.batch = drain[d].batch
        BY <3>1 DEF DrainType
      <4>3. r.pc \in {"taken", "apply"} \/ r.batch = <<>>
        BY <3>1, <3>2 DEF DrainLock, DrainType
      <4> HIDE DEF r
      <4> QED
        BY <4>1, <4>2, <4>3
    <3>3. CASE DrainUnlock(d)
      <4> DEFINE r == [drain[d] EXCEPT !.pc = "notify"]
      <4>1. drain' = [drain EXCEPT ![d] = r]
        BY <1>0, <3>3 DEF DrainUnlock
      <4>2. r \in DrainType /\ r.batch = drain[d].batch
        BY <3>1 DEF DrainType
      <4>3. r.pc \in {"taken", "apply"} \/ r.batch = <<>>
        BY <3>1, <3>3 DEF DrainUnlock, DrainType
      <4> HIDE DEF r
      <4> QED
        BY <4>1, <4>2, <4>3
    <3>4. CASE DrainNotify(d)
      <4>1. PICK p \in drain[d].drained : drain' = [drain EXCEPT ![d].drained = @ \ {p}]
        BY <3>4 DEF DrainNotify
      <4> DEFINE r == [drain[d] EXCEPT !.drained = @ \ {p}]
      <4>2. drain' = [drain EXCEPT ![d] = r]
        BY <1>0, <4>1
      <4>3. r \in DrainType /\ r.batch = drain[d].batch
        BY <3>1 DEF DrainType
      <4>4. r.batch = <<>>
        BY <3>1, <3>4, <4>3 DEF DrainNotify
      <4> HIDE DEF r
      <4> QED
        BY <4>2, <4>3, <4>4
    <3>5. CASE DrainEnd(d)
      <4> DEFINE r == IF drain[d].rebuild THEN [drain[d] EXCEPT !.pc = "rebuild"] ELSE IdleDrain
      <4>1. IdleDrain \in DrainType /\ IdleDrain.batch = <<>>
        BY DEF IdleDrain, DrainType
      <4>2. drain[d].batch = <<>> /\ drain' = [drain EXCEPT ![d] = r]
        BY <1>0, <3>1, <3>5 DEF DrainEnd
      <4>3. r \in DrainType /\ r.batch = <<>>
        BY <3>1, <4>1, <4>2 DEF DrainType
      <4> HIDE DEF r
      <4> QED
        BY <4>2, <4>3
    <3> QED
      BY <1>5, <3>2, <3>3, <3>4, <3>5
  <2>3. PICK r \in DrainType : /\ drain' = [drain EXCEPT ![d] = r] /\ r.batch = drain[d].batch
                               /\ r.pc \in {"taken", "apply"} \/ r.batch = <<>>
    BY <2>2
  <2>4. mu' \in Drainers \cup {"free"} /\ bits' \in SUBSET (Metas \X Nat)
        /\ UNCHANGED <<writer, meta, given, ops, rebuilds>>
    <3>1. CASE DrainNotify(d)
      <4>1. PICK p \in drain[d].drained :
               bits' = IF meta[p[1]] = None THEN bits ELSE bits \cup {<<meta[p[1]], p[2]>>}
        BY <3>1 DEF DrainNotify
      <4>2. p \in Ids \X Nat
        BY <1>0, <4>1 DEF DrainType
      <4>3. bits' \in SUBSET (Metas \X Nat)
        BY <1>0, <4>1, <4>2 DEF TypeOK
      <4> QED
        BY <1>0, <3>1, <4>3 DEF DrainNotify, TypeOK
    <3> QED
      BY <1>0, <1>5, <3>1 DEF DrainLock, DrainUnlock, DrainEnd, TypeOK
  <2>5. TypeOK'
    BY <1>0, <2>1, <2>3, <2>4 DEF TypeOK, DrainType, graph
  <2>6. DrainShape'
    BY <1>0, <2>3, InFlightLemma DEF DrainShape
  <2>7. ASSUME NEW i \in present, Somewhere(i) PROVE Somewhere(i)'
    <3>1. IsLive(i) => IsLive(i)'
      BY <2>1, SameGraph
    <3>2. i \in InFlight => i \in InFlight'
      BY <1>0, <2>3, InFlightLemma
    <3>3. IdsOf(dirty') = IdsOf(dirty)
      BY <2>1
    <3> QED
      BY <2>7, <3>1, <3>2, <3>3 DEF Somewhere, IdsOf
  <2>8. NoVectorLost' /\ SearchInv' /\ MissesExplained'
    BY <2>1, <2>7, SameGraph, KeepPlaces
  <2> QED
    BY <2>1, <2>5, <2>6, <2>8, SameGraph DEF Inv
<1>6. ASSUME NEW d \in Drainers, DrainApply(d) PROVE Inv'
  <2> DEFINE e == Head(drain[d].batch)
  <2>1. /\ drain[d] \in DrainType /\ drain[d].pc = "apply" /\ drain[d].batch # <<>>
        /\ UNCHANGED <<dirty, mu, writer, search, result, meta, bits, present, given, ops, rebuilds>>
    BY <1>0, <1>6 DEF DrainApply, Duplicate
  <2>2. /\ e \in Insertion /\ Tail(drain[d].batch) \in Seq(Insertion)
        /\ IdsOf(drain[d].batch) = IdsOf(Tail(drain[d].batch)) \cup {e.id}
    BY <2>1, IdsOfTail DEF DrainType
  <2>3. e.id \in Ids
    BY <2>2 DEF Insertion
  <2>4. /\ GraphType' /\ GraphMapOK' /\ (\A i \in Ids : IsLive(i)' <=> IsLive(i) \/ i = e.id)
    <3>1. CASE IsLive(e.id)
      <4>1. UNCHANGED graph
        BY <1>6, <3>1 DEF DrainApply, Duplicate
      <4>2. GraphType'
        BY <1>0, <4>1 DEF graph, GraphType
      <4> QED
        BY <1>0, <3>1, <4>1, <4>2, SameGraph
    <3>2. CASE ~IsLive(e.id)
      <4>1. NewNode(e)
        BY <1>6, <3>2 DEF DrainApply, Duplicate, NewNode
      <4> QED
        BY <1>0, <2>2, <3>2, <4>1, NewNodeLemma
    <3> QED
      BY <3>1, <3>2
  <2>5. \E r \in DrainType : /\ drain' = [drain EXCEPT ![d] = r]
                             /\ r.batch = Tail(drain[d].batch) /\ r.pc = "apply"
    <3>1. CASE IsLive(e.id)
      <4> DEFINE r == [drain[d] EXCEPT !.batch = Tail(@)]
      <4>1. drain' = [drain EXCEPT ![d] = r]
        BY <1>6, <3>1 DEF DrainApply, Duplicate
      <4>2. r \in DrainType /\ r.batch = Tail(drain[d].batch) /\ r.pc = "apply"
        BY <2>1, <2>2 DEF DrainType
      <4> QED
        BY <4>1, <4>2
    <3>2. CASE ~IsLive(e.id)
      <4> DEFINE r == [drain[d] EXCEPT !.batch = Tail(@),
                                       !.drained = @ \cup {<<e.id, Len(nodes) + 1>>}]
      <4>1. drain' = [drain EXCEPT ![d] = r]
        BY <1>6, <3>2 DEF DrainApply, Duplicate
      <4>2. <<e.id, Len(nodes) + 1>> \in Ids \X Nat
        BY <1>0, <2>3 DEF GraphType
      <4>3. r \in DrainType /\ r.batch = Tail(drain[d].batch) /\ r.pc = "apply"
        BY <2>1, <2>2, <4>2 DEF DrainType
      <4> QED
        BY <4>1, <4>3
    <3> QED
      BY <3>1, <3>2
  <2>6. PICK r \in DrainType : /\ drain' = [drain EXCEPT ![d] = r]
                               /\ r.batch = Tail(drain[d].batch) /\ r.pc = "apply"
    BY <2>5
  <2>7. TypeOK'
    <3>1. drain' \in [Drainers -> DrainType]
      BY <1>0, <2>6
    <3> QED
      BY <1>0, <2>1, <2>4, <3>1, KeepType
  <2>8. DrainShape'
    BY <1>0, <2>6, InFlightLemma DEF DrainShape
  <2>9. present \subseteq Ids
    BY <1>0 DEF TypeOK
  <2>10. ASSUME NEW i \in present, Somewhere(i) PROVE Somewhere(i)'
    <3>1. IsLive(i) \/ i = e.id => IsLive(i)'
      BY <2>4, <2>9
    <3>2. i \in InFlight => i \in InFlight' \/ i \in IdsOf(drain[d].batch)
      BY <1>0, <2>6, InFlightLemma
    <3>3. i \in IdsOf(Tail(drain[d].batch)) => i \in InFlight'
      BY <1>0, <2>6, InFlightLemma
    <3>4. IdsOf(dirty') = IdsOf(dirty)
      BY <2>1
    <3> QED
      BY <2>2, <2>10, <3>1, <3>2, <3>3, <3>4 DEF Somewhere, IdsOf
  <2>11. NoVectorLost' /\ SearchInv' /\ MissesExplained'
    BY <2>1, <2>4, <2>9, <2>10, KeepPlaces
  <2> QED
    BY <2>4, <2>7, <2>8, <2>11 DEF Inv, GraphType
<1>7. ASSUME NEW d \in Drainers, RebuildGraph(d) PROVE Inv'
  <2>1. /\ drain[d].pc = "rebuild" /\ drain' = [drain EXCEPT ![d] = IdleDrain]
        /\ UNCHANGED <<dirty, mu, writer, search, result, meta, bits, present, given, ops, rebuilds>>
    BY <1>7 DEF RebuildGraph
  <2>2. GraphType' /\ GraphMapOK' /\ (\A i \in Ids : IsLive(i)' <=> IsLive(i))
    BY <1>0, <1>7, RebuildLemma
  <2>3. IdleDrain \in DrainType /\ IdleDrain.batch = <<>>
    BY DEF IdleDrain, DrainType
  <2>4. TypeOK'
    <3>1. drain' \in [Drainers -> DrainType]
      BY <1>0, <2>1, <2>3
    <3> QED
      BY <1>0, <2>1, <2>2, <3>1, KeepType
  <2>5. DrainShape'
    BY <1>0, <2>1, <2>3, InFlightLemma DEF DrainShape
  <2>6. present \subseteq Ids
    BY <1>0 DEF TypeOK
  <2>7. ASSUME NEW i \in present, Somewhere(i) PROVE Somewhere(i)'
    <3>1. IsLive(i) => IsLive(i)'
      BY <2>2, <2>6
    <3>2. i \in InFlight => i \in InFlight' \/ i \in IdsOf(drain[d].batch)
      BY <1>0, <2>1, InFlightLemma
    <3>3. IdsOf(drain[d].batch) = {} /\ IdsOf(dirty') = IdsOf(dirty)
      BY <1>0, <2>1, IdsOfEmpty DEF DrainShape
    <3> QED
      BY <2>7, <3>1, <3>2, <3>3 DEF Somewhere, IdsOf
  <2>8. NoVectorLost' /\ SearchInv' /\ MissesExplained'
    BY <2>1, <2>2, <2>6, <2>7, KeepPlaces
  <2> QED
    BY <2>2, <2>4, <2>5, <2>8 DEF Inv, GraphType
<1>8. ASSUME NEW m \in Metas \cup {None}, SearchBuffer(m) PROVE Inv'
  <2>1. /\ UNCHANGED <<dirty, graph, mu, drain, writer, result, meta, bits, present, given, ops, rebuilds>>
        /\ search' = [pc |-> "graph", filter |-> m, path |-> SearchPath(m), allowed |-> Resolve(m),
                      inflight |-> InFlight,
                      found |-> IF SearchPath(m) = "ids" THEN IdsOf(dirty) \cap ValidIds(m)
                                ELSE IdsOf(dirty)]
    BY <1>8 DEF SearchBuffer, DirtyResults
  <2>2. IdsOf(dirty) \subseteq Ids /\ InFlight \subseteq Ids
    <3>1. \A d \in Drainers : IdsOf(drain[d].batch) \subseteq Ids
      BY <1>0, IdsOfType DEF DrainType
    <3> QED
      BY <1>0, <3>1, IdsOfType DEF InFlight
  <2>3. SearchPath(m) \in {"plain", "bitmap", "ids", "post"} /\ Resolve(m) \in SUBSET Nat
    <3>1. SearchPath(m) \in {"plain", "bitmap", "ids", "post"}
      BY DEF SearchPath
    <3>2. Resolve(m) \in SUBSET Nat
      BY <1>0 DEF TypeOK, Resolve
    <3> QED
      BY <3>1, <3>2
  <2>4. search' \in [pc : {"idle", "graph"}, filter : Metas \cup {None},
                 path : {"plain", "bitmap", "ids", "post"}, allowed : SUBSET Nat,
                 found : SUBSET Ids, inflight : SUBSET Ids]
    BY <2>1, <2>2, <2>3
  <2>5. TypeOK'
    BY <1>0, <2>1, <2>4 DEF TypeOK, graph
  <2>6. SearchInv'
    <3>1. SUFFICES ASSUME search'.path = "plain", NEW i \in present
                   PROVE  IsLive(i)' \/ i \in search'.found \cup search'.inflight
      BY <2>1 DEF SearchInv
    <3>2. IsLive(i) \/ i \in IdsOf(dirty) \cup InFlight
      BY DEF Inv, NoVectorLost
    <3>3. search'.found = IdsOf(dirty) /\ search'.inflight = InFlight
      BY <2>1, <3>1
    <3> QED
      BY <2>1, <3>2, <3>3, SameGraph
  <2>7. NoVectorLost' /\ MissesExplained' /\ DrainShape'
    BY <1>0, <2>1 DEF Inv, NoVectorLost, MissesExplained, DrainShape, IsLive, Live, InFlight, graph
  <2> QED
    BY <2>1, <2>5, <2>6, <2>7, SameGraph DEF Inv
<1>9. CASE SearchGraph
  <2>1. /\ UNCHANGED <<dirty, graph, mu, drain, writer, meta, bits, present, given, ops, rebuilds>>
        /\ search' = IdleSearch /\ search.pc = "graph"
    BY <1>9 DEF SearchGraph
  <2>2. PICK g \in GraphResults :
          LET ids == search.found \cup g.ids
              kept == IF search.path = "post" THEN ids \cap ValidIds(search.filter) ELSE ids
          IN result' = [path |-> search.path, ids |-> kept, missed |-> present \ kept,
                        ghosts |-> {i \in kept : i \notin present},
                        inflight |-> search.inflight, unreached |-> g.unreached, cut |-> g.cut]
    BY <1>9 DEF SearchGraph
  <2>3. search.path \in {"plain", "bitmap", "ids", "post"} /\ search.found \subseteq Ids
        /\ search.inflight \subseteq Ids
    BY <1>0 DEF TypeOK
  <2>4. \A n \in 1..Len(nodes) : nodes[n] \in Ids
    BY <1>0, ElementOfSeq DEF GraphType
  <2>a. \A h \in PlainResults : \E w \in SUBSET (1..Len(nodes)), c \in BOOLEAN : h = WalkResult(w, c)
    <3>1. FreshWalks \cup BeamWalks \cup CutWalks \subseteq SUBSET (1..Len(nodes))
      BY DEF FreshWalks, BeamWalks, CutWalks
    <3> QED
      BY <3>1 DEF PlainResults
  <2>5. g.ids \subseteq Ids /\ g.unreached \subseteq Ids /\ g.cut \in BOOLEAN
    <3>1. CASE search.path \in {"plain", "post"}
      <4>1. PICK w \in SUBSET (1..Len(nodes)), c \in BOOLEAN : g = WalkResult(w, c)
        BY <2>a, <2>2, <3>1 DEF GraphResults
      <4> QED
        BY <2>4, <4>1 DEF Live, WalkResult
    <3>2. CASE search.path \in {"bitmap", "ids"}
      <4>1. /\ \/ nodes = <<>> /\ g.ids = {}
               \/ \E t \in SUBSET (1..Len(nodes)), e \in 1..Len(nodes) :
                    g.ids = {nodes[n] : n \in t \cup {e}}
            /\ g.unreached = {} /\ g.cut = FALSE
        <5>1. PICK s \in SUBSET (1..Len(nodes)) : \E h \in Crossing(s) :
                g = [ids |-> h, unreached |-> {}, cut |-> FALSE]
          BY <2>2, <3>2 DEF GraphResults
        <5>2. PICK h \in Crossing(s) : g = [ids |-> h, unreached |-> {}, cut |-> FALSE]
          BY <5>1
        <5>3. \/ nodes = <<>> /\ h = {}
              \/ \E t \in SUBSET (1..Len(nodes)), e \in 1..Len(nodes) : h = {nodes[n] : n \in t \cup {e}}
          <6>1. CASE nodes = <<>>
            BY <5>2, <6>1 DEF Crossing
          <6>2. CASE nodes # <<>>
            <7>1. PICK t \in SUBSET s, e \in 1..Len(nodes) : h = {nodes[n] : n \in t \cup {e}}
              BY <5>2, <6>2, SMTT(30) DEF Crossing
            <7>2. t \in SUBSET (1..Len(nodes))
              BY <5>1, <7>1
            <7> QED
              BY <7>1, <7>2, Zenon
          <6> QED
            BY <6>1, <6>2
        <5>4. g.ids = h /\ g.unreached = {} /\ g.cut = FALSE
          BY <5>2
        <5> QED
          BY <5>3, <5>4
      <4> QED
        BY <2>4, <4>1
    <3> QED
      BY <2>3, <3>1, <3>2
  <2>6. TypeOK'
    <3>1. result' \in [path : {"none", "plain", "bitmap", "ids", "post"}, ids : SUBSET Ids,
                 missed : SUBSET Ids, ghosts : SUBSET Ids, inflight : SUBSET Ids,
                 unreached : SUBSET Ids, cut : BOOLEAN]
      BY <1>0, <2>2, <2>3, <2>5 DEF TypeOK
    <3> QED
      BY <1>0, <2>1, <3>1 DEF TypeOK, graph, IdleSearch
  <2>7. MissesExplained'
    <3>1. SUFFICES ASSUME search.path = "plain", NEW i \in present,
                          i \notin search.found \cup g.ids, i \notin g.unreached
                   PROVE  i \in search.inflight
      BY <2>2 DEF MissesExplained
    <3>2. \A n \in Live : nodes[n] \in g.ids \cup g.unreached
      <4>1. PICK w \in SUBSET (1..Len(nodes)), c \in BOOLEAN : g = WalkResult(w, c)
        BY <2>a, <2>2, <3>1 DEF GraphResults
      <4> QED
        BY <4>1 DEF WalkResult, Live
    <3>3. ~IsLive(i)
      <4>1. ASSUME IsLive(i) PROVE FALSE
        <5>1. i \in Ids
          BY <1>0 DEF TypeOK
        <5>2. idToNode[i] \in Live /\ nodes[idToNode[i]] = i
          BY <1>0, <4>1, <5>1 DEF IsLive, Live, GraphMapOK
        <5> QED
          BY <3>1, <3>2, <5>2
      <4> QED
        BY <4>1
    <3> QED
      BY <2>1, <3>1, <3>3 DEF Inv, SearchInv
  <2>8. NoVectorLost' /\ SearchInv' /\ DrainShape'
    BY <1>0, <2>1 DEF Inv, NoVectorLost, SearchInv, DrainShape, IdleSearch, IsLive, Live, InFlight, graph
  <2> QED
    BY <2>1, <2>6, <2>7, <2>8, SameGraph DEF Inv
<1>10. CASE UNCHANGED vars
  <2>1. /\ UNCHANGED graph
        /\ UNCHANGED <<dirty, mu, drain, writer, search, result, meta, bits, present, given, ops, rebuilds>>
    BY <1>10 DEF vars
  <2>2. TypeOK'
    BY <1>0, <2>1 DEF TypeOK, graph
  <2>3. NoVectorLost' /\ SearchInv' /\ DrainShape' /\ MissesExplained'
    BY <1>0, <2>1 DEF Inv, NoVectorLost, SearchInv, DrainShape, MissesExplained,
       IsLive, Live, InFlight, graph
  <2> QED
    BY <2>1, <2>2, <2>3, SameGraph DEF Inv
<1> QED
  BY <1>1, <1>2, <1>3, <1>4, <1>5, <1>6, <1>7, <1>8, <1>9, <1>10 DEF Next, DrainStep

\* Every state variable keeps its type, for any number of drainers.
THEOREM TypeCorrect == Spec => []TypeOK
<1>1. Inv => TypeOK
  BY DEF Inv
<1> QED
  BY <1>1, InvInit, InvStep, PTL DEF Spec

\* However drains, deletes, re-inserts and rebuilds interleave, an id never
\* has two live nodes and idToNode never points to another id's node.
THEOREM OneLiveNodePerId == Spec => []GraphMapOK
<1>1. Inv => GraphMapOK
  BY DEF Inv
<1> QED
  BY <1>1, InvInit, InvStep, PTL DEF Spec

\* No interleaving of any number of drains loses an inserted vector.
THEOREM NothingLost == Spec => []NoVectorLost
<1>1. Inv => NoVectorLost
  BY DEF Inv
<1> QED
  BY <1>1, InvInit, InvStep, PTL DEF Spec

\* Whatever runs between a search's reads of the buffer and of the graph, a
\* vector it misses was in flight when it read the buffer, or is live in the
\* graph and was not reached by its walk, however wide the beam.
THEOREM SearchMissesExplained == Spec => []MissesExplained
<1>1. Inv => MissesExplained
  BY DEF Inv
<1> QED
  BY <1>1, InvInit, InvStep, PTL DEF Spec
=============================================================================
