-------------------------- MODULE ReplicationProofs --------------------------
(***************************************************************************)
(* Proofs about Replication for any finite set of nodes and any number of  *)
(* concurrent writes and reads.                                            *)
(***************************************************************************)
EXTENDS Replication, FiniteSetTheorems, TLAPS

\* The nodes whose call has ended, answered or not.
Done(o) == {n \in Nodes : call[o][n] = "done"}

\* The nodes that have carried out w and whose call has ended.
Counted(w) == Holders(w) \cap Done(w)

\* No more answers are counted than calls have ended; an operation that has not
\* begun has none.
CallsOK ==
  \A o \in Ops :
    /\ acks[o] <= Cardinality(Done(o))
    /\ op[o] = None => acks[o] = 0 /\ result[o] = "none" /\ \A n \in Nodes : call[o][n] = "idle"
    /\ \A n \in Nodes : call[o][n] # "idle" => op[o] # None /\ n \in op[o].nodes

\* A result is final: it comes after the last call, and "ok" means enough.
ResultOK ==
  \A o \in Ops :
    /\ result[o] # "none" => \A n \in Nodes : call[o][n] \in {"idle", "done"}
    /\ result[o] = "ok" => Enough(o)

\* A node answers a write after it has carried it out, so that every answer
\* counted is one of a node that holds the vector, until it is deleted there.
AcksHeld ==
  \A w \in Writes \ removed :
    /\ \A n \in Nodes : call[w][n] = "answered" => w \in stored[n]
    /\ op[w] # None => acks[w] <= Cardinality(Counted(w))

\* Read r has collected w, or all the answers it counted came from nodes other
\* than the required holders of w, which still have w for it.
SeesOrAvoids(r, w) ==
  \/ w \in answers[r]
  \/ \E H, A \in SUBSET op[r].nodes :
       /\ H \cap A = {}
       /\ Cardinality(H) >= Required(w)
       /\ Cardinality(A) >= acks[r]
       /\ \A n \in H : w \in stored[n] /\ (call[r][n] = "answered" => w \in got[r][n])
       /\ \A n \in A : call[r][n] = "done"

ReadsOK ==
  \A r \in Reads : \A w \in known[r] :
    /\ op[r] # None /\ result[w] = "ok"
    /\ w \notin removed /\ op[w].nodes = op[r].nodes => SeesOrAvoids(r, w)

Inv ==
  /\ TypeOK /\ acks \in [Ops -> Nat]
  /\ CallsOK /\ ResultOK /\ AcksHeld /\ ReadsOK

-----------------------------------------------------------------------------
(* Counting.                                                               *)

\* A set of nodes is finite and its size is a number.
LEMMA NodeSets ==
  ASSUME NEW S, S \subseteq Nodes
  PROVE  IsFiniteSet(S) /\ Cardinality(S) \in Nat /\ Cardinality(S) <= Cardinality(Nodes)
         /\ Cardinality(Nodes) \in Nat
<1>1. IsFiniteSet(Nodes)
  BY ReplicationAssumption
<1>2. IsFiniteSet(S) /\ Cardinality(S) <= Cardinality(Nodes)
  BY <1>1, FS_Subset
<1> QED
  BY <1>1, <1>2, FS_CardinalityType

\* A larger set of nodes does not have fewer of them.
LEMMA NodeSetsGrow ==
  ASSUME NEW S, NEW T, S \subseteq T, T \subseteq Nodes
  PROVE  Cardinality(S) <= Cardinality(T)
<1>1. IsFiniteSet(T) /\ S \in SUBSET T
  BY NodeSets
<1> QED
  BY <1>1, FS_Subset

\* One more node counts for one more.
LEMMA NodeAdded ==
  ASSUME NEW S, S \subseteq Nodes, NEW n \in Nodes, n \notin S
  PROVE  Cardinality(S \cup {n}) = Cardinality(S) + 1
<1>1. IsFiniteSet(S)
  BY NodeSets
<1> QED
  BY <1>1, FS_AddElement

\* The number of answers a level requires, of a ring of at least one node.
LEMMA RequiredType ==
  ASSUME NEW level \in Levels, NEW k \in Nat
  PROVE  ResolveConsistency(level, k) \in Nat
<1>1. k \div 2 \in Nat
  OBVIOUS
<1> QED
  BY <1>1 DEF ResolveConsistency, Levels

\* Levels that meet: two quorums of one ring, or all of it and one node.
LEMMA LevelsMeet ==
  ASSUME NEW l \in Levels, NEW m \in Levels, NEW k \in Nat \ {0},
         "one" \notin {l, m} \/ "all" \in {l, m}
  PROVE  ResolveConsistency(l, k) + ResolveConsistency(m, k) > k
<1>1. k \div 2 \in Nat /\ 2 * (k \div 2) >= k - 1
  OBVIOUS
<1> QED
  BY <1>1 DEF ResolveConsistency, Levels

-----------------------------------------------------------------------------

LEMMA InvInit == Init => Inv
<1> SUFFICES ASSUME Init PROVE Inv
  OBVIOUS
<1>1. \A o \in Ops : Done(o) = {}
  BY DEF Init, Done
<1>2. Cardinality({}) = 0
  BY FS_EmptySet
<1>3. 0 \in 0..Cardinality(Nodes)
  BY NodeSets
<1>4. TypeOK
  BY <1>3 DEF Init, TypeOK, Calls
<1>5. CallsOK
  <2>1. \A o \in Ops : Cardinality(Done(o)) = 0
    BY <1>1, <1>2
  <2> QED
    BY <2>1 DEF Init, CallsOK
<1>6. ResultOK /\ AcksHeld /\ ReadsOK
  BY DEF Init, ResultOK, AcksHeld, ReadsOK, Ops
<1> QED
  BY <1>4, <1>5, <1>6 DEF Inv, Init

\* Steps that neither count an answer nor begin or end an operation: what nodes
\* have stored only grows but for the deletes, the calls that have ended too, and
\* a new answer has what its node stored.
LEMMA Progress ==
  ASSUME Inv, TypeOK', UNCHANGED <<op, acks, answers, result, known>>, removed \subseteq removed',
         \A n \in Nodes : stored[n] \ removed' \subseteq stored'[n],
         \A o \in Ops, n \in Nodes :
           /\ call'[o][n] = "idle" <=> call[o][n] = "idle"
           /\ call[o][n] = "done" => call'[o][n] = "done"
           /\ call'[o][n] = "answered" =>
                \/ call[o][n] = "answered" /\ got'[o][n] = got[o][n]
                \/ (o \in Writes => o \in stored'[n]) /\ (o \in Reads => stored[n] \subseteq got'[o][n])
  PROVE  Inv'
<1>0. /\ TypeOK /\ CallsOK /\ ResultOK /\ AcksHeld /\ ReadsOK /\ acks \in [Ops -> Nat]
      /\ Writes \subseteq Ops /\ Reads \subseteq Ops
  BY DEF Inv, Ops
<1>1. CallsOK'
  <2>1. ASSUME NEW o \in Ops PROVE acks'[o] <= Cardinality(Done(o)')
    <3>1. Done(o) \subseteq Done(o)' /\ Done(o)' \subseteq Nodes
      BY DEF Done
    <3>2. Cardinality(Done(o)) <= Cardinality(Done(o)')
      BY <3>1, NodeSetsGrow
    <3>3. Cardinality(Done(o)) \in Nat /\ Cardinality(Done(o)') \in Nat
      BY <3>1, NodeSets
    <3>4. acks[o] <= Cardinality(Done(o)) /\ acks[o] \in Nat
      BY <1>0 DEF CallsOK
    <3> QED
      BY <3>2, <3>3, <3>4
  <2> QED
    BY <1>0, <2>1 DEF CallsOK
<1>2. ResultOK'
  BY <1>0 DEF ResultOK, Enough, Required
<1>3. AcksHeld'
  <2>1. ASSUME NEW w \in Writes \ removed', op'[w] # None PROVE acks'[w] <= Cardinality(Counted(w)')
    <3>1. Counted(w) \subseteq Counted(w)' /\ Counted(w)' \subseteq Nodes
      <4>1. op[w].nodes \subseteq Nodes
        BY <1>0, <2>1 DEF TypeOK, Op, Ops
      <4> QED
        BY <1>0, <4>1 DEF Done, Counted, Holders
    <3>2. Cardinality(Counted(w)) <= Cardinality(Counted(w)')
      BY <3>1, NodeSetsGrow
    <3>3. Cardinality(Counted(w)) \in Nat /\ Cardinality(Counted(w)') \in Nat
      BY <3>1, NodeSets
    <3>4. acks[w] <= Cardinality(Counted(w)) /\ acks[w] \in Nat
      BY <1>0, <2>1 DEF AcksHeld
    <3> QED
      BY <3>2, <3>3, <3>4
  <2>2. ASSUME NEW w \in Writes \ removed', NEW n \in Nodes, call'[w][n] = "answered"
        PROVE  w \in stored'[n]
    BY <1>0, <2>2 DEF AcksHeld
  <2> QED
    BY <2>1, <2>2 DEF AcksHeld
<1>4. ReadsOK'
  <2>1. SUFFICES ASSUME NEW r \in Reads, NEW w \in known[r], w \notin removed',
                        op[w].nodes = op[r].nodes, SeesOrAvoids(r, w)
                 PROVE  SeesOrAvoids(r, w)'
    BY <1>0 DEF ReadsOK
  <2>2. CASE w \in answers[r]
    BY <2>2 DEF SeesOrAvoids
  <2>3. CASE w \notin answers[r]
    <3>1. PICK H, A \in SUBSET op[r].nodes :
            /\ H \cap A = {}
            /\ Cardinality(H) >= Required(w)
            /\ Cardinality(A) >= acks[r]
            /\ \A n \in H : w \in stored[n] /\ (call[r][n] = "answered" => w \in got[r][n])
            /\ \A n \in A : call[r][n] = "done"
      BY <2>1, <2>3 DEF SeesOrAvoids
    <3>2. op[r].nodes \subseteq Nodes
      <4>1. op[r] # None
        BY <1>0, <2>1 DEF ReadsOK
      <4> QED
        BY <1>0, <4>1 DEF TypeOK, Op
    <3>3. Required(w)' = Required(w)
      BY DEF Required
    <3>4. \A n \in H : w \in stored'[n] /\ (call'[r][n] = "answered" => w \in got'[r][n])
      BY <1>0, <2>1, <3>1, <3>2
    <3>5. \A n \in A : call'[r][n] = "done"
      BY <1>0, <3>1, <3>2
    <3> QED
      BY <3>1, <3>3, <3>4, <3>5 DEF SeesOrAvoids
  <2> QED
    BY <2>2, <2>3
<1> QED
  BY <1>0, <1>1, <1>2, <1>3, <1>4 DEF Inv

-----------------------------------------------------------------------------
(* What the invariant says of a finished operation.                        *)

\* The nodes of an operation that has begun, and what it requires of them.
LEMMA OpFacts ==
  ASSUME Inv, NEW o \in Ops, op[o] # None
  PROVE  /\ op[o] \in Op /\ op[o].nodes \subseteq Nodes /\ op[o].nodes # {}
         /\ op[o].level \in Levels /\ Required(o) \in Nat
<1>1. op[o] \in Op
  BY DEF Inv, TypeOK
<1>2. op[o].nodes \subseteq Nodes /\ op[o].nodes # {} /\ op[o].level \in Levels
  BY <1>1 DEF Op
<1>3. Cardinality(op[o].nodes) \in Nat
  BY <1>2, NodeSets
<1> QED
  BY <1>1, <1>2, <1>3, RequiredType DEF Required

\* An acknowledged write is held by the nodes it requires.
LEMMA AckedHeld ==
  ASSUME Inv, NEW w \in Writes \ removed, result[w] = "ok"
  PROVE  op[w] # None /\ Holders(w) \subseteq op[w].nodes /\ Cardinality(Holders(w)) >= Required(w)
<1>1. w \in Ops /\ op[w] # None
  BY DEF Inv, CallsOK, Ops
<1>2. Holders(w) \subseteq op[w].nodes /\ op[w].nodes \subseteq Nodes /\ Required(w) \in Nat
  BY <1>1, OpFacts DEF Holders
<1>3. acks[w] >= Required(w) /\ acks[w] \in Nat /\ acks[w] <= Cardinality(Counted(w))
  BY <1>1 DEF Inv, ResultOK, Enough, AcksHeld
<1>4. Counted(w) \subseteq Holders(w)
  BY DEF Counted
<1>5. /\ Cardinality(Counted(w)) <= Cardinality(Holders(w))
      /\ Cardinality(Counted(w)) \in Nat /\ Cardinality(Holders(w)) \in Nat
  BY <1>2, <1>4, NodeSets, NodeSetsGrow
<1> QED
  BY <1>1, <1>2, <1>3, <1>5

LEMMA InvAckedOnRequired == Inv => AckedOnRequired
  BY AckedHeld DEF AckedOnRequired

LEMMA InvQuorumsMeet == Inv => QuorumsMeet
<1> SUFFICES ASSUME Inv, NEW r \in Reads, result[r] = "ok", NEW w \in known[r] \ removed,
                    op[w].nodes = op[r].nodes,
                    "one" \notin {op[w].level, op[r].level} \/ "all" \in {op[w].level, op[r].level},
                    w \notin answers[r]
             PROVE  FALSE
  BY DEF QuorumsMeet
<1>1. r \in Ops /\ w \in Writes /\ w \in Ops /\ result[w] = "ok" /\ op[r] # None
  BY DEF Inv, TypeOK, ReadsOK, Ops
<1>2. op[w] # None
  BY <1>1, AckedHeld
<1>3. PICK H, A \in SUBSET op[r].nodes :
        /\ H \cap A = {}
        /\ Cardinality(H) >= Required(w)
        /\ Cardinality(A) >= acks[r]
  BY DEF Inv, ReadsOK, SeesOrAvoids
<1>4. acks[r] >= Required(r) /\ acks[r] \in Nat
  BY <1>1 DEF Inv, ResultOK, Enough
<1> DEFINE k == Cardinality(op[r].nodes)
<1>5. /\ IsFiniteSet(op[r].nodes) /\ k \in Nat /\ op[r].nodes # {}
      /\ Cardinality(H) \in Nat /\ Cardinality(A) \in Nat
  BY <1>1, <1>3, OpFacts, NodeSets
<1>6. k # 0
  BY <1>5, FS_EmptySet
<1>7. Required(w) + Required(r) > k
  <2>1. op[w].level \in Levels /\ op[r].level \in Levels /\ k \in Nat \ {0}
    BY <1>1, <1>2, <1>5, <1>6, OpFacts
  <2>2. Required(w) = ResolveConsistency(op[w].level, k) /\ Required(r) = ResolveConsistency(op[r].level, k)
    BY DEF Required
  <2> HIDE DEF k
  <2>3. ResolveConsistency(op[w].level, k) + ResolveConsistency(op[r].level, k) > k
    BY <2>1, LevelsMeet
  <2> QED
    BY <2>2, <2>3
<1>8. Required(w) \in Nat /\ Required(r) \in Nat
  BY <1>1, <1>2, OpFacts
<1>9. Cardinality(H) + Cardinality(A) > k
  BY <1>3, <1>4, <1>5, <1>7, <1>8
<1>10. H \cap A # {}
  BY <1>3, <1>5, <1>9, FS_MajoritiesIntersect
<1> QED
  BY <1>3, <1>10

-----------------------------------------------------------------------------
(* The steps that begin an operation, count an answer, or end it.          *)

LEMMA BeginStep ==
  ASSUME Inv, NEW o \in Ops, NEW client \in Clients, NEW N \in (SUBSET Nodes) \ {{}},
         NEW level \in Levels, Begin(o, client, N, level)
  PROVE  Inv'
<1>0. /\ TypeOK /\ CallsOK /\ ResultOK /\ AcksHeld /\ ReadsOK /\ acks \in [Ops -> Nat]
      /\ Writes \subseteq Ops /\ Reads \subseteq Ops /\ Writes \cap Reads = {}
  BY ReplicationAssumption DEF Inv, Ops
<1>1. /\ op[o] = None /\ acks[o] = 0 /\ result[o] = "none"
      /\ op' = [op EXCEPT ![o] = [client |-> client, nodes |-> N, level |-> level]]
      /\ call' = [call EXCEPT ![o] = [n \in Nodes |-> IF n \in N THEN "ready" ELSE "idle"]]
      /\ known' = IF o \in Reads THEN [known EXCEPT ![o] = {w \in Writes : result[w] = "ok"}] ELSE known
      /\ UNCHANGED <<acks, answers, results, lost, got, result, orphans, stored, removed>>
  BY <1>0 DEF Begin, CallsOK
<1>2. [client |-> client, nodes |-> N, level |-> level] \in Op /\ [client |-> client, nodes |-> N, level |-> level] # None
  BY ReplicationAssumption DEF Op
<1>3. /\ op'[o] = [client |-> client, nodes |-> N, level |-> level]
      /\ \A p \in Ops \ {o} : op'[p] = op[p] /\ call'[p] = call[p] /\ known'[p] = known[p]
      /\ \A n \in Nodes : call'[o][n] = IF n \in N THEN "ready" ELSE "idle"
  BY <1>0, <1>1 DEF TypeOK
<1>4. TypeOK'
  <2>1. op' \in [Ops -> Op \cup {None}]
    BY <1>0, <1>1, <1>2 DEF TypeOK
  <2>2. call' \in [Ops -> [Nodes -> Calls]]
    BY <1>0, <1>1 DEF TypeOK, Calls
  <2>3. known' \in [Ops -> SUBSET Writes]
    BY <1>0, <1>1 DEF TypeOK
  <2> QED
    BY <1>0, <1>1, <2>1, <2>2, <2>3 DEF TypeOK
<1>5. CallsOK'
  <2>1. ASSUME NEW p \in Ops PROVE acks'[p] <= Cardinality(Done(p)')
    <3>1. CASE p = o
      <4>1. Cardinality(Done(p)') \in Nat
        BY NodeSets DEF Done
      <4> QED
        BY <1>1, <3>1, <4>1
    <3>2. CASE p # o
      <4>1. Done(p)' = Done(p)
        BY <1>3, <3>2 DEF Done
      <4> QED
        BY <1>0, <1>1, <4>1 DEF CallsOK
    <3> QED
      BY <3>1, <3>2
  <2> QED
    BY <1>0, <1>1, <1>2, <1>3, <2>1 DEF CallsOK
<1>6. ResultOK'
  <2>1. \A p \in Ops : result[p] # "none" => p # o
    BY <1>1
  <2> QED
    BY <1>0, <1>1, <1>3, <2>1 DEF ResultOK, Enough, Required
<1>7. AcksHeld'
  <2>1. ASSUME NEW w \in Writes \ removed, NEW n \in Nodes, call'[w][n] = "answered"
        PROVE  w \in stored'[n]
    <3>1. w # o
      BY <1>3, <2>1
    <3> QED
      BY <1>0, <1>1, <1>3, <2>1, <3>1 DEF AcksHeld
  <2>2. ASSUME NEW w \in Writes \ removed, op'[w] # None PROVE acks'[w] <= Cardinality(Counted(w)')
    <3>1. CASE w = o
      <4>1. Cardinality(Counted(w)') \in Nat
        BY NodeSets DEF Counted, Done
      <4> QED
        BY <1>1, <3>1, <4>1
    <3>2. CASE w # o
      <4>1. Counted(w)' = Counted(w) /\ op[w] # None
        BY <1>0, <1>1, <1>3, <2>2, <3>2 DEF Counted, Done, Holders
      <4> QED
        BY <1>0, <1>1, <4>1 DEF AcksHeld
    <3> QED
      BY <3>1, <3>2
  <2> QED
    BY <1>1, <2>1, <2>2 DEF AcksHeld
<1>8. ReadsOK'
  <2>1. SUFFICES ASSUME NEW r \in Reads, NEW w \in known'[r]
                 PROVE  /\ op'[r] # None /\ result'[w] = "ok"
                        /\ w \notin removed /\ op'[w].nodes = op'[r].nodes => SeesOrAvoids(r, w)'
    BY <1>1 DEF ReadsOK
  <2>2. CASE r = o
    <3>1. w \in Writes /\ result[w] = "ok" /\ w # o
      BY <1>0, <1>1, <2>1, <2>2 DEF TypeOK
    <3>2. w \notin removed =>
            op[w] # None /\ Holders(w) \subseteq op[w].nodes /\ Cardinality(Holders(w)) >= Required(w)
      BY <3>1, AckedHeld
    <3>3. Required(w)' = Required(w) /\ op'[w] = op[w]
      BY <1>0, <1>3, <3>1 DEF Required
    <3>4. ASSUME w \notin removed, op'[w].nodes = op'[r].nodes PROVE SeesOrAvoids(r, w)'
      <4>1. Holders(w) \subseteq op'[r].nodes /\ {} \subseteq op'[r].nodes /\ Cardinality({}) = 0
        BY <3>2, <3>3, <3>4, FS_EmptySet
      <4>2. /\ Cardinality(Holders(w)) >= Required(w)'
            /\ Cardinality({}) >= acks'[r]
        BY <1>1, <2>2, <3>2, <3>3, <3>4, <4>1
      <4>3. \A n \in Holders(w) : w \in stored'[n] /\ call'[r][n] # "answered"
        <5>1. Holders(w) \subseteq Nodes /\ \A n \in Holders(w) : w \in stored[n]
          BY <1>0, <3>1, <3>2, <3>4, OpFacts DEF Holders
        <5> QED
          BY <1>1, <1>3, <2>2, <5>1
      <4> QED
        BY <4>1, <4>2, <4>3 DEF SeesOrAvoids
    <3> QED
      BY <1>1, <1>2, <1>3, <2>2, <3>1, <3>4
  <2>3. CASE r # o
    <3>1. /\ w \in known[r] /\ r \in Ops /\ w \in Ops
          /\ op'[r] = op[r] /\ call'[r] = call[r]
      BY <1>0, <1>3, <2>1, <2>3 DEF TypeOK
    <3>2. result[w] = "ok" /\ op[r] # None
          /\ (w \notin removed /\ op[w].nodes = op[r].nodes => SeesOrAvoids(r, w))
      BY <1>0, <3>1 DEF ReadsOK
    <3>3. w # o
      BY <1>1, <3>2
    <3>4. op'[w] = op[w] /\ Required(w)' = Required(w)
      BY <1>3, <3>1, <3>3 DEF Required
    <3>5. SeesOrAvoids(r, w) => SeesOrAvoids(r, w)'
      BY <1>1, <3>1, <3>4 DEF SeesOrAvoids
    <3> QED
      BY <1>1, <3>1, <3>2, <3>4, <3>5
  <2> QED
    BY <2>2, <2>3
<1> QED
  BY <1>0, <1>1, <1>4, <1>5, <1>6, <1>7, <1>8 DEF Inv

LEMMA ReturnStep ==
  ASSUME Inv, NEW o \in Ops, Return(o)
  PROVE  Inv'
<1>0. /\ TypeOK /\ CallsOK /\ ResultOK /\ AcksHeld /\ ReadsOK /\ acks \in [Ops -> Nat]
      /\ Writes \subseteq Ops /\ Reads \subseteq Ops
  BY DEF Inv, Ops
<1>1. /\ op[o] # None /\ result[o] = "none"
      /\ \A n \in Nodes : call[o][n] \in {"idle", "done"}
      /\ result' = [result EXCEPT ![o] = IF Enough(o) THEN "ok" ELSE "error"]
      /\ UNCHANGED <<op, call, acks, answers, results, lost, got, orphans, stored, known, removed>>
  BY DEF Return, Active
<1>2. /\ result'[o] = IF Enough(o) THEN "ok" ELSE "error"
      /\ \A p \in Ops \ {o} : result'[p] = result[p]
  BY <1>0, <1>1 DEF TypeOK
<1>3. TypeOK'
  BY <1>0, <1>1 DEF TypeOK
<1>4. CallsOK'
  <2>1. \A p \in Ops : Done(p)' = Done(p)
    BY <1>1 DEF Done
  <2> QED
    BY <1>0, <1>1, <1>2, <2>1 DEF CallsOK
<1>5. ResultOK'
  <2>1. \A p \in Ops : Enough(p)' = Enough(p)
    BY <1>1 DEF Enough, Required
  <2> QED
    BY <1>0, <1>1, <1>2, <2>1 DEF ResultOK
<1>6. AcksHeld'
  <2>1. \A w \in Writes : Counted(w)' = Counted(w)
    BY <1>1 DEF Counted, Done, Holders
  <2> QED
    BY <1>0, <1>1, <2>1 DEF AcksHeld
<1>7. ReadsOK'
  <2>1. ASSUME NEW r \in Reads, NEW w \in known[r]
        PROVE  /\ op[r] # None /\ result'[w] = "ok"
               /\ w \notin removed /\ op[w].nodes = op[r].nodes => SeesOrAvoids(r, w)
    <3>1. w \in Ops /\ result[w] = "ok"
      BY <1>0, <2>1 DEF TypeOK, ReadsOK
    <3>2. w # o
      BY <1>1, <3>1
    <3> QED
      BY <1>0, <1>2, <2>1, <3>1, <3>2 DEF ReadsOK
  <2>2. ASSUME NEW r \in Reads, NEW w \in known[r] PROVE SeesOrAvoids(r, w) => SeesOrAvoids(r, w)'
    BY <1>1 DEF SeesOrAvoids, Required
  <2> QED
    BY <1>1, <2>1, <2>2 DEF ReadsOK
<1> QED
  BY <1>0, <1>1, <1>3, <1>4, <1>5, <1>6, <1>7 DEF Inv

LEMMA AnswerStep ==
  ASSUME Inv, NEW o \in Ops, NEW n \in Nodes, Answer(o, n)
  PROVE  Inv'
<1>0. /\ TypeOK /\ CallsOK /\ ResultOK /\ AcksHeld /\ ReadsOK /\ acks \in [Ops -> Nat]
      /\ Writes \subseteq Ops /\ Reads \subseteq Ops /\ Writes \cap Reads = {}
  BY ReplicationAssumption DEF Inv, Ops
<1>1. /\ call[o][n] = "answered"
      /\ call' = [call EXCEPT ![o][n] = "done"]
      /\ acks' = [acks EXCEPT ![o] = @ + 1]
      /\ answers' = IF o \in Reads THEN [answers EXCEPT ![o] = @ \cup got[o][n]] ELSE answers
      /\ results' = IF o \in Reads THEN [results EXCEPT ![o] = @ \cup Decoded(o, got[o][n])] ELSE results
      /\ got' = [got EXCEPT ![o][n] = {}]
      /\ UNCHANGED <<op, lost, result, orphans, stored, known, removed>>
  BY DEF Answer
<1>2. op[o] # None /\ n \in op[o].nodes /\ result[o] = "none"
  BY <1>0, <1>1 DEF CallsOK, ResultOK, TypeOK
<1>3. /\ acks'[o] = acks[o] + 1 /\ \A p \in Ops \ {o} : acks'[p] = acks[p]
      /\ call'[o][n] = "done"
      /\ \A p \in Ops, m \in Nodes : p # o \/ m # n => call'[p][m] = call[p][m] /\ got'[p][m] = got[p][m]
      /\ \A p \in Ops \ {o} : answers'[p] = answers[p]
      /\ o \in Reads => answers'[o] = answers[o] \cup got[o][n]
      /\ acks' \in [Ops -> Nat]
  BY <1>0, <1>1 DEF TypeOK
<1>4. /\ Done(o)' = Done(o) \cup {n} /\ n \notin Done(o)
      /\ \A p \in Ops \ {o} : Done(p)' = Done(p)
  BY <1>0, <1>1, <1>3 DEF Done, TypeOK
<1>5. Cardinality(Done(o)') = Cardinality(Done(o)) + 1 /\ Cardinality(Done(o)') <= Cardinality(Nodes)
  <2>1. Done(o) \subseteq Nodes /\ Done(o)' \subseteq Nodes
    BY DEF Done
  <2> QED
    BY <1>4, <2>1, NodeAdded, NodeSets
<1>6. \A p \in Ops : acks'[p] <= Cardinality(Done(p)')
  <2>1. ASSUME NEW p \in Ops PROVE acks'[p] <= Cardinality(Done(p)')
    <3>1. Cardinality(Done(p)) \in Nat /\ acks[p] \in Nat /\ acks[p] <= Cardinality(Done(p))
      BY <1>0, NodeSets DEF Done, CallsOK
    <3>2. CASE p = o
      BY <1>3, <1>5, <3>1, <3>2
    <3>3. CASE p # o
      <4>1. Done(p)' = Done(p) /\ acks'[p] = acks[p]
        BY <1>3, <1>4, <3>3
      <4> QED
        BY <3>1, <4>1
    <3> QED
      BY <3>2, <3>3
  <2> QED
    BY <2>1
<1>7. TypeOK'
  <2>1. \A p \in Ops : acks'[p] \in 0..Cardinality(Nodes)
    <3>1. ASSUME NEW p \in Ops PROVE acks'[p] \in 0..Cardinality(Nodes)
      <4>1. /\ Cardinality(Done(p)') \in Nat /\ Cardinality(Nodes) \in Nat
            /\ Cardinality(Done(p)') <= Cardinality(Nodes)
        BY NodeSets DEF Done
      <4>2. acks'[p] \in Nat /\ acks'[p] <= Cardinality(Done(p)')
        BY <1>3, <1>6
      <4> QED
        BY <4>1, <4>2
    <3> QED
      BY <3>1
  <2>2. call' \in [Ops -> [Nodes -> Calls]] /\ got' \in [Ops -> [Nodes -> SUBSET Writes]]
    BY <1>0, <1>1 DEF TypeOK, Calls
  <2>3. answers' \in [Ops -> SUBSET Writes] /\ results' \in [Ops -> SUBSET Writes]
    <3>1. got[o][n] \in SUBSET Writes /\ Decoded(o, got[o][n]) \in SUBSET Writes
      BY <1>0 DEF TypeOK, Decoded
    <3> QED
      BY <1>0, <1>1, <3>1 DEF TypeOK
  <2> QED
    BY <1>0, <1>1, <2>1, <2>2, <2>3 DEF TypeOK
<1>8. CallsOK'
  <2>1. \A p \in Ops : op[p] = None => p # o
    BY <1>2
  <2> QED
    BY <1>0, <1>1, <1>2, <1>3, <1>6, <2>1 DEF CallsOK
<1>9. ResultOK'
  <2>1. \A p \in Ops : result[p] # "none" => p # o
    BY <1>2
  <2> QED
    BY <1>0, <1>1, <1>3, <2>1 DEF ResultOK, Enough, Required
<1>10. AcksHeld'
  <2>1. ASSUME NEW w \in Writes \ removed, NEW m \in Nodes, call'[w][m] = "answered"
        PROVE  w \in stored'[m]
    BY <1>0, <1>1, <1>3, <2>1 DEF AcksHeld
  <2>2. ASSUME NEW w \in Writes \ removed, op'[w] # None PROVE acks'[w] <= Cardinality(Counted(w)')
    <3>1. CASE w = o
      <4>1. o \in stored[n]
        BY <1>0, <1>1, <2>2, <3>1 DEF AcksHeld
      <4>2. Counted(o)' = Counted(o) \cup {n} /\ n \notin Counted(o) /\ Counted(o) \subseteq Nodes
        BY <1>1, <1>2, <1>4, <4>1 DEF Counted, Holders, Done
      <4>3. Cardinality(Counted(o)') = Cardinality(Counted(o)) + 1 /\ Cardinality(Counted(o)) \in Nat
        BY <4>2, NodeAdded, NodeSets
      <4>4. acks[o] <= Cardinality(Counted(o)) /\ acks[o] \in Nat
        BY <1>0, <1>2, <2>2, <3>1 DEF AcksHeld
      <4> QED
        BY <1>3, <3>1, <4>3, <4>4
    <3>2. CASE w # o
      <4>1. Counted(w)' = Counted(w)
        BY <1>0, <1>1, <1>4, <3>2 DEF Counted, Holders
      <4> QED
        BY <1>0, <1>1, <1>3, <2>2, <3>2, <4>1 DEF AcksHeld
    <3> QED
      BY <3>1, <3>2
  <2> QED
    BY <1>1, <2>1, <2>2 DEF AcksHeld
<1>11. ReadsOK'
  <2>1. SUFFICES ASSUME NEW r \in Reads, NEW w \in known[r] \ removed, op[w].nodes = op[r].nodes
                 PROVE  SeesOrAvoids(r, w)'
    BY <1>0, <1>1 DEF ReadsOK
  <2>2. /\ r \in Ops /\ op[r] # None /\ op[r].nodes \subseteq Nodes /\ Required(w)' = Required(w)
        /\ SeesOrAvoids(r, w)
    BY <1>0, <1>1, <2>1, OpFacts DEF ReadsOK, Required
  <2>3. CASE w \in answers[r]
    <3>1. answers[r] \subseteq answers'[r]
      BY <1>0, <1>3, <2>2
    <3> QED
      BY <2>3, <3>1 DEF SeesOrAvoids
  <2>4. CASE w \notin answers[r]
    <3>1. PICK H, A \in SUBSET op[r].nodes :
            /\ H \cap A = {}
            /\ Cardinality(H) >= Required(w)
            /\ Cardinality(A) >= acks[r]
            /\ \A m \in H : w \in stored[m] /\ (call[r][m] = "answered" => w \in got[r][m])
            /\ \A m \in A : call[r][m] = "done"
      BY <2>2, <2>4 DEF SeesOrAvoids
    <3>2. CASE r # o
      <4>1. \A m \in H : w \in stored'[m] /\ (call'[r][m] = "answered" => w \in got'[r][m])
        BY <1>1, <1>3, <2>2, <3>1, <3>2
      <4>2. \A m \in A : call'[r][m] = "done"
        BY <1>3, <2>2, <3>1, <3>2
      <4>3. acks'[r] = acks[r] /\ op'[r] = op[r]
        BY <1>1, <1>3, <2>2, <3>2
      <4> QED
        BY <2>2, <3>1, <4>1, <4>2, <4>3 DEF SeesOrAvoids
    <3>3. CASE r = o /\ n \in H
      <4>1. w \in got[r][n]
        BY <1>1, <3>1, <3>3
      <4> QED
        BY <1>3, <2>1, <3>3, <4>1 DEF SeesOrAvoids
    <3>4. CASE r = o /\ n \notin H
      <4> DEFINE B == A \cup {n}
      <4>1. B \subseteq op'[r].nodes /\ H \subseteq op'[r].nodes /\ H \cap B = {}
        BY <1>1, <1>2, <3>1, <3>4
      <4>2. n \notin A
        BY <1>1, <3>1, <3>4
      <4>3. Cardinality(B) = Cardinality(A) + 1 /\ Cardinality(A) \in Nat
        BY <2>2, <3>1, <4>2, NodeAdded, NodeSets
      <4>4. Cardinality(B) >= acks'[r]
        <5>1. acks[r] \in Nat /\ Cardinality(A) >= acks[r] /\ acks'[r] = acks[r] + 1
          BY <1>0, <1>3, <2>2, <3>1, <3>4
        <5> QED
          BY <4>3, <5>1
      <4>5. \A m \in H : w \in stored'[m] /\ (call'[r][m] = "answered" => w \in got'[r][m])
        BY <1>1, <1>3, <2>2, <3>1, <3>4
      <4>6. \A m \in B : call'[r][m] = "done"
        BY <1>3, <2>2, <3>1, <3>4
      <4> HIDE DEF B
      <4> QED
        BY <2>2, <3>1, <4>1, <4>4, <4>5, <4>6 DEF SeesOrAvoids
    <3> QED
      BY <3>2, <3>3, <3>4
  <2> QED
    BY <2>3, <2>4
<1> QED
  BY <1>3, <1>7, <1>8, <1>9, <1>10, <1>11 DEF Inv

-----------------------------------------------------------------------------

\* Every step of an operation, and of a call that was given up, keeps the
\* invariant.
LEMMA InvStep == Inv /\ [Next]_vars => Inv'
<1> SUFFICES ASSUME Inv, [Next]_vars PROVE Inv'
  OBVIOUS
<1>0. TypeOK /\ Writes \subseteq Ops /\ Reads \subseteq Ops /\ Writes \cap Reads = {}
  BY ReplicationAssumption DEF Inv, Ops
<1>1. ASSUME NEW o \in Ops, NEW client \in Clients, NEW N \in (SUBSET Nodes) \ {{}}, NEW level \in Levels,
             Begin(o, client, N, level)
      PROVE  Inv'
  BY <1>1, BeginStep
<1>2. ASSUME NEW o \in Ops, NEW n \in Nodes,
             Send(o, n) \/ Unreachable(o, n) \/ Skip(o, n) \/ Refuse(o, n)
      PROVE  Inv'
  <2>1. PICK c \in {"sent", "done"} :
          /\ call[o][n] \in {"ready", "sent"} /\ call' = [call EXCEPT ![o][n] = c]
          /\ lost' = lost \/ lost' = [lost EXCEPT ![o] = @ \cup {n}]
          /\ UNCHANGED <<op, acks, answers, results, got, result, orphans, stored, known, removed>>
    BY <1>2 DEF Send, Unreachable, Skip, Refuse
  <2>2. TypeOK'
    <3>1. call' \in [Ops -> [Nodes -> Calls]]
      BY <1>0, <2>1 DEF TypeOK, Calls
    <3>2. lost' \in [Ops -> SUBSET Nodes]
      <4>1. CASE lost' = lost
        BY <1>0, <4>1 DEF TypeOK
      <4>2. CASE lost' = [lost EXCEPT ![o] = @ \cup {n}]
        BY <1>0, <4>2 DEF TypeOK
      <4> QED
        BY <2>1, <4>1, <4>2
    <3> QED
      BY <1>0, <2>1, <3>1, <3>2 DEF TypeOK
  <2>3. \A p \in Ops, m \in Nodes : call'[p][m] = IF p = o /\ m = n THEN c ELSE call[p][m]
    BY <1>0, <2>1 DEF TypeOK
  <2> QED
    BY <2>1, <2>2, <2>3, Progress
<1>3. ASSUME NEW o \in Ops, NEW n \in Nodes, Serve(o, n) PROVE Inv'
  <2>1. /\ call[o][n] = "sent" /\ call' = [call EXCEPT ![o][n] = "answered"]
        /\ stored' = IF o \in Writes THEN [stored EXCEPT ![n] = @ \cup {o}] ELSE stored
        /\ got' = IF o \in Reads THEN [got EXCEPT ![o][n] = stored[n]] ELSE got
        /\ UNCHANGED <<op, acks, answers, results, lost, result, orphans, known, removed>>
    BY <1>3 DEF Serve
  <2>2. TypeOK'
    <3>1. call' \in [Ops -> [Nodes -> Calls]]
      BY <1>0, <2>1 DEF TypeOK, Calls
    <3>2. stored' \in [Nodes -> SUBSET Writes] /\ got' \in [Ops -> [Nodes -> SUBSET Writes]]
      BY <1>0, <2>1 DEF TypeOK
    <3> QED
      BY <1>0, <2>1, <3>1, <3>2 DEF TypeOK
  <2>3. /\ \A p \in Ops, m \in Nodes : call'[p][m] = IF p = o /\ m = n THEN "answered" ELSE call[p][m]
        /\ \A p \in Ops, m \in Nodes : p # o \/ m # n => got'[p][m] = got[p][m]
        /\ o \in Reads => got'[o][n] = stored[n]
        /\ \A m \in Nodes : stored[m] \subseteq stored'[m]
        /\ o \in Writes => o \in stored'[n]
    BY <1>0, <2>1 DEF TypeOK
  <2> QED
    BY <2>1, <2>2, <2>3, Progress
<1>4. ASSUME NEW o \in Ops, NEW n \in Nodes, Answer(o, n) PROVE Inv'
  BY <1>4, AnswerStep
<1>5. ASSUME NEW o \in Ops, NEW n \in Nodes, GiveUp(o, n) PROVE Inv'
  <2>1. /\ call[o][n] \in {"sent", "answered"} /\ call' = [call EXCEPT ![o][n] = "done"]
        /\ lost' = [lost EXCEPT ![o] = @ \cup {n}]
        /\ orphans' = IF call[o][n] = "sent" /\ Lands(o) THEN orphans \cup {<<o, n>>} ELSE orphans
        /\ got' = [got EXCEPT ![o][n] = {}]
        /\ UNCHANGED <<op, acks, answers, results, result, stored, known, removed>>
    BY <1>5 DEF GiveUp
  <2>2. TypeOK'
    <3>1. call' \in [Ops -> [Nodes -> Calls]] /\ got' \in [Ops -> [Nodes -> SUBSET Writes]]
      BY <1>0, <2>1 DEF TypeOK, Calls
    <3>2. orphans' \in SUBSET (Writes \X Nodes) /\ lost' \in [Ops -> SUBSET Nodes]
      BY <1>0, <2>1 DEF TypeOK, Lands
    <3> QED
      BY <1>0, <2>1, <3>1, <3>2 DEF TypeOK
  <2>3. /\ \A p \in Ops, m \in Nodes : call'[p][m] = IF p = o /\ m = n THEN "done" ELSE call[p][m]
        /\ \A p \in Ops, m \in Nodes : p # o \/ m # n => got'[p][m] = got[p][m]
    BY <1>0, <2>1 DEF TypeOK
  <2> QED
    BY <2>1, <2>2, <2>3, Progress
<1>6. ASSUME NEW o \in Ops, NEW n \in Nodes, Orphan(o, n) PROVE Inv'
  <2>1. /\ <<o, n>> \in orphans /\ orphans' = orphans \ {<<o, n>>}
        /\ stored' = stored \/ stored' = [stored EXCEPT ![n] = @ \cup {o}]
        /\ UNCHANGED <<op, call, acks, answers, results, lost, got, result, known, removed>>
    BY <1>6 DEF Orphan
  <2>2. o \in Writes /\ orphans' \in SUBSET (Writes \X Nodes)
    BY <1>0, <2>1 DEF TypeOK
  <2>3. stored' \in [Nodes -> SUBSET Writes] /\ \A m \in Nodes : stored[m] \subseteq stored'[m]
    <3>1. stored \in [Nodes -> SUBSET Writes]
      BY <1>0 DEF TypeOK
    <3>2. CASE stored' = stored
      BY <3>1, <3>2
    <3>3. CASE stored' = [stored EXCEPT ![n] = @ \cup {o}]
      BY <2>2, <3>1, <3>3
    <3> QED
      BY <2>1, <3>2, <3>3
  <2>4. TypeOK'
    BY <1>0, <2>1, <2>2, <2>3 DEF TypeOK
  <2> QED
    BY <2>1, <2>3, <2>4, Progress
<1>7. ASSUME NEW o \in Ops, Return(o) PROVE Inv'
  BY <1>7, ReturnStep
<1>8. ASSUME NEW w \in Writes, NEW n \in Nodes, Remove(w, n) PROVE Inv'
  <2>1. /\ stored' = [stored EXCEPT ![n] = @ \ {w}] /\ removed' = removed \cup {w}
        /\ UNCHANGED <<op, call, acks, answers, results, lost, got, result, orphans, known>>
    BY <1>8 DEF Remove
  <2>2. TypeOK'
    BY <1>0, <2>1 DEF TypeOK
  <2>3. \A m \in Nodes : stored[m] \ removed' \subseteq stored'[m]
    BY <1>0, <2>1 DEF TypeOK
  <2> QED
    BY <2>1, <2>2, <2>3, Progress
<1>9. CASE UNCHANGED vars
  <2>1. /\ UNCHANGED <<op, call, acks, answers, results, lost, got, result, orphans, stored, known, removed>>
    BY <1>9 DEF vars
  <2>2. TypeOK'
    BY <1>0, <2>1 DEF TypeOK
  <2> QED
    BY <2>1, <2>2, Progress
<1> QED
  BY <1>1, <1>2, <1>3, <1>4, <1>5, <1>6, <1>7, <1>8, <1>9 DEF Next

-----------------------------------------------------------------------------

\* Every variable keeps its type; no operation counts more answers than there
\* are nodes.
THEOREM TypeCorrect == Spec => []TypeOK
<1>1. Inv => TypeOK
  BY DEF Inv
<1> QED
  BY <1>1, InvInit, InvStep, PTL DEF Spec

\* A write that CollectInsertAcks acknowledged is on as many nodes as its level
\* requires until it is deleted, for any number of nodes and of concurrent
\* operations.
THEOREM AcknowledgedOnRequired == Spec => []AckedOnRequired
  BY InvAckedOnRequired, InvInit, InvStep, PTL DEF Spec

\* When the level of a read meets that of a write acknowledged before it began,
\* one of the nodes that answered the read sent it that write, whatever the
\* caller makes of the answer (CollectInsertAcks, CollectSearchResults).
THEOREM OverlappingQuorumsMeet == Spec => []QuorumsMeet
  BY InvQuorumsMeet, InvInit, InvStep, PTL DEF Spec
=============================================================================
