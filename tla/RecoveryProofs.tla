--------------------------- MODULE RecoveryProofs ---------------------------
(***************************************************************************)
(* Proofs about Recovery, for every set of collections, ids and vectors    *)
(* and every bound.                                                        *)
(*                                                                         *)
(* The log decides.  An insert in the log that no snapshot of the restart  *)
(* and no start of the replay leaves out is, at any time, in the index, in *)
(* the hands of its writer, or still to be replayed; and the log has no    *)
(* delete after the last insert of an acknowledged vector, so a replayed   *)
(* delete always has the insert before it that it belongs to.              *)
(***************************************************************************)
EXTENDS Recovery, SequenceTheorems, NaturalsInduction, WellFoundedInduction, TLAPS

\* Every id of an index, deleted ones too.
Held(c) == IdsOf(nodes[c]) \cup IdsOf(dirty[c]) \cup IdsOf(batch[c])

\* The replay has an insert of i ahead of it that it will not skip.
Ahead(c, i) ==
  /\ mode = "replay"
  /\ \E k \in 1..Len(wal) : /\ InsertedAt(k, c, i) /\ k > pos
                            /\ c \in WithSnapshot => k > snap[c].seq

\* The writer of c has logged an insert of i and not yet made it.
InWriting(c, i) == writer[c] # None /\ writer[c].op = "insert" /\ writer[c].id = i

FlushOK ==
  /\ flush.todo \subseteq Hnsw
  /\ flush.pc # "idle" => flush.col \in Hnsw /\ AllLogged(flush.col, flush.batch)
  /\ mode # "flushing" => flush.pc = "idle" /\ flush.todo = {}
  /\ flush.todo \subseteq loaded
  /\ flush.pc # "idle" => flush.col \in loaded

CatalogOK ==
  /\ creating \subseteq catalog /\ created \subseteq catalog /\ catalog \subseteq used
  /\ loaded \subseteq used /\ dropping \subseteq used
  /\ creating \cap loaded = {} /\ dropping \cap (creating \cup created) = {}
  /\ mode # "down" => created \subseteq loaded
  /\ mode = "down" => loaded = {} /\ creating = {} /\ dropping = {}
  /\ \A c \in creating \cup (Cols \ used) : \A k \in 1..Len(wal) : wal[k].col # c

\* A writer's entry is the last one of its collection; a delete has taken its
\* id from those to be served.
WriterOK ==
  \A c \in Cols : writer[c] # None =>
    /\ \E k \in 1..Len(wal) : /\ wal[k] = writer[c] /\ wal[k].col = c
                              /\ \A l \in 1..Len(wal) : l > k => wal[l].col # c
    /\ writer[c].op = "delete" => writer[c].id \notin present[c]

\* The last entry of an acknowledged vector is its insert.
PresentOK ==
  \A c \in Cols : \A i \in present[c] :
    \E k \in 1..Len(wal) :
      /\ InsertedAt(k, c, i)
      /\ \A l \in 1..Len(wal) : l > k => ~(wal[l].op = "delete" /\ wal[l].col = c /\ wal[l].id = i)

SnapsLive ==
  \A c \in Cols : snap[c] # None => \A n \in 1..Len(snap[c].nodes) : ~snap[c].nodes[n].dead

HeldOK ==
  \A c \in (loaded \cap Hnsw) \ suspect :
    (mode = "flushing" => c \in flush.todo)
    => \A k \in 1..Len(wal), i \in Ids :
         InsertedAt(k, c, i) => i \in Held(c) \/ Ahead(c, i) \/ InWriting(c, i)

\* When no write was in progress, the collections still to be flushed hold
\* every insert up to the stamp, and so does the one that is being flushed.
ToFlushOK ==
  mode = "flushing" /\ flush.idle =>
    \A c \in flush.todo \ suspect : \A k \in 1..flush.seq, i \in Ids :
      InsertedAt(k, c, i) => i \in Held(c)

FlushedOK ==
  /\ ToFlushOK
  /\ flush.pc # "idle" /\ flush.idle /\ flush.col \notin suspect =>
       \A k \in 1..flush.seq, i \in Ids : InsertedAt(k, flush.col, i) =>
         \/ i \in IdsOf(nodes[flush.col]) \cup IdsOf(batch[flush.col])
         \/ flush.pc = "taken" /\ i \in IdsOf(flush.batch)

ServedOK ==
  mode \in {"up", "replay"} =>
    \A c \in created \ suspect : \A i \in present[c] : i \in Served(c) \/ Ahead(c, i)

Inv ==
  /\ TypeOK /\ FlushOK /\ CatalogOK /\ WriterOK /\ PresentOK /\ NothingInvented
  /\ SnapsLive /\ HeldOK /\ FlushedOK /\ QuietSnapshotCovers /\ ServedOK

-----------------------------------------------------------------------------
(* The operators on indexes.                                               *)

\* A set of numbers that is not empty has a least one.
LEMMA LeastNat ==
  ASSUME NEW S, S \subseteq Nat, S # {}
  PROVE  \E m \in S : \A n \in S : m <= n
<1>1. \E m \in S : \A n \in S : <<n, m>> \notin OpToRel(<, Nat)
  BY WFMin, NatLessThanWellFounded, Zenon
<1>2. PICK m \in S : \A n \in S : <<n, m>> \notin OpToRel(<, Nat)
  BY <1>1
<1>3. \A n \in S : ~(n < m)
  BY <1>2 DEF OpToRel
<1> QED
  BY <1>3

\* idToNode is 0 for an id the index does not know, and one of its nodes for
\* the others.
LEMMA NodeOfOK ==
  ASSUME NEW ns \in Seq(Node), NEW i
  PROVE  /\ NodeOf(ns, i) = 0 => \A n \in 1..Len(ns) : ns[n].id # i
         /\ NodeOf(ns, i) # 0 => NodeOf(ns, i) \in 1..Len(ns) /\ ns[NodeOf(ns, i)].id = i
<1>1. CASE ~\E n \in 1..Len(ns) : ns[n].id = i
  BY <1>1 DEF NodeOf
<1>2. CASE \E n \in 1..Len(ns) : ns[n].id = i
  <2> DEFINE Last(n) == ns[n].id = i /\ \A k \in n + 1 .. Len(ns) : ns[k].id # i
             S == {m \in Nat : \E n \in 1..Len(ns) : ns[n].id = i /\ m = Len(ns) - n}
  <2>1. Len(ns) \in Nat
    OBVIOUS
  <2>2. S # {} /\ S \subseteq Nat
    <3>1. PICK n \in 1..Len(ns) : ns[n].id = i
      BY <1>2
    <3>2. Len(ns) - n \in S
      BY <2>1, <3>1
    <3> QED
      BY <3>2
  <2>3. PICK m \in S : \A l \in S : m <= l
    BY <2>2, LeastNat, Zenon
  <2>4. PICK n \in 1..Len(ns) : ns[n].id = i /\ m = Len(ns) - n
    BY <2>3
  <2>5. ASSUME NEW k \in n + 1 .. Len(ns), ns[k].id = i PROVE FALSE
    <3>1. k \in 1..Len(ns) /\ Len(ns) - k \in Nat /\ ~(m <= Len(ns) - k)
      BY <2>1, <2>4
    <3>2. Len(ns) - k \in S
      BY <2>5, <3>1
    <3> QED
      BY <2>3, <3>1, <3>2
  <2>6. Last(n)
    BY <2>4, <2>5
  <2>7. NodeOf(ns, i) = CHOOSE l \in 1..Len(ns) : Last(l)
    BY <1>2 DEF NodeOf
  <2>8. NodeOf(ns, i) \in 1..Len(ns) /\ Last(NodeOf(ns, i))
    BY <2>4, <2>6, <2>7
  <2> QED
    BY <2>1, <2>8
<1> QED
  BY <1>1, <1>2

\* A later index has the nodes of an earlier one and new ones of the entries es.
Grown(ns, es, r) ==
  /\ r \in Seq(Node) /\ Len(ns) <= Len(r)
  /\ \A n \in 1..Len(ns) : r[n] = ns[n]
  /\ \A n \in 1..Len(r) : n > Len(ns) => \E e \in es : r[n].id = e.id /\ r[n].vec = e.vec
  /\ \A e \in es : \E n \in 1..Len(r) : r[n].id = e.id /\ ~r[n].dead

LEMMA AddNodeOK ==
  ASSUME NEW ns \in Seq(Node), NEW e, e.id \in Ids, e.vec \in Vecs
  PROVE  Grown(ns, {e}, AddNode(ns, e))
<1>1. CASE IsLive(ns, e.id)
  <2>1. NodeOf(ns, e.id) \in 1..Len(ns) /\ ns[NodeOf(ns, e.id)].id = e.id /\ ~ns[NodeOf(ns, e.id)].dead
    BY <1>1, NodeOfOK DEF IsLive
  <2>2. AddNode(ns, e) = ns
    BY <1>1 DEF AddNode
  <2> QED
    BY <2>1, <2>2 DEF Grown
<1>2. CASE ~IsLive(ns, e.id)
  <2>1. PICK x : x = [id |-> e.id, vec |-> e.vec, dead |-> FALSE]
    OBVIOUS
  <2>2. x \in Node /\ x.id = e.id /\ x.vec = e.vec /\ ~x.dead
    BY <2>1 DEF Node
  <2>3. AddNode(ns, e) = Append(ns, x)
    BY <1>2, <2>1 DEF AddNode
  <2> QED
    BY <2>2, <2>3 DEF Grown
<1> QED
  BY <1>1, <1>2

\* A batch is applied step by step.
Applying(ns, b, N, f) == f = [k \in 0..N |-> IF k = 0 THEN ns ELSE AddNode(f[k - 1], b[k])]

LEMMA ApplyingDefined ==
  ASSUME NEW ns, NEW b, NEW N \in Nat
  PROVE  \E f : Applying(ns, b, N, f)
<1> DEFINE Made(f, m) == f = [k \in 0..m |-> IF k = 0 THEN ns ELSE AddNode(f[k - 1], b[k])]
           S == {m \in Nat : ~\E f : Made(f, m)}
<1>1. S = {}
  <2> SUFFICES ASSUME S # {} PROVE FALSE
    OBVIOUS
  <2>1. PICK m \in S : \A n \in S : m <= n
    BY LeastNat
  <2>2. m # 0
    <3>1. Made([k \in 0..0 |-> ns], 0)
      OBVIOUS
    <3> QED
      BY <2>1, <3>1
  <2>3. m - 1 \in Nat /\ m - 1 \notin S
    <3>1. m \in Nat /\ m - 1 \in Nat /\ ~(m <= m - 1)
      BY <2>1, <2>2
    <3> QED
      BY <2>1, <3>1, Zenon
  <2>4. PICK f : Made(f, m - 1)
    BY <2>3
  <2> DEFINE g == [k \in 0..m |-> IF k = m THEN AddNode(f[m - 1], b[m]) ELSE f[k]]
  <2>5. \A k \in 0..m : g[k] = IF k = 0 THEN ns ELSE AddNode(g[k - 1], b[k])
    <3> SUFFICES ASSUME NEW k \in 0..m
                 PROVE  g[k] = IF k = 0 THEN ns ELSE AddNode(g[k - 1], b[k])
      OBVIOUS
    <3>1. CASE k = m
      <4>1. g[k] = AddNode(f[m - 1], b[m]) /\ g[m - 1] = f[m - 1]
        BY <2>2, <2>3, <3>1
      <4> QED
        BY <2>2, <3>1, <4>1
    <3>2. CASE k # m
      <4>1. k \in 0..(m - 1) /\ g[k] = f[k]
        BY <2>2, <3>2
      <4>2. f[k] = IF k = 0 THEN ns ELSE AddNode(f[k - 1], b[k])
        BY <2>4, <4>1
      <4>3. k # 0 => g[k - 1] = f[k - 1]
        BY <2>2, <4>1
      <4> QED
        BY <4>1, <4>2, <4>3
    <3> QED
      BY <3>1, <3>2
  <2>6. Made(g, m)
    BY <2>5
  <2> QED
    BY <2>1, <2>6
<1> QED
  BY <1>1 DEF Applying

\* After a batch the index has its old nodes, and of every entry a live one.
LEMMA ApplyOK ==
  ASSUME NEW ns \in Seq(Node), NEW b \in Seq(Insertion)
  PROVE  Grown(ns, {b[k] : k \in 1..Len(b)}, Apply(ns, b))
<1> DEFINE N == Len(b)
           Es(m) == {b[k] : k \in 1..m}
<1>1. N \in Nat /\ \A k \in 1..N : b[k].id \in Ids /\ b[k].vec \in Vecs
  <2>1. N \in Nat /\ \A k \in 1..N : b[k] \in Insertion
    OBVIOUS
  <2> QED
    BY <2>1 DEF Insertion
<1>2. PICK f : /\ \A k \in 0..N : f[k] = IF k = 0 THEN ns ELSE AddNode(f[k - 1], b[k])
               /\ Apply(ns, b) = f[N]
  <2> DEFINE Made(g) == g = [k \in 0..N |-> IF k = 0 THEN ns ELSE AddNode(g[k - 1], b[k])]
  <2>1. \E g : Made(g)
    <3>1. N \in Nat
      BY <1>1
    <3> HIDE DEF N
    <3>2. \E g : Applying(ns, b, N, g)
      BY <3>1, ApplyingDefined
    <3> QED
      BY <3>2 DEF Applying
  <2>2. Made(CHOOSE g : Made(g))
    BY <2>1, Zenon
  <2>3. Apply(ns, b) = (CHOOSE g : Made(g))[N]
    BY Zenon DEF Apply
  <2>4. PICK g : Made(g) /\ Apply(ns, b) = g[N]
    BY <2>2, <2>3, Zenon
  <2>5. \A k \in 0..N : g[k] = IF k = 0 THEN ns ELSE AddNode(g[k - 1], b[k])
    BY <2>4
  <2> QED
    BY <2>4, <2>5, Zenon
<1> HIDE DEF N
<1> DEFINE S == {k \in 0..N : ~Grown(ns, Es(k), f[k])}
<1>3. S = {}
  <2> SUFFICES ASSUME S # {} PROVE FALSE
    OBVIOUS
  <2>1. PICK k \in S : \A l \in S : k <= l
    <3>1. S \subseteq Nat
      BY <1>1
    <3> QED
      BY <3>1, LeastNat, Zenon
  <2>2. k \in 0..N /\ ~Grown(ns, Es(k), f[k])
    BY <2>1
  <2>3. CASE k = 0
    <3>1. f[0] = ns
      BY <1>1, <1>2
    <3>2. \A e : e \notin Es(0)
      OBVIOUS
    <3>3. Grown(ns, Es(0), ns)
      BY <3>2 DEF Grown
    <3> QED
      BY <2>2, <2>3, <3>1, <3>3
  <2>4. CASE k # 0
    <3>1. k \in Nat /\ k - 1 \in 0..N /\ k \in 1..N /\ ~(k <= k - 1)
      BY <1>1, <2>2, <2>4
    <3>2. Grown(ns, Es(k - 1), f[k - 1])
      BY <2>1, <3>1, Zenon
    <3>3. f[k] = AddNode(f[k - 1], b[k])
      BY <1>2, <2>2, <2>4
    <3>4. PICK q, r, e, old, new :
             /\ q = f[k - 1] /\ r = f[k] /\ e = b[k] /\ old = Es(k - 1) /\ new = Es(k)
      OBVIOUS
    <3>5. \A x : x \in new <=> x \in old \/ x = e
      <4>1. \A j : j \in 1..k <=> j \in 1..(k - 1) \/ j = k
        BY <3>1
      <4> QED
        BY <3>4, <4>1
    <3>6. Grown(ns, old, q)
      BY <3>2, <3>4, Zenon
    <3>7. Grown(q, {e}, r)
      <4>1. q \in Seq(Node)
        BY <3>6 DEF Grown
      <4>2. e.id \in Ids /\ e.vec \in Vecs /\ r = AddNode(q, e)
        BY <1>1, <3>1, <3>3, <3>4
      <4> QED
        BY <4>1, <4>2, AddNodeOK, Zenon
    <3>8. Grown(ns, new, r)
      <4>1. r \in Seq(Node) /\ q \in Seq(Node) /\ Len(ns) <= Len(q) /\ Len(q) <= Len(r)
        BY <3>6, <3>7 DEF Grown
      <4>2. Len(ns) <= Len(r) /\ 1..Len(ns) \subseteq 1..Len(q) /\ 1..Len(q) \subseteq 1..Len(r)
        BY <4>1
      <4>3. \A n \in 1..Len(ns) : r[n] = ns[n]
        BY <3>6, <3>7, <4>2 DEF Grown
      <4>4. ASSUME NEW n \in 1..Len(r), n > Len(ns)
            PROVE  \E x \in new : r[n].id = x.id /\ r[n].vec = x.vec
        <5>1. CASE n > Len(q)
          BY <3>5, <3>7, <4>4, <5>1 DEF Grown
        <5>2. CASE ~(n > Len(q))
          <6>1. n \in 1..Len(q)
            BY <4>1, <5>2
          <6>2. r[n] = q[n]
            BY <3>7, <6>1 DEF Grown
          <6>3. PICK x \in old : q[n].id = x.id /\ q[n].vec = x.vec
            BY <3>6, <4>4, <6>1 DEF Grown
          <6>4. x \in new
            BY <3>5, <6>3
          <6> QED
            BY <6>2, <6>3, <6>4
        <5> QED
          BY <5>1, <5>2
      <4>5. ASSUME NEW x \in new PROVE \E n \in 1..Len(r) : r[n].id = x.id /\ ~r[n].dead
        <5>1. CASE x = e
          BY <3>7, <5>1 DEF Grown
        <5>2. CASE x \in old
          <6>1. PICK n \in 1..Len(q) : q[n].id = x.id /\ ~q[n].dead
            BY <3>6, <5>2 DEF Grown
          <6>2. n \in 1..Len(r) /\ r[n] = q[n]
            BY <3>7, <4>2, <6>1 DEF Grown
          <6> QED
            BY <6>1, <6>2
        <5> QED
          BY <3>5, <4>5, <5>1, <5>2
      <4> QED
        BY <4>1, <4>2, <4>3, <4>4, <4>5 DEF Grown
    <3>9. Grown(ns, Es(k), f[k])
      BY <3>4, <3>8, Zenon
    <3> QED
      BY <2>2, <3>9
  <2> QED
    BY <2>3, <2>4
<1>4. N \in 0..N
  BY <1>1
<1>5. Grown(ns, Es(N), f[N])
  BY <1>3, <1>4
<1> QED
  BY <1>2, <1>5 DEF N

\* A row is taken out and no other.
LEMMA SwapRemoveOK ==
  ASSUME NEW ns \in Seq(Node), NEW m \in 1..Len(ns)
  PROVE  /\ SwapRemove(ns, m) \in Seq(Node)
         /\ \A n \in 1..Len(SwapRemove(ns, m)) : \E k \in 1..Len(ns) : SwapRemove(ns, m)[n] = ns[k]
         /\ \A k \in 1..Len(ns) : k # m => \E n \in 1..Len(SwapRemove(ns, m)) : SwapRemove(ns, m)[n] = ns[k]
<1>1. PICK s : s = [ns EXCEPT ![m] = ns[Len(ns)]]
  OBVIOUS
<1>2. /\ Len(ns) \in Nat \ {0} /\ s \in Seq(Node) /\ Len(s) = Len(ns)
      /\ \A n \in 1..Len(ns) : s[n] = IF n = m THEN ns[Len(ns)] ELSE ns[n]
  BY <1>1
<1>3. PICK r : r = SubSeq(s, 1, Len(ns) - 1)
  OBVIOUS
<1>4. /\ r \in Seq(Node) /\ Len(r) = Len(ns) - 1
      /\ \A n \in 1..(Len(ns) - 1) : r[n] = s[n]
  BY <1>2, <1>3
<1>5. SwapRemove(ns, m) = r
  BY <1>1, <1>3 DEF SwapRemove
<1>6. ASSUME NEW k \in 1..Len(ns), k # m PROVE \E n \in 1..Len(r) : r[n] = ns[k]
  <2>1. CASE k = Len(ns)
    <3>1. m \in 1..(Len(ns) - 1)
      BY <1>2, <1>6, <2>1
    <3> QED
      BY <1>2, <1>4, <2>1, <3>1
  <2>2. CASE k # Len(ns)
    <3>1. k \in 1..(Len(ns) - 1)
      BY <1>2, <2>2
    <3> QED
      BY <1>2, <1>4, <1>6, <3>1
  <2> QED
    BY <2>1, <2>2
<1>7. \A n \in 1..Len(r) : \E k \in 1..Len(ns) : r[n] = ns[k]
  BY <1>2, <1>4
<1> QED
  BY <1>4, <1>5, <1>6, <1>7

\* Every element of s is an insert into c in the log w.
InLog(w, c, s) ==
  \A n \in 1..Len(s) : \E k \in 1..Len(w) :
    w[k].op = "insert" /\ w[k].col = c /\ w[k].id = s[n].id /\ w[k].vec = s[n].vec

LEMMA AppliedOK ==
  ASSUME NEW ns \in Seq(Node), NEW b \in Seq(Insertion)
  PROVE  /\ Apply(ns, b) \in Seq(Node)
         /\ \A i : i \in IdsOf(ns) \/ i \in IdsOf(b) => i \in IdsOf(Apply(ns, b))
         /\ \A i : i \in LiveIds(ns) \/ i \in IdsOf(b) => i \in LiveIds(Apply(ns, b))
         /\ \A w, c : InLog(w, c, ns) /\ InLog(w, c, b) => InLog(w, c, Apply(ns, b))
<1>1. PICK r, es : r = Apply(ns, b) /\ es = {b[k] : k \in 1..Len(b)}
  OBVIOUS
<1>2. Grown(ns, es, r)
  BY <1>1, ApplyOK, Zenon
<1>3. Len(ns) \in Nat /\ Len(r) \in Nat /\ \A n \in 1..Len(ns) : n \in 1..Len(r) /\ r[n] = ns[n]
  BY <1>2 DEF Grown
<1>4. \A i : i \in IdsOf(b) => \E e \in es : e.id = i
  BY <1>1 DEF IdsOf
<1>5. ASSUME NEW i \in IdsOf(b) PROVE \E n \in 1..Len(r) : r[n].id = i /\ ~r[n].dead
  <2>1. PICK e \in es : e.id = i
    BY <1>4
  <2>2. PICK n \in 1..Len(r) : r[n].id = e.id /\ ~r[n].dead
    BY <1>2 DEF Grown
  <2> QED
    BY <2>1, <2>2
<1>6. ASSUME NEW w, NEW c, InLog(w, c, ns), InLog(w, c, b) PROVE InLog(w, c, r)
  <2> SUFFICES ASSUME NEW n \in 1..Len(r)
               PROVE  \E k \in 1..Len(w) : /\ w[k].op = "insert" /\ w[k].col = c
                                           /\ w[k].id = r[n].id /\ w[k].vec = r[n].vec
    BY DEF InLog
  <2>1. CASE n > Len(ns)
    <3>1. PICK e \in es : r[n].id = e.id /\ r[n].vec = e.vec
      BY <1>2, <2>1 DEF Grown
    <3>2. PICK k \in 1..Len(b) : e = b[k]
      BY <1>1, <3>1
    <3>3. PICK m \in 1..Len(w) : /\ w[m].op = "insert" /\ w[m].col = c
                                 /\ w[m].id = b[k].id /\ w[m].vec = b[k].vec
      BY <1>6 DEF InLog
    <3> QED
      BY <3>1, <3>2, <3>3
  <2>2. CASE ~(n > Len(ns))
    <3>1. n \in 1..Len(ns) /\ r[n] = ns[n]
      BY <1>3, <2>2
    <3> QED
      BY <1>6, <3>1 DEF InLog
  <2> QED
    BY <2>1, <2>2
<1>7. r \in Seq(Node)
  BY <1>2 DEF Grown
<1>8. \A i : i \in LiveIds(r) <=> \E n \in 1..Len(r) : r[n].id = i /\ ~r[n].dead
  BY DEF LiveIds
<1>9. \A i : i \in IdsOf(b) => i \in LiveIds(r)
  BY <1>5, <1>8
<1>10. \A i : i \in LiveIds(ns) => i \in LiveIds(r)
  BY <1>3, <1>8 DEF LiveIds
<1>11. \A i : i \in IdsOf(ns) \/ i \in LiveIds(r) => i \in IdsOf(r)
  BY <1>3, <1>8 DEF IdsOf
<1> QED
  BY <1>1, <1>6, <1>7, <1>9, <1>10, <1>11, Zenon

LEMMA AddedOK ==
  ASSUME NEW ns \in Seq(Node), NEW e, e.id \in Ids, e.vec \in Vecs
  PROVE  /\ AddNode(ns, e) \in Seq(Node)
         /\ \A i : i \in LiveIds(ns) \/ i = e.id => i \in LiveIds(AddNode(ns, e))
         /\ \A w, c : /\ InLog(w, c, ns)
                      /\ \E k \in 1..Len(w) : /\ w[k].op = "insert" /\ w[k].col = c
                                              /\ w[k].id = e.id /\ w[k].vec = e.vec
                      => InLog(w, c, AddNode(ns, e))
<1>1. PICK r : r = AddNode(ns, e)
  OBVIOUS
<1>2. Grown(ns, {e}, r)
  BY <1>1, AddNodeOK, Zenon
<1>3. Len(ns) \in Nat /\ Len(r) \in Nat /\ \A n \in 1..Len(ns) : n \in 1..Len(r) /\ r[n] = ns[n]
  BY <1>2 DEF Grown
<1>4. \A n \in 1..Len(r) : \/ n \in 1..Len(ns) /\ r[n] = ns[n]
                           \/ r[n].id = e.id /\ r[n].vec = e.vec
  BY <1>2, <1>3 DEF Grown
<1>5. \A w, c : /\ InLog(w, c, ns)
                /\ \E k \in 1..Len(w) : /\ w[k].op = "insert" /\ w[k].col = c
                                        /\ w[k].id = e.id /\ w[k].vec = e.vec
                => InLog(w, c, r)
  <2> SUFFICES ASSUME NEW w, NEW c, InLog(w, c, ns),
                      \E k \in 1..Len(w) : /\ w[k].op = "insert" /\ w[k].col = c
                                            /\ w[k].id = e.id /\ w[k].vec = e.vec
               PROVE  InLog(w, c, r)
    OBVIOUS
  <2> SUFFICES ASSUME NEW n \in 1..Len(r)
               PROVE  \E k \in 1..Len(w) : /\ w[k].op = "insert" /\ w[k].col = c
                                            /\ w[k].id = r[n].id /\ w[k].vec = r[n].vec
    BY DEF InLog
  <2>1. CASE n \in 1..Len(ns) /\ r[n] = ns[n]
    BY <2>1 DEF InLog
  <2>2. CASE r[n].id = e.id /\ r[n].vec = e.vec
    BY <2>2
  <2> QED
    BY <1>4, <2>1, <2>2
<1>6. \E n \in 1..Len(r) : r[n].id = e.id /\ ~r[n].dead
  BY <1>2 DEF Grown
<1>7. \A i : i \in LiveIds(ns) \/ i = e.id => i \in LiveIds(r)
  BY <1>3, <1>6 DEF LiveIds
<1>8. r \in Seq(Node)
  BY <1>2 DEF Grown
<1> QED
  BY <1>1, <1>5, <1>7, <1>8, Zenon

\* A delete takes the id it is for, and an hnsw index keeps its node.
Without(c, ns, i) ==
  IF c \in Hnsw THEN [ns EXCEPT ![NodeOf(ns, i)].dead = TRUE] ELSE SwapRemove(ns, NodeOf(ns, i))

LEMMA WithoutOK ==
  ASSUME NEW ns \in Seq(Node), NEW c, NEW i, NodeOf(ns, i) # 0
  PROVE  /\ Without(c, ns, i) \in Seq(Node)
         /\ c \in Hnsw => \A j : j \in IdsOf(ns) => j \in IdsOf(Without(c, ns, i))
         /\ \A j : j \in LiveIds(ns) /\ j # i => j \in LiveIds(Without(c, ns, i))
         /\ \A w, d : InLog(w, d, ns) => InLog(w, d, Without(c, ns, i))
<1>1. PICK m, r : m = NodeOf(ns, i) /\ r = Without(c, ns, i)
  OBVIOUS
<1>2. m \in 1..Len(ns) /\ ns[m].id = i /\ Len(ns) \in Nat
  BY <1>1, NodeOfOK
<1>3. CASE c \in Hnsw
  <2>1. r = [ns EXCEPT ![m].dead = TRUE]
    BY <1>1, <1>3 DEF Without
  <2>2. \A n \in 1..Len(ns) : ns[n] \in Node
    OBVIOUS
  <2>3. [ns[m] EXCEPT !.dead = TRUE] \in Node
    BY <1>2, <2>2 DEF Node
  <2>4. r \in Seq(Node) /\ Len(r) = Len(ns)
    BY <1>2, <2>1, <2>3
  <2>5. \A n \in 1..Len(ns) : r[n].id = ns[n].id /\ r[n].vec = ns[n].vec /\ (n # m => r[n] = ns[n])
    BY <1>2, <2>1, <2>2 DEF Node
  <2>6. \A j : j \in IdsOf(ns) => j \in IdsOf(r)
    BY <2>4, <2>5 DEF IdsOf
  <2>7. \A j : j \in LiveIds(ns) /\ j # i => j \in LiveIds(r)
    BY <1>2, <2>4, <2>5 DEF LiveIds
  <2>8. \A w, d : InLog(w, d, ns) => InLog(w, d, r)
    BY <2>4, <2>5 DEF InLog
  <2> QED
    BY <1>1, <2>4, <2>6, <2>7, <2>8, Zenon
<1>4. CASE c \notin Hnsw
  <2>1. r = SwapRemove(ns, m)
    BY <1>1, <1>4 DEF Without
  <2>2. /\ r \in Seq(Node)
        /\ \A n \in 1..Len(r) : \E k \in 1..Len(ns) : r[n] = ns[k]
        /\ \A k \in 1..Len(ns) : k # m => \E n \in 1..Len(r) : r[n] = ns[k]
    BY <1>2, <2>1, SwapRemoveOK, Zenon
  <2>3. ASSUME NEW j, j \in LiveIds(ns), j # i PROVE j \in LiveIds(r)
    <3>1. PICK k \in 1..Len(ns) : ns[k].id = j /\ ~ns[k].dead
      BY <2>3 DEF LiveIds
    <3>2. PICK n \in 1..Len(r) : r[n] = ns[k]
      BY <1>2, <2>2, <2>3, <3>1
    <3> QED
      BY <3>1, <3>2 DEF LiveIds
  <2>4. ASSUME NEW w, NEW d, InLog(w, d, ns) PROVE InLog(w, d, r)
    <3> SUFFICES ASSUME NEW n \in 1..Len(r)
                 PROVE  \E k \in 1..Len(w) : /\ w[k].op = "insert" /\ w[k].col = d
                                             /\ w[k].id = r[n].id /\ w[k].vec = r[n].vec
      BY DEF InLog
    <3>1. PICK k \in 1..Len(ns) : r[n] = ns[k]
      BY <2>2
    <3> QED
      BY <2>4, <3>1 DEF InLog
  <2> QED
    BY <1>1, <1>4, <2>2, <2>3, <2>4, Zenon
<1> QED
  BY <1>3, <1>4

LEMMA RevivedOK ==
  ASSUME NEW ns \in Seq(Node)
  PROVE  /\ Revived(ns) \in Seq(Node) /\ Len(Revived(ns)) = Len(ns)
         /\ \A n \in 1..Len(ns) : /\ Revived(ns)[n].id = ns[n].id
                                  /\ Revived(ns)[n].vec = ns[n].vec /\ ~Revived(ns)[n].dead
<1>1. Len(ns) \in Nat /\ \A n \in 1..Len(ns) : ns[n] \in Node
  OBVIOUS
<1>2. \A n \in 1..Len(ns) : [ns[n] EXCEPT !.dead = FALSE] \in Node
  BY <1>1 DEF Node
<1>3. Revived(ns) = [n \in 1..Len(ns) |-> [ns[n] EXCEPT !.dead = FALSE]]
  BY DEF Revived
<1>4. Revived(ns) \in Seq(Node) /\ Len(Revived(ns)) = Len(ns)
  BY <1>1, <1>2, <1>3
<1>5. \A n \in 1..Len(ns) : Revived(ns)[n] = [ns[n] EXCEPT !.dead = FALSE]
  BY <1>3
<1>6. \A n \in 1..Len(ns) : /\ Revived(ns)[n].id = ns[n].id
                            /\ Revived(ns)[n].vec = ns[n].vec /\ ~Revived(ns)[n].dead
  BY <1>1, <1>5 DEF Node
<1> QED
  BY <1>4, <1>6

\* Replay starts within the log, and after no entry that a snapshot leaves to it.
LEMMA AfterSeqOK ==
  ASSUME TypeOK
  PROVE  AfterSeq \in 0..Len(wal) /\ \A c \in WithSnapshot : AfterSeq <= snap[c].seq
<1>1. \A c \in WithSnapshot : snap[c].seq \in Nat /\ snap[c].seq <= Len(wal)
  <2>1. \A c \in WithSnapshot : c \in Cols /\ snap[c] # None /\ snap[c] \in Snapshot \cup {None}
    BY RecoveryAssumption DEF TypeOK, WithSnapshot
  <2> QED
    BY <2>1 DEF TypeOK, Snapshot
<1>2. Len(wal) \in Nat
  BY DEF TypeOK
<1>3. CASE WithSnapshot = {}
  BY <1>2, <1>3 DEF AfterSeq
<1>4. CASE WithSnapshot # {}
  <2> DEFINE S == {snap[c].seq : c \in WithSnapshot}
  <2>1. S \subseteq Nat /\ S # {}
    BY <1>1, <1>4
  <2>2. PICK m \in S : \A n \in S : m <= n
    BY <2>1, LeastNat, Zenon
  <2>3. m \in S /\ \A c \in WithSnapshot : m <= snap[c].seq
    BY <2>2
  <2>4. AfterSeq = CHOOSE s \in S : \A c \in WithSnapshot : s <= snap[c].seq
    BY <1>4 DEF AfterSeq
  <2>5. AfterSeq \in S /\ \A c \in WithSnapshot : AfterSeq <= snap[c].seq
    BY <2>3, <2>4, Zenon
  <2> QED
    BY <1>1, <1>2, <2>5
<1> QED
  BY <1>3, <1>4

\* What replay has still to read, and the entry it reads next.
LEMMA ReadFromOK ==
  ASSUME NEW C, wal \in Seq(C), pos \in 0..Len(wal)
  PROVE  /\ ReadFrom(pos) = <<>> <=> pos = Len(wal)
         /\ ReadFrom(pos) # <<>> => pos + 1 \in 1..Len(wal) /\ Head(ReadFrom(pos)) = wal[pos + 1]
<1>1. ReadFrom(pos) = SubSeq(wal, pos + 1, Len(wal)) /\ Len(wal) \in Nat /\ pos \in Nat
  BY DEF ReadFrom
<1>2. PICK r : r = ReadFrom(pos)
  OBVIOUS
<1>3. r \in Seq(C) /\ Len(r) = Len(wal) - pos /\ \A k \in 1..(Len(wal) - pos) : r[k] = wal[pos + k]
  BY <1>1, <1>2
<1>4. r = <<>> <=> pos = Len(wal)
  BY <1>1, <1>3
<1>5. r # <<>> => pos + 1 \in 1..Len(wal) /\ Head(r) = wal[pos + 1]
  BY <1>1, <1>3, <1>4
<1> QED
  BY <1>2, <1>4, <1>5

-----------------------------------------------------------------------------
(* What the steps on an index keep.                                        *)

Typed == /\ nodes \in [Cols -> Seq(Node)]
         /\ dirty \in [Cols -> Seq(Insertion)] /\ batch \in [Cols -> Seq(Insertion)]

\* The ids of the graphs and of the batches, and all ids, of hnsw indexes.
KeepsGraph ==
  \A c \in Hnsw : \A i : i \in IdsOf(nodes[c]) \/ i \in IdsOf(batch[c])
                         => i \in IdsOf(nodes'[c]) \/ i \in IdsOf(batch'[c])
KeepsHeld == \A c \in Hnsw : \A i : i \in Held(c) => i \in Held(c)'

\* The ids that are served, or those but for i of c.
KeepsServed == \A c \in Cols : \A i : i \in Served(c) => i \in Served(c)'
KeepsServedBut(c, i) ==
  \A d \in Cols : \A j : j \in Served(d) /\ ~(d = c /\ j = i) => j \in Served(d)'

IndexesLogged ==
  \A c \in Cols : AllLogged(c, nodes[c]) /\ AllLogged(c, dirty[c]) /\ AllLogged(c, batch[c])

LEMMA LoggedAs ==
  ASSUME wal' = wal
  PROVE  \A c \in Cols : /\ AllLogged(c, nodes[c]) <=> InLog(wal, c, nodes[c])
                         /\ AllLogged(c, dirty[c]) <=> InLog(wal, c, dirty[c])
                         /\ AllLogged(c, batch[c]) <=> InLog(wal, c, batch[c])
                         /\ AllLogged(c, nodes[c])' <=> InLog(wal, c, nodes'[c])
                         /\ AllLogged(c, dirty[c])' <=> InLog(wal, c, dirty'[c])
                         /\ AllLogged(c, batch[c])' <=> InLog(wal, c, batch'[c])
BY DEF AllLogged, InLog, InsertedAt

\* A logged insert goes into the index, the buffer or the graph.
LEMMA IndexInsertOK ==
  ASSUME Typed, IndexesLogged, NEW c \in Cols, NEW e \in Inserts, IndexInsert(c, e),
         batch' = batch, wal' = wal, \E k \in 1..Len(wal) : wal[k] = e /\ e.col = c
  PROVE  /\ Typed' /\ KeepsGraph /\ KeepsHeld /\ KeepsServed /\ IndexesLogged'
         /\ e.id \in Served(c)' /\ (c \in Hnsw => e.id \in Held(c)')
<1>1. e.id \in Ids /\ e.vec \in Vecs /\ e.op = "insert"
  BY DEF Inserts
<1>2. \E k \in 1..Len(wal) : /\ wal[k].op = "insert" /\ wal[k].col = c
                             /\ wal[k].id = e.id /\ wal[k].vec = e.vec
  BY <1>1
<1>3. CASE c \in Hnsw
  <2>1. PICK x : x = [id |-> e.id, vec |-> e.vec]
    OBVIOUS
  <2>2. x \in Insertion /\ x.id = e.id /\ x.vec = e.vec
    BY <1>1, <2>1 DEF Insertion
  <2>3. nodes' = nodes /\ dirty' = [dirty EXCEPT ![c] = Append(@, x)]
    BY <1>3, <2>1 DEF IndexInsert
  <2>4. Typed'
    BY <2>2, <2>3 DEF Typed
  <2>5. /\ \A d \in Cols : d # c => dirty'[d] = dirty[d]
        /\ dirty[c] \in Seq(Insertion) /\ dirty'[c] = Append(dirty[c], x)
    BY <2>3 DEF Typed
  <2>6. PICK s, t : s = dirty[c] /\ t = dirty'[c]
    OBVIOUS
  <2>7. /\ Len(s) \in Nat /\ Len(t) = Len(s) + 1 /\ t[Len(s) + 1] = x
        /\ \A n \in 1..Len(s) : n \in 1..Len(t) /\ t[n] = s[n]
        /\ \A n \in 1..Len(t) : t[n] = x \/ (n \in 1..Len(s) /\ t[n] = s[n])
    BY <2>2, <2>5, <2>6
  <2>8. \A i : i \in IdsOf(s) \/ i = e.id => i \in IdsOf(t)
    BY <2>2, <2>7 DEF IdsOf
  <2>9. InLog(wal, c, s) => InLog(wal, c, t)
    <3> SUFFICES ASSUME InLog(wal, c, s), NEW n \in 1..Len(t)
                 PROVE  \E k \in 1..Len(wal) : /\ wal[k].op = "insert" /\ wal[k].col = c
                                                /\ wal[k].id = t[n].id /\ wal[k].vec = t[n].vec
      BY DEF InLog
    <3>1. CASE t[n] = x
      BY <1>2, <2>2, <3>1
    <3>2. CASE n \in 1..Len(s) /\ t[n] = s[n]
      BY <3>2 DEF InLog
    <3> QED
      BY <2>7, <3>1, <3>2
  <2>10. \A d \in Cols : \A i : i \in IdsOf(dirty[d]) => i \in IdsOf(dirty'[d])
    BY <2>5, <2>6, <2>8
  <2>11. KeepsGraph /\ KeepsHeld /\ KeepsServed
    BY <2>3, <2>10, RecoveryAssumption DEF KeepsGraph, KeepsHeld, KeepsServed, Held, Served
  <2>12. e.id \in Served(c)' /\ e.id \in Held(c)'
    BY <2>6, <2>8 DEF Served, Held
  <2>13. IndexesLogged'
    <3>1. \A d \in Cols : InLog(wal, d, dirty[d]) => InLog(wal, d, dirty'[d])
      BY <2>5, <2>6, <2>9
    <3> QED
      BY <2>3, <3>1, LoggedAs DEF IndexesLogged
  <2> QED
    BY <2>4, <2>11, <2>12, <2>13
<1>4. CASE c \notin Hnsw
  <2>1. dirty' = dirty /\ nodes' = [nodes EXCEPT ![c] = AddNode(@, e)]
    BY <1>4 DEF IndexInsert
  <2>2. PICK s, t : s = nodes[c] /\ t = AddNode(nodes[c], e)
    OBVIOUS
  <2>3. s \in Seq(Node)
    BY <2>2 DEF Typed
  <2>4. /\ t \in Seq(Node)
        /\ \A i : i \in LiveIds(s) \/ i = e.id => i \in LiveIds(t)
        /\ InLog(wal, c, s) => InLog(wal, c, t)
    BY <1>1, <1>2, <2>2, <2>3, AddedOK
  <2>5. nodes'[c] = t /\ \A d \in Cols : d # c => nodes'[d] = nodes[d]
    BY <2>1, <2>2 DEF Typed
  <2>6. Typed'
    BY <2>1, <2>2, <2>4 DEF Typed
  <2>7. KeepsGraph /\ KeepsHeld
    BY <1>4, <2>1, <2>5, RecoveryAssumption DEF KeepsGraph, KeepsHeld, Held
  <2>8. KeepsServed /\ e.id \in Served(c)'
    BY <2>1, <2>2, <2>4, <2>5 DEF KeepsServed, Served
  <2>9. IndexesLogged'
    <3>1. \A d \in Cols : InLog(wal, d, nodes[d]) => InLog(wal, d, nodes'[d])
      BY <2>2, <2>4, <2>5
    <3> QED
      BY <2>1, <3>1, LoggedAs DEF IndexesLogged
  <2> QED
    BY <1>4, <2>6, <2>7, <2>8, <2>9
<1> QED
  BY <1>3, <1>4

\* A delete takes nothing but its id.
LEMMA IndexDeleteOK ==
  ASSUME Typed, IndexesLogged, NEW c \in Cols, NEW i \in Ids, CanDelete(c, i), IndexDelete(c, i),
         batch' = batch, wal' = wal
  PROVE  Typed' /\ KeepsGraph /\ KeepsHeld /\ KeepsServedBut(c, i) /\ IndexesLogged'
<1>1. PICK s, t : s = nodes[c] /\ t = Without(c, nodes[c], i)
  OBVIOUS
<1>2. dirty' = dirty /\ nodes' = [nodes EXCEPT ![c] = t]
  BY <1>1 DEF IndexDelete, Without, Typed
<1>3. s \in Seq(Node) /\ NodeOf(s, i) # 0 /\ t = Without(c, s, i)
  BY <1>1 DEF Typed, CanDelete
<1>4. /\ t \in Seq(Node)
      /\ c \in Hnsw => \A j : j \in IdsOf(s) => j \in IdsOf(t)
      /\ \A j : j \in LiveIds(s) /\ j # i => j \in LiveIds(t)
      /\ InLog(wal, c, s) => InLog(wal, c, t)
  BY <1>3, WithoutOK
<1>5. nodes'[c] = t /\ \A d \in Cols : d # c => nodes'[d] = nodes[d]
  BY <1>2 DEF Typed
<1>6. Typed'
  BY <1>2, <1>4 DEF Typed
<1>7. KeepsGraph /\ KeepsHeld
  BY <1>1, <1>2, <1>4, <1>5, RecoveryAssumption DEF KeepsGraph, KeepsHeld, Held
<1>8. KeepsServedBut(c, i)
  BY <1>1, <1>2, <1>4, <1>5 DEF KeepsServedBut, Served
<1>9. IndexesLogged'
  <2>1. \A d \in Cols : InLog(wal, d, nodes[d]) => InLog(wal, d, nodes'[d])
    BY <1>1, <1>4, <1>5
  <2> QED
    BY <1>2, <2>1, LoggedAs DEF IndexesLogged
<1> QED
  BY <1>6, <1>7, <1>8, <1>9

\* The applier, and the end of a removed index, move what is there.
LEMMA TakenOK ==
  ASSUME Typed, IndexesLogged, NEW c \in Cols, wal' = wal, nodes' = nodes, batch[c] = <<>>,
         batch' = [batch EXCEPT ![c] = dirty[c]], dirty' = [dirty EXCEPT ![c] = <<>>]
  PROVE  Typed' /\ KeepsGraph /\ KeepsHeld /\ KeepsServed /\ IndexesLogged'
<1>1. /\ batch'[c] = dirty[c] /\ dirty'[c] = <<>>
      /\ \A d \in Cols : d # c => batch'[d] = batch[d] /\ dirty'[d] = dirty[d]
  BY DEF Typed
<1>2. Typed'
  BY DEF Typed
<1>3. \A i : i \notin IdsOf(<<>>)
  BY DEF IdsOf
<1>4. KeepsGraph /\ KeepsHeld /\ KeepsServed
  BY <1>1, <1>3, RecoveryAssumption DEF KeepsGraph, KeepsHeld, KeepsServed, Held, Served
<1>5. InLog(wal, c, <<>>)
  BY DEF InLog
<1>6. IndexesLogged'
  BY <1>1, <1>5, LoggedAs DEF IndexesLogged
<1> QED
  BY <1>2, <1>4, <1>6

LEMMA AppliedBatchOK ==
  ASSUME Typed, IndexesLogged, NEW c \in Cols, wal' = wal, dirty' = dirty,
         nodes' = [nodes EXCEPT ![c] = Apply(@, batch[c])], batch' = [batch EXCEPT ![c] = <<>>]
  PROVE  Typed' /\ KeepsGraph /\ KeepsHeld /\ KeepsServed /\ IndexesLogged'
<1>1. PICK s, b, t : s = nodes[c] /\ b = batch[c] /\ t = Apply(s, b)
  OBVIOUS
<1>2. s \in Seq(Node) /\ b \in Seq(Insertion)
  BY <1>1 DEF Typed
<1>3. /\ t \in Seq(Node)
      /\ \A i : i \in IdsOf(s) \/ i \in IdsOf(b) => i \in IdsOf(t)
      /\ \A i : i \in LiveIds(s) \/ i \in IdsOf(b) => i \in LiveIds(t)
      /\ InLog(wal, c, s) /\ InLog(wal, c, b) => InLog(wal, c, t)
  BY <1>1, <1>2, AppliedOK
<1>4. /\ nodes'[c] = t /\ batch'[c] = <<>>
      /\ \A d \in Cols : d # c => nodes'[d] = nodes[d] /\ batch'[d] = batch[d]
  BY <1>1 DEF Typed
<1>5. Typed'
  BY <1>1, <1>3 DEF Typed
<1>6. KeepsGraph /\ KeepsHeld /\ KeepsServed
  BY <1>1, <1>3, <1>4, RecoveryAssumption DEF KeepsGraph, KeepsHeld, KeepsServed, Held, Served
<1>7. InLog(wal, c, <<>>)
  BY DEF InLog
<1>8. IndexesLogged'
  BY <1>1, <1>3, <1>4, <1>7, LoggedAs DEF IndexesLogged
<1> QED
  BY <1>5, <1>6, <1>8

LEMMA ClosedOK ==
  ASSUME Typed, IndexesLogged, NEW c \in Cols, wal' = wal, batch' = batch,
         nodes' = [nodes EXCEPT ![c] = Apply(@, dirty[c])], dirty' = [dirty EXCEPT ![c] = <<>>]
  PROVE  Typed' /\ KeepsGraph /\ KeepsHeld /\ KeepsServed /\ IndexesLogged'
<1>1. PICK s, b, t : s = nodes[c] /\ b = dirty[c] /\ t = Apply(s, b)
  OBVIOUS
<1>2. s \in Seq(Node) /\ b \in Seq(Insertion)
  BY <1>1 DEF Typed
<1>3. /\ t \in Seq(Node)
      /\ \A i : i \in IdsOf(s) \/ i \in IdsOf(b) => i \in IdsOf(t)
      /\ \A i : i \in LiveIds(s) \/ i \in IdsOf(b) => i \in LiveIds(t)
      /\ InLog(wal, c, s) /\ InLog(wal, c, b) => InLog(wal, c, t)
  BY <1>1, <1>2, AppliedOK
<1>4. /\ nodes'[c] = t /\ dirty'[c] = <<>>
      /\ \A d \in Cols : d # c => nodes'[d] = nodes[d] /\ dirty'[d] = dirty[d]
  BY <1>1 DEF Typed
<1>5. Typed'
  BY <1>1, <1>3 DEF Typed
<1>6. KeepsGraph /\ KeepsHeld /\ KeepsServed
  BY <1>1, <1>3, <1>4, RecoveryAssumption DEF KeepsGraph, KeepsHeld, KeepsServed, Held, Served
<1>7. InLog(wal, c, <<>>)
  BY DEF InLog
<1>8. IndexesLogged'
  BY <1>1, <1>3, <1>4, <1>7, LoggedAs DEF IndexesLogged
<1> QED
  BY <1>5, <1>6, <1>8

-----------------------------------------------------------------------------
(* Invariants that a step does not touch.                                  *)

LEMMA SnapshotsStay ==
  ASSUME SnapsLive, QuietSnapshotCovers, TypeOK, snap' = snap, suspect \subseteq suspect',
         \A k \in 1..Len(wal) : wal'[k] = wal[k]
  PROVE  SnapsLive' /\ QuietSnapshotCovers'
<1>1. SnapsLive'
  BY DEF SnapsLive
<1>2. ASSUME NEW c \in Hnsw \ suspect', snap[c] # None, snap[c].idle, snap[c].alone
      PROVE  Covers(c)'
  <2>1. Covers(c) /\ c \in Cols /\ snap[c] \in Snapshot
    BY <1>2, RecoveryAssumption DEF QuietSnapshotCovers, TypeOK
  <2>2. 1..snap[c].seq \subseteq 1..Len(wal)
    BY <1>2, <2>1 DEF TypeOK, Snapshot
  <2> QED
    BY <2>1, <2>2 DEF Covers
<1>3. QuietSnapshotCovers'
  BY <1>2 DEF QuietSnapshotCovers
<1> QED
  BY <1>1, <1>3

LEMMA LogStays ==
  ASSUME NothingInvented, wal' = wal, snap' = snap, IndexesLogged'
  PROVE  NothingInvented'
<1>1. \A c \in Cols : snap'[c] # None => AllLogged(c, snap[c].nodes)'
  BY DEF NothingInvented, AllLogged, InsertedAt
<1> QED
  BY <1>1 DEF NothingInvented, IndexesLogged

\* A step that keeps the held ids of the hnsw indexes.
LEMMA HeldStays ==
  ASSUME HeldOK, FlushedOK, TypeOK, FlushOK, KeepsGraph, KeepsHeld,
         mode' = mode, wal' = wal, loaded' = loaded, suspect' = suspect, flush' = flush,
         \A c \in loaded \cap Hnsw : \A i \in Ids : Ahead(c, i) => Ahead(c, i)' \/ i \in Held(c)',
         \A c \in Hnsw : \A i \in Ids : InWriting(c, i) => InWriting(c, i)' \/ i \in Held(c)'
  PROVE  HeldOK' /\ FlushedOK'
<1>1. HeldOK'
  BY DEF HeldOK, KeepsHeld, InsertedAt
<1>2. FlushedOK'
  <2>1. (flush.pc # "idle" => flush.col \in Hnsw) /\ flush.todo \subseteq Hnsw
    BY DEF FlushOK
  <2>2. ToFlushOK'
    BY <2>1 DEF FlushedOK, ToFlushOK, KeepsHeld, InsertedAt
  <2> QED
    BY <2>1, <2>2 DEF FlushedOK, KeepsGraph, InsertedAt
<1> QED
  BY <1>1, <1>2

LEMMA ServedStays ==
  ASSUME ServedOK, KeepsServed, mode' = mode, present' = present, created' \subseteq created,
         suspect' = suspect, TypeOK,
         \A c \in created, i \in Ids : Ahead(c, i) => Ahead(c, i)' \/ i \in Served(c)'
  PROVE  ServedOK'
BY DEF ServedOK, KeepsServed, TypeOK

LEMMA IndexStays ==
  ASSUME UNCHANGED <<index, wal>>, NothingInvented
  PROVE  KeepsGraph /\ KeepsHeld /\ KeepsServed /\ IndexesLogged'
<1>1. IndexesLogged'
  BY DEF index, NothingInvented, IndexesLogged, AllLogged, InsertedAt
<1> QED
  BY <1>1 DEF index, KeepsGraph, KeepsHeld, KeepsServed, Held, Served

LEMMA FlushStays ==
  ASSUME FlushOK, flush' = flush, wal' = wal, mode' = mode, loaded' = loaded
  PROVE  FlushOK'
BY DEF FlushOK, AllLogged, InsertedAt

LEMMA WritesStay ==
  ASSUME WriterOK, PresentOK, UNCHANGED <<writer, wal, present>>
  PROVE  WriterOK' /\ PresentOK'
BY DEF WriterOK, PresentOK, InsertedAt

-----------------------------------------------------------------------------
(* Creation and removal.                                                   *)

LEMMA CreateRowStep ==
  ASSUME Inv, NEW c \in Cols, CreateRow(c)
  PROVE  Inv'
<1> USE DEF Inv
<1>1. TypeOK'
  BY DEF TypeOK, CreateRow, index
<1>2. FlushOK' /\ WriterOK' /\ PresentOK' /\ SnapsLive' /\ QuietSnapshotCovers'
  BY FlushStays, WritesStay, SnapshotsStay DEF CreateRow
<1>3. CatalogOK'
  BY DEF CatalogOK, CreateRow
<1>4. KeepsGraph /\ KeepsHeld /\ KeepsServed /\ IndexesLogged'
  BY IndexStays DEF CreateRow
<1>5. NothingInvented'
  BY <1>4, LogStays DEF CreateRow
<1>6. \A d, i : ~Ahead(d, i)
  BY DEF CreateRow, Ahead
<1>7. \A d, i : InWriting(d, i)' <=> InWriting(d, i)
  BY DEF CreateRow, InWriting
<1>8. HeldOK' /\ FlushedOK'
  BY <1>4, <1>6, <1>7, HeldStays DEF CreateRow
<1>9. ServedOK'
  BY <1>4, <1>6, ServedStays DEF CreateRow
<1> QED
  BY <1>1, <1>2, <1>3, <1>5, <1>8, <1>9

\* The new collection has no entry in the log.
LEMMA CreateInstallStep ==
  ASSUME Inv, NEW c \in Cols, CreateInstall(c)
  PROVE  Inv'
<1> USE DEF Inv
<1>1. TypeOK'
  BY DEF TypeOK, CreateInstall, index, disk
<1>2. WriterOK' /\ PresentOK' /\ SnapsLive' /\ QuietSnapshotCovers'
  BY WritesStay, SnapshotsStay DEF CreateInstall, disk
<1>3. FlushOK' /\ CatalogOK'
  BY DEF CatalogOK, CreateInstall, FlushOK, disk, AllLogged, InsertedAt
<1>4. KeepsGraph /\ KeepsHeld /\ KeepsServed /\ IndexesLogged'
  BY IndexStays DEF CreateInstall, disk
<1>5. NothingInvented'
  BY <1>4, LogStays DEF CreateInstall, disk
<1>6. \A k \in 1..Len(wal) : wal[k].col # c
  BY DEF CreateInstall, CatalogOK
<1>7. \A d, i : InWriting(d, i)' <=> InWriting(d, i)
  BY DEF CreateInstall, InWriting
<1>8. HeldOK'
  <2> SUFFICES ASSUME NEW d \in (loaded' \cap Hnsw) \ suspect', mode' = "flushing" => d \in flush.todo',
                      NEW k \in 1..Len(wal'), NEW i \in Ids, InsertedAt(k, d, i)'
               PROVE  i \in Held(d)' \/ Ahead(d, i)' \/ InWriting(d, i)'
    BY DEF HeldOK
  <2>1. InsertedAt(k, d, i) /\ k \in 1..Len(wal) /\ mode \in {"up", "draining"}
    BY DEF InsertedAt, CreateInstall, disk
  <2>2. d # c /\ d \in (loaded \cap Hnsw) \ suspect
    BY <1>6, <2>1 DEF InsertedAt, CreateInstall
  <2>3. i \in Held(d) \/ Ahead(d, i) \/ InWriting(d, i)
    BY <2>1, <2>2 DEF HeldOK
  <2> QED
    BY <1>4, <1>7, <2>1, <2>2, <2>3 DEF KeepsHeld, Ahead
<1>9. FlushedOK'
  BY DEF FlushedOK, ToFlushOK, FlushOK, CreateInstall
<1>10. ServedOK'
  <2>1. present[c] = {}
    BY <1>6 DEF PresentOK, InsertedAt
  <2> SUFFICES ASSUME NEW d \in created' \ suspect', NEW i \in present'[d], mode' \in {"up", "replay"}
               PROVE  i \in Served(d)'
    BY DEF ServedOK
  <2>2. d # c /\ d \in created \ suspect /\ i \in present[d] /\ mode = "up" /\ d \in Cols
    BY <2>1 DEF CreateInstall, TypeOK
  <2>3. i \in Served(d)
    BY <2>2 DEF ServedOK, Ahead
  <2> QED
    BY <1>4, <2>2, <2>3 DEF KeepsServed
<1> QED
  BY <1>1, <1>2, <1>3, <1>5, <1>8, <1>9, <1>10

LEMMA DropUnloadStep ==
  ASSUME Inv, NEW c \in Cols, DropUnload(c)
  PROVE  Inv'
<1> USE DEF Inv
<1>1. TypeOK'
  BY DEF TypeOK, DropUnload, index, disk
<1>2. WriterOK' /\ PresentOK' /\ SnapsLive' /\ QuietSnapshotCovers'
  BY WritesStay, SnapshotsStay DEF DropUnload, disk
<1>3. FlushOK' /\ CatalogOK'
  BY DEF CatalogOK, DropUnload, FlushOK, disk, AllLogged, InsertedAt
<1>4. KeepsGraph /\ KeepsHeld /\ KeepsServed /\ IndexesLogged'
  BY IndexStays DEF DropUnload, disk
<1>5. NothingInvented'
  BY <1>4, LogStays DEF DropUnload, disk
<1>6. \A d, i : ~Ahead(d, i)
  BY DEF DropUnload, Ahead
<1>7. \A d, i : InWriting(d, i)' <=> InWriting(d, i)
  BY DEF DropUnload, InWriting
<1>8. HeldOK' /\ FlushedOK'
  <2>1. FlushedOK'
    BY DEF FlushedOK, ToFlushOK, FlushOK, DropUnload
  <2>2. HeldOK'
    BY <1>4, <1>6, <1>7 DEF HeldOK, KeepsHeld, InsertedAt, DropUnload, disk
  <2> QED
    BY <2>1, <2>2
<1>9. ServedOK'
  BY <1>4, <1>6, ServedStays DEF DropUnload
<1> QED
  BY <1>1, <1>2, <1>3, <1>5, <1>8, <1>9

LEMMA DropRowStep ==
  ASSUME Inv, NEW c \in Cols, DropRow(c)
  PROVE  Inv'
<1> USE DEF Inv
<1>1. Typed /\ IndexesLogged
  BY DEF TypeOK, Typed, NothingInvented, IndexesLogged
<1>2. Typed' /\ KeepsGraph /\ KeepsHeld /\ KeepsServed /\ IndexesLogged'
  BY <1>1, ClosedOK DEF DropRow
<1>3. TypeOK'
  BY <1>2 DEF Typed, TypeOK, DropRow, history
<1>4. FlushOK' /\ WriterOK' /\ PresentOK' /\ SnapsLive' /\ QuietSnapshotCovers'
  BY FlushStays, WritesStay, SnapshotsStay DEF DropRow, history
<1>5. CatalogOK'
  BY DEF CatalogOK, DropRow, history
<1>6. NothingInvented'
  BY <1>2, LogStays DEF DropRow
<1>7. \A d, i : ~Ahead(d, i)
  BY DEF DropRow, Ahead
<1>8. \A d, i : InWriting(d, i)' <=> InWriting(d, i)
  BY DEF DropRow, InWriting
<1>9. HeldOK' /\ FlushedOK'
  BY <1>2, <1>7, <1>8, HeldStays DEF DropRow, history
<1>10. ServedOK'
  BY <1>2, <1>7, ServedStays DEF DropRow, history
<1> QED
  BY <1>3, <1>4, <1>5, <1>6, <1>9, <1>10

-----------------------------------------------------------------------------
(* Writes.                                                                 *)

LEMMA WriteLogStep ==
  ASSUME Inv, NEW e \in Entry, WriteLog(e)
  PROVE  Inv'
<1> USE DEF Inv
<1>1. PICK c, N : c = e.col /\ N = Len(wal)
  OBVIOUS
<1>2. /\ c \in Cols /\ e.id \in Ids /\ e # None /\ N \in Nat /\ c \in loaded
      /\ writer[c] = None /\ Serving /\ mode # "replay" /\ e.op \in {"insert", "delete"}
  BY <1>1, RecoveryAssumption DEF TypeOK, WriteLog, Entry, Inserts, Deletes, Serving
<1>3. /\ wal' \in Seq(Entry) /\ Len(wal') = N + 1 /\ wal'[N + 1] = e
      /\ \A k \in 1..N : k \in 1..Len(wal') /\ wal'[k] = wal[k]
      /\ \A k \in 1..Len(wal') : k = N + 1 \/ k \in 1..N
  BY <1>1, <1>2 DEF TypeOK, WriteLog
<1>4. /\ writer' \in [Cols -> Entry \cup {None}] /\ writer'[c] = e
      /\ \A d \in Cols : d # c => writer'[d] = writer[d]
  BY <1>1, <1>2 DEF TypeOK, WriteLog
<1>5. /\ present' \in [Cols -> SUBSET Ids]
      /\ \A d \in Cols : present'[d] \subseteq present[d]
      /\ e.op = "delete" => e.id \notin present'[c]
  BY <1>1, <1>2 DEF TypeOK, WriteLog
<1>6. TypeOK'
  <2>1. \A d \in Cols : snap[d] # None => snap[d].seq <= Len(wal')
    <3>1. \A d \in Cols : snap[d] # None => snap[d] \in Snapshot /\ snap[d].seq <= N
      BY <1>1 DEF TypeOK
    <3> QED
      BY <1>2, <1>3, <3>1 DEF Snapshot
  <2>2. flush \in [seq : 0..Len(wal'), todo : SUBSET Cols, col : Cols \cup {None},
                   pc : {"idle", "taken", "drained"}, batch : Seq(Insertion), idle : BOOLEAN]
    BY <1>1, <1>2, <1>3 DEF TypeOK
  <2>3. pos \in 0..Len(wal')
    BY <1>1, <1>2, <1>3 DEF TypeOK
  <2> QED
    BY <1>3, <1>4, <1>5, <2>1, <2>2, <2>3 DEF TypeOK, WriteLog, index
<1>7. FlushOK' /\ FlushedOK'
  <2>1. flush' = flush /\ flush.seq \in 0..N /\ UNCHANGED <<mode, suspect, loaded, index>>
    BY <1>1 DEF WriteLog, TypeOK
  <2>2. \A k \in 1..N : wal'[k] = wal[k] /\ k \in 1..Len(wal')
    BY <1>3
  <2>3. \A k \in 1..flush.seq : k \in 1..N
    BY <1>2, <2>1
  <2>4. \A d, s : AllLogged(d, s) => AllLogged(d, s)'
    BY <1>1, <2>2 DEF AllLogged, InsertedAt
  <2>5. FlushOK'
    <3>1. AllLogged(flush.col, flush.batch) => AllLogged(flush.col, flush.batch)'
      <4>1. PICK d, s : d = flush.col /\ s = flush.batch
        OBVIOUS
      <4>2. AllLogged(d, s) => AllLogged(d, s)'
        BY <2>4
      <4> QED
        BY <2>1, <4>1, <4>2 DEF AllLogged, InsertedAt
    <3> QED
      BY <2>1, <3>1 DEF FlushOK
  <2>6. \A d, i : Held(d)' = Held(d) /\ (\A k \in 1..flush.seq : InsertedAt(k, d, i)' <=> InsertedAt(k, d, i))
    BY <2>1, <2>2, <2>3 DEF Held, InsertedAt, index
  <2>7. ToFlushOK'
    BY <2>1, <2>6 DEF FlushedOK, ToFlushOK
  <2> QED
    BY <2>1, <2>5, <2>6, <2>7 DEF FlushedOK, index
<1>8. CatalogOK'
  <2>1. c \notin creating \cup (Cols \ used)
    BY <1>2 DEF CatalogOK
  <2>2. \A d \in creating \cup (Cols \ used) : \A k \in 1..Len(wal') : wal'[k].col # d
    BY <1>1, <1>3, <2>1 DEF CatalogOK
  <2> QED
    BY <2>2 DEF CatalogOK, WriteLog
<1>9. SnapsLive' /\ QuietSnapshotCovers'
  BY <1>1, <1>3, SnapshotsStay DEF WriteLog
<1>10. WriterOK'
  <2> SUFFICES ASSUME NEW d \in Cols, writer'[d] # None
               PROVE  /\ \E k \in 1..Len(wal') :
                           /\ wal'[k] = writer'[d] /\ wal'[k].col = d
                           /\ \A l \in 1..Len(wal') : l > k => wal'[l].col # d
                      /\ writer'[d].op = "delete" => writer'[d].id \notin present'[d]
    BY DEF WriterOK
  <2>1. CASE d = c
    <3>1. N + 1 \in 1..Len(wal') /\ \A l \in 1..Len(wal') : ~(l > N + 1)
      BY <1>2, <1>3
    <3> QED
      BY <1>1, <1>3, <1>4, <1>5, <2>1, <3>1
  <2>2. CASE d # c
    <3>1. writer[d] # None /\ writer'[d] = writer[d]
      BY <1>4, <2>2
    <3>2. PICK k \in 1..N : /\ wal[k] = writer[d] /\ wal[k].col = d
                            /\ \A l \in 1..N : l > k => wal[l].col # d
      BY <1>1, <3>1 DEF WriterOK
    <3>3. \A l \in 1..Len(wal') : l > k => wal'[l].col # d
      BY <1>1, <1>3, <2>2, <3>2
    <3>4. writer[d].op = "delete" => writer[d].id \notin present'[d]
      BY <1>5, <3>1 DEF WriterOK
    <3> QED
      BY <1>3, <3>1, <3>2, <3>3, <3>4
  <2> QED
    BY <2>1, <2>2
<1>11. PresentOK'
  <2> SUFFICES ASSUME NEW d \in Cols, NEW i \in present'[d]
               PROVE  \E k \in 1..Len(wal') :
                        /\ InsertedAt(k, d, i)'
                        /\ \A l \in 1..Len(wal') : l > k =>
                             ~(wal'[l].op = "delete" /\ wal'[l].col = d /\ wal'[l].id = i)
    BY DEF PresentOK
  <2>1. PICK k \in 1..N : /\ InsertedAt(k, d, i)
                          /\ \A l \in 1..N : l > k =>
                               ~(wal[l].op = "delete" /\ wal[l].col = d /\ wal[l].id = i)
    BY <1>1, <1>5 DEF PresentOK
  <2>2. ~(e.op = "delete" /\ e.col = d /\ e.id = i)
    BY <1>1, <1>5
  <2>3. \A l \in 1..Len(wal') : l > k =>
          ~(wal'[l].op = "delete" /\ wal'[l].col = d /\ wal'[l].id = i)
    BY <1>3, <2>1, <2>2
  <2>4. k \in 1..Len(wal') /\ InsertedAt(k, d, i)'
    BY <1>3, <2>1 DEF InsertedAt
  <2> QED
    BY <2>3, <2>4
<1>12. NothingInvented'
  <2>1. ASSUME NEW d, NEW t, InLog(wal, d, t) PROVE InLog(wal', d, t)
    <3> SUFFICES ASSUME NEW n \in 1..Len(t)
                 PROVE  \E k \in 1..Len(wal') :
                          /\ wal'[k].op = "insert" /\ wal'[k].col = d
                          /\ wal'[k].id = t[n].id /\ wal'[k].vec = t[n].vec
      BY DEF InLog
    <3>1. PICK k \in 1..N : /\ wal[k].op = "insert" /\ wal[k].col = d
                            /\ wal[k].id = t[n].id /\ wal[k].vec = t[n].vec
      BY <1>1, <2>1 DEF InLog
    <3>2. k \in 1..Len(wal') /\ wal'[k] = wal[k]
      BY <1>1, <1>3
    <3> QED
      BY <3>1, <3>2
  <2>2. \A d \in Cols : /\ InLog(wal, d, nodes[d]) /\ InLog(wal, d, dirty[d])
                        /\ InLog(wal, d, batch[d])
                        /\ snap[d] # None => InLog(wal, d, snap[d].nodes)
    BY DEF NothingInvented, AllLogged, InLog, InsertedAt
  <2>3. \A d \in Cols : /\ InLog(wal', d, nodes[d]) /\ InLog(wal', d, dirty[d])
                        /\ InLog(wal', d, batch[d])
                        /\ snap[d] # None => InLog(wal', d, snap[d].nodes)
    BY <2>1, <2>2
  <2>4. nodes' = nodes /\ dirty' = dirty /\ batch' = batch /\ snap' = snap
    BY DEF WriteLog, index
  <2>5. ASSUME NEW d \in Cols
        PROVE  /\ AllLogged(d, nodes[d])' /\ AllLogged(d, dirty[d])' /\ AllLogged(d, batch[d])'
    BY <2>3, <2>4 DEF AllLogged, InLog, InsertedAt
  <2>6. ASSUME NEW d \in Cols, snap'[d] # None PROVE AllLogged(d, snap[d].nodes)'
    BY <2>3, <2>4, <2>6 DEF AllLogged, InLog, InsertedAt
  <2> QED
    BY <2>5, <2>6 DEF NothingInvented
<1>13. HeldOK'
  <2> SUFFICES ASSUME NEW d \in (loaded \cap Hnsw) \ suspect,
                      mode = "flushing" => d \in flush.todo,
                      NEW k \in 1..Len(wal'), NEW i \in Ids, InsertedAt(k, d, i)'
               PROVE  i \in Held(d)' \/ InWriting(d, i)'
    BY DEF HeldOK, WriteLog
  <2>1. CASE k = N + 1
    <3>1. d = c /\ e.op = "insert" /\ e.id = i
      BY <1>1, <1>3, <2>1 DEF InsertedAt
    <3> QED
      BY <1>2, <1>4, <3>1 DEF InWriting
  <2>2. CASE k # N + 1
    <3>1. k \in 1..Len(wal) /\ InsertedAt(k, d, i)
      BY <1>1, <1>3, <2>2 DEF InsertedAt
    <3>2. i \in Held(d) \/ InWriting(d, i)
      BY <1>2, <3>1 DEF HeldOK, Ahead
    <3>3. i \in Held(d) => i \in Held(d)'
      BY DEF Held, WriteLog, index
    <3>4. InWriting(d, i) => InWriting(d, i)'
      BY <1>2, <1>4 DEF InWriting, TypeOK
    <3> QED
      BY <3>2, <3>3, <3>4
  <2> QED
    BY <2>1, <2>2
<1>14. ServedOK'
  <2> SUFFICES ASSUME NEW d \in created \ suspect, NEW i \in present'[d], mode = "up"
               PROVE  i \in Served(d)'
    BY <1>2 DEF ServedOK, WriteLog
  <2>1. i \in Served(d)
    BY <1>2, <1>5 DEF ServedOK, Ahead, TypeOK
  <2> QED
    BY <2>1 DEF Served, WriteLog, index
<1> QED
  BY <1>6, <1>7, <1>8, <1>9, <1>10, <1>11, <1>12, <1>13, <1>14

\* An insert reaches the index, or is refused because the id is live; either
\* way it is served.
LEMMA InsertIndexStep ==
  ASSUME Inv, NEW c \in Cols, InsertIndex(c)
  PROVE  Inv'
<1> USE DEF Inv
<1>1. PICK e : e = writer[c]
  OBVIOUS
<1>2. e \in Inserts /\ e # None /\ e.op = "insert" /\ e.id \in Ids /\ mode \notin {"replay", "down"}
  BY <1>1 DEF TypeOK, InsertIndex, Entry, Inserts, Deletes, Serving
<1>3. PICK k \in 1..Len(wal) : /\ wal[k] = e /\ wal[k].col = c
                               /\ \A l \in 1..Len(wal) : l > k => wal[l].col # c
  BY <1>1, <1>2 DEF WriterOK
<1>4. Typed /\ IndexesLogged
  BY DEF TypeOK, Typed, NothingInvented, IndexesLogged
<1>5. /\ Typed' /\ KeepsGraph /\ KeepsHeld /\ KeepsServed /\ IndexesLogged'
      /\ c \in Hnsw => e.id \in Held(c)'
      /\ CanInsert(c, e) => e.id \in Served(c)'
  <2>1. CASE CanInsert(c, e)
    <3>1. IndexInsert(c, e) /\ batch' = batch /\ wal' = wal
      BY <1>1, <2>1 DEF InsertIndex, disk
    <3> QED
      BY <1>2, <1>3, <1>4, <3>1, IndexInsertOK
  <2>2. CASE ~CanInsert(c, e)
    <3>1. UNCHANGED <<index, wal>> /\ c \notin Hnsw
      BY <1>1, <2>2 DEF InsertIndex, disk, index, CanInsert
    <3>2. Typed'
      BY <1>4, <3>1 DEF Typed, index
    <3> QED
      BY <2>2, <3>1, <3>2, IndexStays
  <2> QED
    BY <2>1, <2>2
<1>6. /\ writer' = [writer EXCEPT ![c] = None]
      /\ present' = IF CanInsert(c, e) THEN [present EXCEPT ![c] = @ \cup {e.id}] ELSE present
  BY <1>1 DEF InsertIndex
<1>7. /\ present' \in [Cols -> SUBSET Ids] /\ writer' \in [Cols -> Entry \cup {None}]
      /\ writer'[c] = None /\ \A d \in Cols : d # c => writer'[d] = writer[d] /\ present'[d] = present[d]
      /\ \A i \in present'[c] : i \in present[c] \/ (i = e.id /\ CanInsert(c, e))
  BY <1>2, <1>6 DEF TypeOK
<1>8. TypeOK'
  BY <1>5, <1>7 DEF TypeOK, Typed, InsertIndex, disk
<1>9. FlushOK' /\ SnapsLive' /\ QuietSnapshotCovers'
  BY <1>7, FlushStays, SnapshotsStay DEF InsertIndex, disk
<1>10. CatalogOK'
  BY DEF CatalogOK, InsertIndex, disk
<1>11. WriterOK'
  BY <1>7 DEF WriterOK, InsertIndex, disk
<1>12. PresentOK'
  <2> SUFFICES ASSUME NEW d \in Cols, NEW i \in present'[d]
               PROVE  \E n \in 1..Len(wal) :
                        /\ InsertedAt(n, d, i)
                        /\ \A l \in 1..Len(wal) : l > n =>
                             ~(wal[l].op = "delete" /\ wal[l].col = d /\ wal[l].id = i)
    BY DEF PresentOK, InsertIndex, disk, InsertedAt
  <2>1. CASE i \in present[d]
    BY <2>1 DEF PresentOK
  <2>2. CASE i \notin present[d]
    <3>1. d = c /\ i = e.id
      BY <1>7, <2>2
    <3> QED
      BY <1>2, <1>3, <3>1 DEF InsertedAt
  <2> QED
    BY <2>1, <2>2
<1>13. NothingInvented'
  BY <1>5, LogStays DEF InsertIndex, disk
<1>14. HeldOK' /\ FlushedOK'
  <2>1. \A d, i : ~Ahead(d, i)
    BY <1>2 DEF Ahead
  <2>2. \A d \in Hnsw : \A i \in Ids : InWriting(d, i) => InWriting(d, i)' \/ i \in Held(d)'
    BY <1>1, <1>5, <1>7, RecoveryAssumption DEF InWriting
  <2> QED
    BY <1>5, <2>1, <2>2, HeldStays DEF InsertIndex, disk
<1>15. ServedOK'
  <2> SUFFICES ASSUME NEW d \in created \ suspect, NEW i \in present'[d], mode = "up"
               PROVE  i \in Served(d)'
    BY <1>2 DEF ServedOK, InsertIndex
  <2>1. d \in Cols
    BY DEF TypeOK
  <2>2. i \in present[d] => i \in Served(d)
    BY <2>1 DEF ServedOK, Ahead
  <2> QED
    BY <1>5, <1>7, <2>1, <2>2 DEF KeepsServed
<1> QED
  BY <1>8, <1>9, <1>10, <1>11, <1>12, <1>13, <1>14, <1>15

LEMMA DeleteIndexStep ==
  ASSUME Inv, NEW c \in Cols, DeleteIndex(c)
  PROVE  Inv'
<1> USE DEF Inv
<1>1. PICK e : e = writer[c]
  OBVIOUS
<1>2. e \in Entry /\ e # None /\ e.op = "delete" /\ e.id \in Ids /\ mode \notin {"replay", "down"}
  BY <1>1 DEF TypeOK, DeleteIndex, Entry, Inserts, Deletes, Serving
<1>3. e.id \notin present[c]
  BY <1>1, <1>2 DEF WriterOK
<1>4. Typed /\ IndexesLogged
  BY DEF TypeOK, Typed, NothingInvented, IndexesLogged
<1>5. Typed' /\ KeepsGraph /\ KeepsHeld /\ KeepsServedBut(c, e.id) /\ IndexesLogged'
  <2>1. CASE CanDelete(c, e.id)
    <3>1. IndexDelete(c, e.id) /\ batch' = batch /\ wal' = wal
      BY <1>1, <2>1 DEF DeleteIndex, disk
    <3> QED
      BY <1>2, <1>4, <2>1, <3>1, IndexDeleteOK
  <2>2. CASE ~CanDelete(c, e.id)
    <3>1. UNCHANGED <<index, wal>>
      BY <1>1, <2>2 DEF DeleteIndex, disk, index
    <3>2. Typed'
      BY <1>4, <3>1 DEF Typed, index
    <3> QED
      BY <3>1, <3>2, IndexStays DEF KeepsServed, KeepsServedBut
  <2> QED
    BY <2>1, <2>2
<1>6. /\ writer' \in [Cols -> Entry \cup {None}]
      /\ writer'[c] = None /\ \A d \in Cols : d # c => writer'[d] = writer[d]
  BY DEF TypeOK, DeleteIndex
<1>7. TypeOK'
  BY <1>5, <1>6 DEF TypeOK, Typed, DeleteIndex, disk, history
<1>8. FlushOK' /\ SnapsLive' /\ QuietSnapshotCovers'
  BY <1>6, FlushStays, SnapshotsStay DEF DeleteIndex, disk, history
<1>9. CatalogOK'
  BY DEF CatalogOK, DeleteIndex, disk, history
<1>10. WriterOK' /\ PresentOK'
  BY <1>6 DEF WriterOK, PresentOK, DeleteIndex, disk, history, InsertedAt
<1>11. NothingInvented'
  BY <1>5, LogStays DEF DeleteIndex, disk
<1>12. HeldOK' /\ FlushedOK'
  <2>1. \A d, i : ~Ahead(d, i)
    BY <1>2 DEF Ahead
  <2>2. \A d \in Hnsw : \A i \in Ids : InWriting(d, i) => InWriting(d, i)'
    BY <1>1, <1>2, <1>6, RecoveryAssumption DEF InWriting
  <2> QED
    BY <1>5, <2>1, <2>2, HeldStays DEF DeleteIndex, disk, history
<1>13. ServedOK'
  <2> SUFFICES ASSUME NEW d \in created \ suspect, NEW i \in present[d], mode = "up"
               PROVE  i \in Served(d)'
    BY <1>2 DEF ServedOK, DeleteIndex, history
  <2>1. d \in Cols /\ i \in Served(d) /\ ~(d = c /\ i = e.id)
    BY <1>3 DEF ServedOK, Ahead, TypeOK
  <2> QED
    BY <1>5, <2>1 DEF KeepsServedBut
<1> QED
  BY <1>7, <1>8, <1>9, <1>10, <1>11, <1>12, <1>13

-----------------------------------------------------------------------------
(* The background applier.                                                 *)

LEMMA ApplierStep ==
  ASSUME Inv, NEW c \in Cols, ApplierTake(c) \/ ApplierApply(c)
  PROVE  Inv'
<1> USE DEF Inv
<1>1. Typed /\ IndexesLogged
  BY DEF TypeOK, Typed, NothingInvented, IndexesLogged
<1>2. /\ UNCHANGED <<mode, catalog, wal, snap, loaded, writer, creating, dropping, flush, pos>>
      /\ UNCHANGED history
  BY DEF ApplierTake, ApplierApply, disk
<1>3. Typed' /\ KeepsGraph /\ KeepsHeld /\ KeepsServed /\ IndexesLogged'
  BY <1>1, <1>2, TakenOK, AppliedBatchOK DEF ApplierTake, ApplierApply
<1>4. TypeOK'
  BY <1>2, <1>3 DEF TypeOK, Typed, history
<1>5. FlushOK' /\ WriterOK' /\ PresentOK' /\ SnapsLive' /\ QuietSnapshotCovers'
  BY <1>2, FlushStays, WritesStay, SnapshotsStay DEF history
<1>6. CatalogOK'
  BY <1>2 DEF CatalogOK, history
<1>7. NothingInvented'
  BY <1>2, <1>3, LogStays
<1>8. \A d, i : Ahead(d, i) => Ahead(d, i)'
  BY <1>2 DEF Ahead, InsertedAt, WithSnapshot
<1>9. \A d, i : InWriting(d, i)' <=> InWriting(d, i)
  BY <1>2 DEF InWriting
<1>10. HeldOK' /\ FlushedOK'
  BY <1>2, <1>3, <1>8, <1>9, HeldStays DEF history
<1>11. ServedOK'
  BY <1>2, <1>3, <1>8, ServedStays DEF history
<1> QED
  BY <1>4, <1>5, <1>6, <1>7, <1>10, <1>11

-----------------------------------------------------------------------------
(* Shutdown.                                                               *)

LEMMA StopBeginStep ==
  ASSUME Inv, StopBegin
  PROVE  Inv'
<1> USE DEF Inv
<1>1. TypeOK' /\ FlushOK' /\ CatalogOK'
  BY DEF TypeOK, FlushOK, CatalogOK, StopBegin, disk, index, history, AllLogged, InsertedAt
<1>2. WriterOK' /\ PresentOK' /\ SnapsLive' /\ QuietSnapshotCovers'
  BY WritesStay, SnapshotsStay DEF StopBegin, disk, history
<1>3. KeepsGraph /\ KeepsHeld /\ KeepsServed /\ IndexesLogged'
  BY IndexStays DEF StopBegin, disk
<1>4. NothingInvented'
  BY <1>3, LogStays DEF StopBegin, disk
<1>5. \A d, i : ~Ahead(d, i) /\ (InWriting(d, i)' <=> InWriting(d, i))
  BY DEF StopBegin, Ahead, InWriting
<1>6. HeldOK'
  BY <1>3, <1>5 DEF HeldOK, KeepsHeld, InsertedAt, StopBegin, disk, history
<1>7. FlushedOK' /\ ServedOK'
  BY DEF FlushedOK, ToFlushOK, ServedOK, FlushOK, StopBegin
<1> QED
  BY <1>1, <1>2, <1>4, <1>6, <1>7

LEMMA FlushBeginStep ==
  ASSUME Inv, FlushBegin
  PROVE  Inv'
<1> USE DEF Inv
<1>1. PICK idle : idle = (\A c \in Cols : writer[c] = None)
  OBVIOUS
<1>2. PICK seq \in {0, Len(wal)} :
         flush' = [seq |-> seq, todo |-> loaded \cap Hnsw, col |-> None, pc |-> "idle",
                   batch |-> <<>>, idle |-> idle]
  BY <1>1 DEF FlushBegin, NoFlush, GetMaxSeqID
<1>3. idle \in BOOLEAN
  BY <1>1
<1>4. /\ flush'.todo = loaded \cap Hnsw /\ flush'.pc = "idle" /\ flush'.idle = idle
      /\ flush'.seq = seq
  BY <1>2
<1>5. TypeOK'
  <2>1. seq \in 0..Len(wal) /\ loaded \cap Hnsw \subseteq Cols
    BY <1>2 DEF TypeOK
  <2>2. flush' \in [seq : 0..Len(wal), todo : SUBSET Cols, col : Cols \cup {None},
                    pc : {"idle", "taken", "drained"}, batch : Seq(Insertion), idle : BOOLEAN]
    BY <1>2, <1>3, <2>1
  <2> QED
    BY <2>2 DEF TypeOK, FlushBegin, disk, index, history
<1>6. FlushOK'
  BY <1>1, <1>4 DEF FlushOK, FlushBegin
<1>7. CatalogOK'
  BY DEF CatalogOK, FlushBegin, disk, history
<1>8. WriterOK' /\ PresentOK' /\ SnapsLive' /\ QuietSnapshotCovers'
  BY WritesStay, SnapshotsStay DEF FlushBegin, disk, history
<1>9. KeepsGraph /\ KeepsHeld /\ KeepsServed /\ IndexesLogged'
  BY IndexStays DEF FlushBegin, disk
<1>10. NothingInvented'
  BY <1>9, LogStays DEF FlushBegin, disk
<1>11. \A d, i : ~Ahead(d, i) /\ (InWriting(d, i)' <=> InWriting(d, i))
  BY DEF FlushBegin, Ahead, InWriting
<1>12. HeldOK'
  BY <1>9, <1>11 DEF HeldOK, KeepsHeld, InsertedAt, FlushBegin, disk, history
<1>13. FlushedOK' /\ ServedOK'
  <2>1. ASSUME idle, NEW c \in (loaded \cap Hnsw) \ suspect, NEW k \in 1..seq, NEW i \in Ids,
               InsertedAt(k, c, i)
        PROVE  i \in Held(c)
    <3>1. Len(wal) \in Nat /\ c \in Cols /\ mode = "draining"
      BY RecoveryAssumption DEF TypeOK, FlushBegin
    <3>2. k \in 1..Len(wal)
      BY <1>2, <3>1
    <3>3. writer[c] = None
      BY <1>1, <2>1, <3>1
    <3> QED
      BY <2>1, <3>1, <3>2, <3>3 DEF HeldOK, Ahead, InWriting
  <2>2. ToFlushOK'
    <3>1. \A d, i, k : Held(d)' = Held(d) /\ (InsertedAt(k, d, i)' <=> InsertedAt(k, d, i))
      BY DEF FlushBegin, Held, InsertedAt, index, disk
    <3>2. suspect' = suspect
      BY DEF FlushBegin, history
    <3> QED
      BY <1>4, <2>1, <3>1, <3>2 DEF ToFlushOK
  <2> QED
    BY <1>4, <2>2 DEF FlushedOK, ServedOK, FlushBegin
<1> QED
  BY <1>5, <1>6, <1>7, <1>8, <1>10, <1>12, <1>13

\* With no write in progress the buffer, the graph and the applier's batch
\* have every insert of the log, and the buffer goes with the flush.
LEMMA FlushTakeStep ==
  ASSUME Inv, NEW c \in Cols, FlushTake(c)
  PROVE  Inv'
<1> USE DEF Inv
<1>1. mode = "flushing" /\ flush.pc = "idle" /\ c \in flush.todo
  BY DEF FlushTake
<1>2. /\ flush'.pc = "taken" /\ flush'.col = c /\ flush'.todo = flush.todo \ {c}
      /\ flush'.batch = dirty[c] /\ flush'.idle = flush.idle
      /\ flush' \in [seq : 0..Len(wal), todo : SUBSET Cols, col : Cols \cup {None},
                     pc : {"idle", "taken", "drained"}, batch : Seq(Insertion), idle : BOOLEAN]
  BY DEF FlushTake, TypeOK
<1>3. /\ dirty' \in [Cols -> Seq(Insertion)] /\ dirty'[c] = <<>>
      /\ \A d \in Cols : d # c => dirty'[d] = dirty[d]
  BY DEF FlushTake, TypeOK
<1>4. TypeOK'
  BY <1>2, <1>3 DEF TypeOK, FlushTake, disk, history
<1>5. FlushOK'
  <2>1. AllLogged(c, dirty[c])
    BY DEF NothingInvented
  <2>2. AllLogged(flush.col, flush.batch)'
    BY <1>2, <2>1 DEF AllLogged, InsertedAt, FlushTake, disk
  <2> QED
    BY <1>1, <1>2, <2>2 DEF FlushOK, FlushTake
<1>6. CatalogOK'
  BY DEF CatalogOK, FlushTake, disk, history
<1>7. WriterOK' /\ PresentOK' /\ SnapsLive' /\ QuietSnapshotCovers'
  BY WritesStay, SnapshotsStay DEF FlushTake, disk, history
<1>8. NothingInvented'
  <2>1. wal' = wal /\ nodes' = nodes /\ batch' = batch /\ snap' = snap
    BY DEF FlushTake, disk
  <2>2. \A d \in Cols : InLog(wal, d, dirty[d]) => InLog(wal, d, dirty'[d])
    BY <1>3 DEF InLog
  <2>3. IndexesLogged'
    BY <2>1, <2>2, LoggedAs DEF IndexesLogged, NothingInvented
  <2> QED
    BY <2>1, <2>3, LogStays
<1>9. HeldOK'
  <2> SUFFICES ASSUME NEW d \in (loaded \cap Hnsw) \ suspect, d \in flush'.todo,
                      NEW k \in 1..Len(wal), NEW i \in Ids, InsertedAt(k, d, i)
               PROVE  i \in Held(d)' \/ InWriting(d, i)'
    BY <1>1 DEF HeldOK, FlushTake, disk, history, InsertedAt
  <2>1. d # c /\ d \in flush.todo
    BY <1>2
  <2>2. i \in Held(d) \/ InWriting(d, i)
    BY <1>1, <2>1 DEF HeldOK, Ahead
  <2>3. d \in Cols
    BY RecoveryAssumption
  <2> QED
    BY <1>3, <2>1, <2>2, <2>3 DEF Held, InWriting, FlushTake
<1>10. FlushedOK'
  <2>1. flush'.seq = flush.seq
    BY DEF FlushTake, TypeOK
  <2>2. ToFlushOK'
    <3>1. \A d \in Cols : d # c => Held(d)' = Held(d)
      BY <1>3 DEF Held, FlushTake
    <3>2. \A d, i, k : InsertedAt(k, d, i)' <=> InsertedAt(k, d, i)
      BY DEF FlushTake, InsertedAt, disk
    <3>3. suspect' = suspect /\ mode' = mode /\ flush.todo \subseteq Cols
      BY DEF FlushTake, history, TypeOK
    <3> QED
      BY <1>2, <2>1, <3>1, <3>2, <3>3 DEF FlushedOK, ToFlushOK
  <2>3. ASSUME flush.idle, c \notin suspect,
               NEW k \in 1..flush.seq, NEW i \in Ids, InsertedAt(k, c, i)
        PROVE  i \in IdsOf(nodes[c]) \/ i \in IdsOf(batch[c]) \/ i \in IdsOf(dirty[c])
    <3>1. i \in Held(c)
      BY <1>1, <2>3 DEF FlushedOK, ToFlushOK
    <3> QED
      BY <3>1 DEF Held
  <2> QED
    BY <1>2, <2>1, <2>2, <2>3 DEF FlushedOK, FlushTake, disk, history, InsertedAt
<1>11. ServedOK'
  BY <1>1 DEF ServedOK, FlushTake
<1> QED
  BY <1>4, <1>5, <1>6, <1>7, <1>8, <1>9, <1>10, <1>11

LEMMA FlushApplyStep ==
  ASSUME Inv, FlushApply
  PROVE  Inv'
<1> USE DEF Inv
<1>1. PICK c, q, b, t : c = flush.col /\ q = nodes[c] /\ b = flush.batch /\ t = Apply(q, b)
  OBVIOUS
<1>2. mode = "flushing" /\ flush.pc = "taken" /\ c \in Hnsw /\ c \in Cols
  BY <1>1, RecoveryAssumption DEF FlushApply, FlushOK
<1>3. q \in Seq(Node) /\ b \in Seq(Insertion)
  BY <1>1, <1>2 DEF TypeOK
<1>4. /\ t \in Seq(Node)
      /\ \A i : i \in IdsOf(q) \/ i \in IdsOf(b) => i \in IdsOf(t)
      /\ InLog(wal, c, q) /\ InLog(wal, c, b) => InLog(wal, c, t)
  BY <1>1, <1>3, AppliedOK
<1>5. /\ nodes' \in [Cols -> Seq(Node)] /\ nodes'[c] = t
      /\ \A d \in Cols : d # c => nodes'[d] = nodes[d]
  BY <1>1, <1>2, <1>4 DEF FlushApply, TypeOK
<1>6. /\ flush'.pc = "drained" /\ flush'.col = c /\ flush'.todo = flush.todo
      /\ flush'.batch = <<>> /\ flush'.idle = flush.idle
      /\ flush' \in [seq : 0..Len(wal), todo : SUBSET Cols, col : Cols \cup {None},
                     pc : {"idle", "taken", "drained"}, batch : Seq(Insertion), idle : BOOLEAN]
  <2>1. flush' = [flush EXCEPT !.pc = "drained", !.batch = <<>>] /\ <<>> \in Seq(Insertion)
    BY DEF FlushApply
  <2> QED
    BY <1>1, <2>1 DEF TypeOK
<1>7. TypeOK'
  BY <1>5, <1>6 DEF TypeOK, FlushApply, disk, history
<1>8. FlushOK'
  BY <1>1, <1>2, <1>6 DEF FlushOK, FlushApply, AllLogged
<1>9. CatalogOK'
  BY DEF CatalogOK, FlushApply, disk, history
<1>10. WriterOK' /\ PresentOK' /\ SnapsLive' /\ QuietSnapshotCovers'
  BY WritesStay, SnapshotsStay DEF FlushApply, disk, history
<1>11. NothingInvented'
  <2>1. wal' = wal /\ dirty' = dirty /\ batch' = batch /\ snap' = snap
    BY DEF FlushApply, disk
  <2>2. InLog(wal, c, q) /\ InLog(wal, c, b)
    <3>1. AllLogged(c, q) /\ AllLogged(c, b)
      BY <1>1, <1>2 DEF NothingInvented, FlushOK
    <3> QED
      BY <3>1 DEF AllLogged, InLog, InsertedAt
  <2>3. \A d \in Cols : InLog(wal, d, nodes[d]) => InLog(wal, d, nodes'[d])
    BY <1>4, <1>5, <2>2
  <2>4. IndexesLogged'
    BY <2>1, <2>3, LoggedAs DEF IndexesLogged, NothingInvented
  <2> QED
    BY <2>1, <2>4, LogStays
<1>12. \A d \in Cols : \A i : i \in IdsOf(nodes[d]) => i \in IdsOf(nodes'[d])
  BY <1>1, <1>4, <1>5
<1>13. HeldOK'
  <2>1. \A d \in Hnsw : \A i : i \in Held(d) => i \in Held(d)'
    BY <1>12, RecoveryAssumption DEF Held, FlushApply
  <2>2. \A d, i : ~Ahead(d, i) /\ (InWriting(d, i)' <=> InWriting(d, i))
    BY DEF FlushApply, Ahead, InWriting
  <2> QED
    BY <1>6, <2>1, <2>2 DEF HeldOK, FlushApply, disk, history, InsertedAt
<1>14. FlushedOK'
  <2>0. flush'.seq = flush.seq
    BY DEF FlushApply, TypeOK
  <2>1. ToFlushOK'
    <3>1. \A d \in Cols : \A i : i \in Held(d) => i \in Held(d)'
      BY <1>12 DEF Held, FlushApply
    <3>2. \A d, i, k : InsertedAt(k, d, i)' <=> InsertedAt(k, d, i)
      BY DEF FlushApply, InsertedAt, disk
    <3>3. suspect' = suspect /\ mode' = mode /\ flush.todo \subseteq Cols
      BY DEF FlushApply, history, TypeOK
    <3> QED
      BY <1>6, <2>0, <3>1, <3>2, <3>3 DEF FlushedOK, ToFlushOK
  <2> SUFFICES ASSUME flush.idle, c \notin suspect,
                      NEW k \in 1..flush.seq, NEW i \in Ids, InsertedAt(k, c, i)
               PROVE  i \in IdsOf(nodes'[c]) \/ i \in IdsOf(batch[c])
    BY <1>6, <2>0, <2>1 DEF FlushedOK, FlushApply, disk, history, InsertedAt
  <2>2. i \in IdsOf(q) \/ i \in IdsOf(batch[c]) \/ i \in IdsOf(b)
    BY <1>1, <1>2 DEF FlushedOK
  <2> QED
    BY <1>4, <1>5, <2>2
<1>15. ServedOK'
  BY <1>2 DEF ServedOK, FlushApply
<1> QED
  BY <1>7, <1>8, <1>9, <1>10, <1>11, <1>13, <1>14, <1>15

\* The snapshot written has every insert up to its stamp when no
\* write was in progress and the applier has no batch.
LEMMA FlushWriteStep ==
  ASSUME Inv, FlushWrite
  PROVE  Inv'
<1> USE DEF Inv
<1>1. PICK c, q, r, x : /\ c = flush.col /\ q = nodes[c] /\ r = Revived(q)
                        /\ x = [seq |-> flush.seq, nodes |-> r, idle |-> flush.idle,
                                alone |-> batch[c] = <<>>]
  OBVIOUS
<1>2. mode = "flushing" /\ flush.pc = "drained" /\ c \in Hnsw /\ c \in Cols
  BY <1>1, RecoveryAssumption DEF FlushWrite, FlushOK
<1>3. q \in Seq(Node) /\ flush.seq \in 0..Len(wal) /\ flush.idle \in BOOLEAN /\ Len(wal) \in Nat
  BY <1>1, <1>2 DEF TypeOK
<1>4. /\ r \in Seq(Node) /\ Len(r) = Len(q)
      /\ \A n \in 1..Len(q) : r[n].id = q[n].id /\ r[n].vec = q[n].vec /\ ~r[n].dead
  BY <1>1, <1>3, RevivedOK
<1>5. /\ x \in Snapshot /\ x.seq = flush.seq /\ x.nodes = r /\ x.idle = flush.idle
      /\ x.alone => batch[c] = <<>>
  <2>1. PICK y : y = (batch[c] = <<>>)
    OBVIOUS
  <2>2. y \in BOOLEAN /\ (y => batch[c] = <<>>)
    BY <2>1
  <2>3. x = [seq |-> flush.seq, nodes |-> r, idle |-> flush.idle, alone |-> y]
    BY <1>1, <2>1
  <2>4. flush.seq \in Nat
    BY <1>3
  <2> QED
    BY <1>3, <1>4, <2>2, <2>3, <2>4 DEF Snapshot
<1>6. /\ snap' = [snap EXCEPT ![c] = x]
      /\ snap'[c] = x /\ \A d \in Cols : d # c => snap'[d] = snap[d]
  BY <1>1, <1>2 DEF FlushWrite, TypeOK
<1>7. /\ flush'.pc = "idle" /\ flush'.todo = flush.todo /\ flush'.idle = flush.idle
      /\ flush' \in [seq : 0..Len(wal), todo : SUBSET Cols, col : Cols \cup {None},
                     pc : {"idle", "taken", "drained"}, batch : Seq(Insertion), idle : BOOLEAN]
  BY DEF FlushWrite, TypeOK
<1>8. TypeOK'
  <2>1. snap' \in [Cols -> Snapshot \cup {None}]
    BY <1>5, <1>6 DEF TypeOK
  <2>2. \A d \in Cols : snap'[d] # None => snap'[d].seq <= Len(wal)
    BY <1>3, <1>5, <1>6 DEF TypeOK
  <2> QED
    BY <1>7, <2>1, <2>2 DEF TypeOK, FlushWrite, index, history
<1>9. FlushOK'
  BY <1>2, <1>7 DEF FlushOK, FlushWrite
<1>10. CatalogOK'
  BY DEF CatalogOK, FlushWrite, history
<1>11. WriterOK' /\ PresentOK'
  BY WritesStay DEF FlushWrite, history
<1>12. SnapsLive'
  BY <1>4, <1>5, <1>6 DEF SnapsLive
<1>13. NothingInvented'
  <2>1. wal' = wal /\ dirty' = dirty /\ batch' = batch /\ nodes' = nodes
    BY DEF FlushWrite, index
  <2>2. \A d \in Cols : /\ InLog(wal, d, nodes[d]) /\ InLog(wal, d, dirty[d])
                        /\ InLog(wal, d, batch[d])
                        /\ snap[d] # None => InLog(wal, d, snap[d].nodes)
    BY DEF NothingInvented, AllLogged, InLog, InsertedAt
  <2>3. InLog(wal, c, r)
    <3>1. InLog(wal, c, q)
      BY <1>1, <1>2, <2>2
    <3> QED
      BY <1>4, <3>1 DEF InLog
  <2>4. \A d \in Cols : snap'[d] # None => InLog(wal, d, snap'[d].nodes)
    BY <1>5, <1>6, <2>2, <2>3
  <2> QED
    BY <2>1, <2>2, <2>4 DEF NothingInvented, AllLogged, InLog, InsertedAt
<1>14. QuietSnapshotCovers'
  <2> SUFFICES ASSUME NEW d \in Hnsw \ suspect, snap'[d] # None, snap'[d].idle, snap'[d].alone
               PROVE  Covers(d)'
    BY DEF QuietSnapshotCovers, FlushWrite, history
  <2>1. CASE d = c
    <3> SUFFICES ASSUME NEW k \in 1..flush.seq, wal[k].op = "insert", wal[k].col = c
                 PROVE  wal[k].id \in IdsOf(r)
      BY <1>5, <1>6, <2>1 DEF Covers, FlushWrite
    <3>1. k \in 1..Len(wal) /\ batch[c] = <<>> /\ flush.idle
      BY <1>3, <1>5, <1>6, <2>1
    <3>2. wal[k].id \in Ids
      <4>1. wal[k] \in Entry
        BY <3>1 DEF TypeOK
      <4> QED
        BY <4>1 DEF Entry, Inserts, Deletes
    <3>3. InsertedAt(k, c, wal[k].id)
      BY DEF InsertedAt
    <3>4. wal[k].id \in IdsOf(nodes[c]) \/ wal[k].id \in IdsOf(batch[c])
      BY <1>1, <1>2, <2>1, <3>1, <3>2, <3>3 DEF FlushedOK
    <3>5. wal[k].id \in IdsOf(q)
      BY <1>1, <3>1, <3>4 DEF IdsOf
    <3> QED
      BY <1>4, <3>5 DEF IdsOf
  <2>2. CASE d # c
    <3>1. snap'[d] = snap[d]
      BY <1>6, <2>2, RecoveryAssumption
    <3>2. Covers(d)
      BY <3>1 DEF QuietSnapshotCovers
    <3> QED
      BY <3>1, <3>2 DEF Covers, FlushWrite
  <2> QED
    BY <2>1, <2>2
<1>15. HeldOK'
  <2>1. \A d, i : ~Ahead(d, i) /\ (InWriting(d, i)' <=> InWriting(d, i)) /\ (i \in Held(d) => i \in Held(d)')
    BY DEF FlushWrite, Ahead, InWriting, Held, index
  <2> QED
    BY <1>7, <2>1 DEF HeldOK, FlushWrite, history, InsertedAt
<1>16. FlushedOK' /\ ServedOK'
  <2>1. flush'.seq = flush.seq
    BY DEF FlushWrite, TypeOK
  <2>2. ToFlushOK'
    BY <1>2, <1>7, <2>1 DEF FlushedOK, ToFlushOK, FlushWrite, index, history, Held, InsertedAt
  <2> QED
    BY <1>2, <1>7, <2>2 DEF FlushedOK, ServedOK, FlushWrite
<1> QED
  BY <1>8, <1>9, <1>10, <1>11, <1>12, <1>13, <1>14, <1>15, <1>16

-----------------------------------------------------------------------------
(* The end of the process, the restart and the replay.                     *)

LEMMA HaltStep ==
  ASSUME Inv, Halt
  PROVE  Inv'
<1> USE DEF Inv
<1>1. TypeOK'
  <2>1. Empty \in [Cols -> Seq(Node)] /\ Empty \in [Cols -> Seq(Insertion)]
    BY DEF Empty
  <2>2. NoFlush \in [seq : 0..Len(wal), todo : SUBSET Cols, col : Cols \cup {None},
                     pc : {"idle", "taken", "drained"}, batch : Seq(Insertion), idle : BOOLEAN]
    BY DEF NoFlush, TypeOK
  <2>3. 0 \in 0..Len(wal) /\ [c \in Cols |-> None] \in [Cols -> Entry \cup {None}]
    BY DEF TypeOK
  <2> QED
    BY <2>1, <2>2, <2>3 DEF TypeOK, Halt, disk, history
<1>2. FlushOK' /\ FlushedOK'
  BY DEF FlushOK, FlushedOK, ToFlushOK, Halt, NoFlush
<1>3. CatalogOK'
  BY DEF CatalogOK, Halt, disk, history
<1>4. WriterOK' /\ PresentOK'
  BY DEF WriterOK, PresentOK, Halt, disk, history, InsertedAt
<1>5. SnapsLive' /\ QuietSnapshotCovers'
  BY SnapshotsStay DEF Halt, disk, history
<1>6. NothingInvented'
  <2>1. \A c \in Cols : nodes'[c] = <<>> /\ dirty'[c] = <<>> /\ batch'[c] = <<>>
    BY DEF Halt, Empty
  <2>2. IndexesLogged'
    BY <2>1 DEF IndexesLogged, AllLogged
  <2> QED
    BY <2>2, LogStays DEF Halt, disk
<1>7. HeldOK' /\ ServedOK'
  BY DEF HeldOK, ServedOK, Halt
<1> QED
  BY <1>1, <1>2, <1>3, <1>4, <1>5, <1>6, <1>7

\* An insert of a collection that the restart does not leave incomplete is in
\* the snapshot it loads, or ahead of the replay.
LEMMA RestartFinds ==
  ASSUME Inv, Restart, NEW c \in catalog \ suspect', NEW k \in 1..Len(wal), NEW i,
         InsertedAt(k, c, i)
  PROVE  i \in LiveIds(nodes'[c]) \/ Ahead(c, i)'
<1> USE DEF Inv
<1>1. ~Incomplete(c) /\ c \in Cols
  BY DEF Restart, TypeOK
<1>2. /\ mode' = "replay" /\ pos' = AfterSeq /\ wal' = wal /\ snap' = snap /\ catalog' = catalog
      /\ nodes'[c] = LoadIndex(c)
  BY <1>1 DEF Restart, disk
<1>3. WithSnapshot' = WithSnapshot /\ InsertedAt(k, c, i)'
  BY <1>2 DEF WithSnapshot, InsertedAt
<1>4. k \in Nat /\ AfterSeq \in Nat /\ \A d \in WithSnapshot : AfterSeq <= snap[d].seq
  BY AfterSeqOK DEF TypeOK
<1>5. CASE c \in WithSnapshot
  <2>1. Covers(c) /\ snap[c] # None /\ snap[c] \in Snapshot /\ nodes'[c] = snap[c].nodes
    BY <1>1, <1>2, <1>5 DEF Incomplete, LoadIndex, WithSnapshot, TypeOK
  <2>2. snap[c].seq \in Nat
    BY <2>1 DEF Snapshot
  <2>3. CASE k <= snap[c].seq
    <3>1. i \in IdsOf(snap[c].nodes)
      BY <1>4, <2>1, <2>2, <2>3 DEF Covers, InsertedAt
    <3> QED
      BY <1>1, <2>1, <3>1 DEF IdsOf, LiveIds, SnapsLive
  <2>4. CASE k > snap[c].seq
    <3>1. k > AfterSeq
      BY <1>4, <1>5, <2>2, <2>4
    <3> QED
      BY <1>2, <1>3, <2>4, <3>1 DEF Ahead
  <2> QED
    BY <1>4, <2>2, <2>3, <2>4
<1>6. CASE c \notin WithSnapshot
  <2>1. ~(k \in 1..AfterSeq)
    BY <1>1, <1>6 DEF Incomplete, InsertedAt
  <2>2. k > AfterSeq
    BY <1>4, <2>1
  <2> QED
    BY <1>2, <1>3, <1>6, <2>2 DEF Ahead
<1> QED
  BY <1>5, <1>6

LEMMA RestartStep ==
  ASSUME Inv, Restart
  PROVE  Inv'
<1> USE DEF Inv
<1>1. nodes' \in [Cols -> Seq(Node)] /\ \A c \in Cols : nodes'[c] = LoadIndex(c)
  <2>1. \A c \in Cols : snap[c] # None => snap[c].nodes \in Seq(Node)
    BY DEF TypeOK, Snapshot
  <2>2. \A c \in Cols : LoadIndex(c) \in Seq(Node)
    <3>1. \A c \in Cols : LoadIndex(c) = <<>> \/ (snap[c] # None /\ LoadIndex(c) = snap[c].nodes)
      BY DEF LoadIndex, WithSnapshot
    <3>2. <<>> \in Seq(Node)
      OBVIOUS
    <3> QED
      BY <2>1, <3>1, <3>2
  <2> QED
    BY <2>2 DEF Restart
<1>2. TypeOK'
  <2>1. AfterSeq \in 0..Len(wal)
    BY AfterSeqOK
  <2>2. {c \in catalog : Incomplete(c)} \subseteq Cols
    BY DEF TypeOK
  <2>3. suspect' \in SUBSET Cols /\ restarts' \in Nat
    BY <2>2 DEF TypeOK, Restart
  <2> QED
    BY <1>1, <2>1, <2>3 DEF TypeOK, Restart, disk
<1>3. FlushOK' /\ CatalogOK' /\ FlushedOK'
  BY DEF FlushOK, CatalogOK, FlushedOK, ToFlushOK, Restart, disk
<1>4. WriterOK' /\ PresentOK' /\ SnapsLive' /\ QuietSnapshotCovers'
  BY WritesStay, SnapshotsStay DEF Restart, disk
<1>5. NothingInvented'
  <2>1. wal' = wal /\ dirty' = dirty /\ batch' = batch /\ snap' = snap
    BY DEF Restart, disk
  <2>2. \A c \in Cols : nodes'[c] = <<>> \/ (snap[c] # None /\ nodes'[c] = snap[c].nodes)
    BY <1>1 DEF LoadIndex, WithSnapshot
  <2>3. \A c \in Cols : snap[c] # None => InLog(wal, c, snap[c].nodes)
    BY DEF NothingInvented, AllLogged, InLog, InsertedAt
  <2>4. \A c \in Cols : InLog(wal, c, nodes'[c])
    <3>1. \A c : InLog(wal, c, <<>>)
      BY DEF InLog
    <3> QED
      BY <2>2, <2>3, <3>1
  <2>5. IndexesLogged'
    BY <2>1, <2>4, LoggedAs DEF IndexesLogged, NothingInvented
  <2> QED
    BY <2>1, <2>5, LogStays
<1>6. HeldOK'
  <2> SUFFICES ASSUME NEW c \in catalog \ suspect', NEW k \in 1..Len(wal), NEW i \in Ids,
                      InsertedAt(k, c, i)
               PROVE  i \in Held(c)' \/ Ahead(c, i)'
    BY DEF HeldOK, Restart, disk, InsertedAt
  <2>1. i \in LiveIds(nodes'[c]) \/ Ahead(c, i)'
    BY RestartFinds
  <2> QED
    BY <2>1 DEF Held, LiveIds, IdsOf
<1>7. ServedOK'
  <2> SUFFICES ASSUME NEW c \in created \ suspect', NEW i \in present[c]
               PROVE  i \in Served(c)' \/ Ahead(c, i)'
    BY DEF ServedOK, Restart
  <2>1. c \in catalog \ suspect' /\ c \in Cols
    BY DEF CatalogOK, TypeOK
  <2>2. PICK k \in 1..Len(wal) : InsertedAt(k, c, i)
    BY <2>1 DEF PresentOK
  <2>3. i \in LiveIds(nodes'[c]) \/ Ahead(c, i)'
    BY <2>1, <2>2, RestartFinds
  <2> QED
    BY <2>3 DEF Served
<1> QED
  BY <1>2, <1>3, <1>4, <1>5, <1>6, <1>7

\* A replayed insert is in the index after its step; a replayed delete of an
\* acknowledged vector has the insert ahead of it.
LEMMA ReplayEntryStep ==
  ASSUME Inv, ReplayEntry
  PROVE  Inv'
<1> USE DEF Inv
<1>1. PICK n, e : n = pos + 1 /\ e = wal[n]
  OBVIOUS
<1>2. /\ n \in 1..Len(wal) /\ n \in Nat /\ Head(ReadFrom(pos)) = e /\ pos \in Nat
      /\ mode = "replay" /\ pos' = n
  <2>1. wal \in Seq(Entry) /\ pos \in 0..Len(wal) /\ ReadFrom(pos) # <<>>
    BY DEF TypeOK, ReplayEntry
  <2>2. pos + 1 \in 1..Len(wal) /\ Head(ReadFrom(pos)) = wal[pos + 1]
    BY <2>1, ReadFromOK
  <2> QED
    BY <1>1, <2>1, <2>2 DEF ReplayEntry
<1>3. e \in Entry /\ e.col \in Cols /\ e.id \in Ids /\ (e.op = "insert" => e \in Inserts)
      /\ e.op \in {"insert", "delete"}
  <2>1. e \in Entry
    BY <1>1, <1>2 DEF TypeOK
  <2> QED
    BY <2>1 DEF Entry, Inserts, Deletes
<1>4. /\ IF Skipped(e, n) THEN UNCHANGED <<nodes, dirty>>
         ELSE IF e.op = "insert" THEN IndexInsert(e.col, e) ELSE IndexDelete(e.col, e.id)
      /\ UNCHANGED <<mode, catalog, wal, snap, loaded, batch, writer, creating, dropping, flush>>
      /\ UNCHANGED history
  BY <1>1, <1>2 DEF ReplayEntry, disk
<1>5. Typed /\ IndexesLogged
  BY DEF TypeOK, Typed, NothingInvented, IndexesLogged
<1> DEFINE Due(c, i) == InsertedAt(n, c, i) /\ c \in loaded /\ (c \in WithSnapshot => n > snap[c].seq)
           DeleteDue == /\ e.op = "delete" /\ (e.col \in WithSnapshot => n > snap[e.col].seq)
                        /\ KeepsServedBut(e.col, e.id)
<1>6. /\ Typed' /\ KeepsGraph /\ KeepsHeld /\ IndexesLogged'
      /\ KeepsServed \/ DeleteDue
      /\ \A c, i : Due(c, i) => i \in Served(c)' /\ (c \in Hnsw => i \in Held(c)')
  <2>1. CASE Skipped(e, n)
    <3>1. UNCHANGED <<index, wal>>
      BY <1>4, <2>1 DEF index
    <3>2. Typed' /\ KeepsGraph /\ KeepsHeld /\ KeepsServed /\ IndexesLogged'
      BY <1>5, <3>1, IndexStays DEF Typed, index
    <3>3. ASSUME NEW c, NEW i, Due(c, i) PROVE i \in Served(c)' /\ c \notin Hnsw
      <4>1. e.op = "insert" /\ e.col = c /\ e.id = i /\ c \in Cols
        BY <1>1, <1>3, <3>3 DEF InsertedAt
      <4>2. c \in WithSnapshot => snap[c].seq \in Nat
        BY <4>1 DEF TypeOK, WithSnapshot, Snapshot
      <4>3. ~CanInsert(c, e)
        BY <1>2, <2>1, <3>3, <4>1, <4>2 DEF Skipped
      <4>4. IsLive(nodes[c], i) /\ c \notin Hnsw
        BY <4>1, <4>3 DEF CanInsert
      <4>5. PICK ns : ns = nodes[c]
        OBVIOUS
      <4>6. ns \in Seq(Node) /\ NodeOf(ns, i) # 0 /\ ~ns[NodeOf(ns, i)].dead
        BY <1>5, <4>1, <4>4, <4>5 DEF Typed, IsLive
      <4>7. i \in LiveIds(ns)
        BY <4>6, NodeOfOK DEF LiveIds
      <4> QED
        BY <3>1, <4>4, <4>5, <4>7 DEF Served, index
    <3> QED
      BY <3>2, <3>3
  <2>2. CASE ~Skipped(e, n) /\ e.op = "insert"
    <3>1. IndexInsert(e.col, e) /\ batch' = batch /\ wal' = wal /\ e \in Inserts
      BY <1>3, <1>4, <2>2
    <3>2. /\ Typed' /\ KeepsGraph /\ KeepsHeld /\ KeepsServed /\ IndexesLogged'
          /\ e.id \in Served(e.col)' /\ (e.col \in Hnsw => e.id \in Held(e.col)')
      BY <1>1, <1>2, <1>3, <1>5, <3>1, IndexInsertOK
    <3>3. PICK d, j : d = e.col /\ j = e.id
      OBVIOUS
    <3>4. j \in Served(d)' /\ (d \in Hnsw => j \in Held(d)')
      BY <3>2, <3>3 DEF Served, Held
    <3>5. \A c, i : Due(c, i) => c = d /\ i = j
      BY <1>1, <3>3 DEF InsertedAt
    <3> QED
      BY <3>2, <3>4, <3>5
  <2>3. CASE ~Skipped(e, n) /\ e.op = "delete"
    <3>1. /\ IndexDelete(e.col, e.id) /\ batch' = batch /\ wal' = wal /\ CanDelete(e.col, e.id)
          /\ ~(e.col \in WithSnapshot /\ n <= snap[e.col].seq)
      BY <1>3, <1>4, <2>3 DEF Skipped
    <3>2. Typed' /\ KeepsGraph /\ KeepsHeld /\ KeepsServedBut(e.col, e.id) /\ IndexesLogged'
      BY <1>3, <1>5, <3>1, IndexDeleteOK
    <3>3. e.col \in WithSnapshot => snap[e.col].seq \in Nat
      BY <1>3 DEF TypeOK, WithSnapshot, Snapshot
    <3>4. DeleteDue
      BY <1>2, <2>3, <3>1, <3>2, <3>3
    <3>5. \A c, i : ~Due(c, i)
      BY <1>1, <2>3 DEF InsertedAt
    <3> QED
      BY <3>2, <3>4, <3>5
  <2> QED
    BY <1>3, <2>1, <2>2, <2>3
<1>7. TypeOK'
  BY <1>2, <1>4, <1>6 DEF TypeOK, Typed, history
<1>8. FlushOK' /\ WriterOK' /\ PresentOK' /\ SnapsLive' /\ QuietSnapshotCovers'
  BY <1>4, FlushStays, WritesStay, SnapshotsStay DEF history
<1>9. CatalogOK'
  BY <1>4 DEF CatalogOK, history
<1>10. NothingInvented'
  BY <1>4, <1>6, LogStays
<1>11. WithSnapshot' = WithSnapshot /\ \A k, c, i : InsertedAt(k, c, i)' <=> InsertedAt(k, c, i)
  BY <1>4 DEF WithSnapshot, InsertedAt
<1>12. ASSUME NEW c \in loaded, NEW i, Ahead(c, i) PROVE Ahead(c, i)' \/ Due(c, i)
  <2>1. PICK k \in 1..Len(wal) : /\ InsertedAt(k, c, i) /\ k > pos
                                 /\ c \in WithSnapshot => k > snap[c].seq
    BY <1>12 DEF Ahead
  <2>2. CASE k = n
    BY <2>1, <2>2
  <2>3. CASE k # n
    <3>1. k > n
      BY <1>1, <1>2, <2>1, <2>3
    <3> QED
      BY <1>2, <1>4, <1>11, <2>1, <3>1 DEF Ahead
  <2> QED
    BY <2>2, <2>3
<1> HIDE DEF Due, DeleteDue
<1>13. HeldOK' /\ FlushedOK'
  <2>1. \A c \in loaded \cap Hnsw : \A i \in Ids : Ahead(c, i) => Ahead(c, i)' \/ i \in Held(c)'
    BY <1>6, <1>12
  <2>2. \A c, i : InWriting(c, i)' <=> InWriting(c, i)
    BY <1>4 DEF InWriting
  <2> QED
    BY <1>4, <1>6, <2>1, <2>2, HeldStays DEF history
<1>14. ServedOK'
  <2> SUFFICES ASSUME NEW c \in created \ suspect, NEW i \in present[c]
               PROVE  i \in Served(c)' \/ Ahead(c, i)'
    BY <1>4 DEF ServedOK, history
  <2>1. c \in Cols /\ c \in loaded
    BY <1>2 DEF TypeOK, CatalogOK
  <2>2. i \in Served(c) \/ Ahead(c, i)
    BY <1>2 DEF ServedOK
  <2>3. CASE Ahead(c, i)
    BY <1>6, <1>12, <2>1, <2>3
  <2>4. CASE i \in Served(c) /\ KeepsServed
    BY <2>1, <2>4 DEF KeepsServed
  <2>5. CASE i \in Served(c) /\ DeleteDue /\ ~(c = e.col /\ i = e.id)
    BY <2>1, <2>5 DEF KeepsServedBut, DeleteDue
  <2>6. CASE DeleteDue /\ c = e.col /\ i = e.id
    <3>1. PICK k \in 1..Len(wal) :
            /\ InsertedAt(k, c, i)
            /\ \A l \in 1..Len(wal) : l > k => ~(wal[l].op = "delete" /\ wal[l].col = c /\ wal[l].id = i)
      BY <2>1 DEF PresentOK
    <3>2. e.op = "delete" /\ (c \in WithSnapshot => n > snap[c].seq)
      BY <2>6 DEF DeleteDue
    <3>3. ~(n > k) /\ k # n
      BY <1>1, <1>2, <2>6, <3>1, <3>2 DEF InsertedAt
    <3>4. k > n
      BY <1>2, <3>3
    <3>5. c \in WithSnapshot => k > snap[c].seq
      <4>1. c \in WithSnapshot => snap[c].seq \in Nat
        BY <2>1 DEF TypeOK, WithSnapshot, Snapshot
      <4> QED
        BY <1>2, <3>2, <3>4, <4>1
    <3> QED
      BY <1>2, <1>4, <1>11, <3>1, <3>4, <3>5 DEF Ahead
  <2> QED
    BY <1>6, <2>2, <2>3, <2>4, <2>5, <2>6
<1> QED
  BY <1>7, <1>8, <1>9, <1>10, <1>13, <1>14

LEMMA ReplayDoneStep ==
  ASSUME Inv, ReplayDone
  PROVE  Inv'
<1> USE DEF Inv
<1>1. mode = "replay" /\ mode' = "up" /\ pos = Len(wal)
  <2>1. wal \in Seq(Entry) /\ pos \in 0..Len(wal) /\ ReadFrom(pos) = <<>>
    BY DEF TypeOK, ReplayDone
  <2> QED
    BY <2>1, ReadFromOK DEF ReplayDone
<1>2. TypeOK'
  BY DEF TypeOK, ReplayDone, disk, index, history
<1>3. FlushOK' /\ CatalogOK'
  BY <1>1 DEF FlushOK, CatalogOK, ReplayDone, disk, history
<1>4. WriterOK' /\ PresentOK' /\ SnapsLive' /\ QuietSnapshotCovers'
  BY WritesStay, SnapshotsStay DEF ReplayDone, disk, history
<1>5. KeepsGraph /\ KeepsHeld /\ KeepsServed /\ IndexesLogged'
  BY IndexStays DEF ReplayDone, disk
<1>6. NothingInvented'
  BY <1>5, LogStays DEF ReplayDone, disk
<1>7. \A d, i : ~Ahead(d, i) /\ (InWriting(d, i)' <=> InWriting(d, i))
  BY <1>1 DEF ReplayDone, Ahead, InWriting, TypeOK
<1>8. HeldOK'
  BY <1>1, <1>5, <1>7 DEF HeldOK, KeepsHeld, InsertedAt, ReplayDone, disk, history
<1>9. FlushedOK'
  BY <1>1 DEF FlushedOK, ToFlushOK, FlushOK, ReplayDone
<1>10. ServedOK'
  BY <1>1, <1>5, <1>7 DEF ServedOK, KeepsServed, ReplayDone, history, TypeOK
<1> QED
  BY <1>2, <1>3, <1>4, <1>6, <1>8, <1>9, <1>10

-----------------------------------------------------------------------------

LEMMA Initially == ASSUME Init PROVE Inv
<1>1. Len(<<>>) = 0 /\ \A k : k \notin 1..Len(wal)
  BY DEF Init
<1>2. TypeOK
  <2>1. Empty \in [Cols -> Seq(Node)] /\ Empty \in [Cols -> Seq(Insertion)]
    BY DEF Empty
  <2>2. NoFlush \in [seq : 0..Len(wal), todo : SUBSET Cols, col : Cols \cup {None},
                     pc : {"idle", "taken", "drained"}, batch : Seq(Insertion), idle : BOOLEAN]
    BY <1>1 DEF NoFlush, Init
  <2>3. 0 \in 0..Len(wal) /\ [c \in Cols |-> None] \in [Cols -> Entry \cup {None}]
    BY <1>1 DEF Init
  <2> QED
    BY <2>1, <2>2, <2>3 DEF TypeOK, Init
<1>3. FlushOK /\ CatalogOK /\ WriterOK /\ PresentOK
  BY <1>1 DEF FlushOK, CatalogOK, WriterOK, PresentOK, Init, NoFlush
<1>4. NothingInvented /\ SnapsLive
  BY <1>1 DEF NothingInvented, SnapsLive, AllLogged, Init, Empty
<1>5. HeldOK /\ FlushedOK /\ QuietSnapshotCovers /\ ServedOK
  BY RecoveryAssumption DEF HeldOK, FlushedOK, ToFlushOK, QuietSnapshotCovers, ServedOK, Init, NoFlush
<1> QED
  BY <1>2, <1>3, <1>4, <1>5 DEF Inv

LEMMA Stutter == ASSUME Inv, UNCHANGED vars PROVE Inv'
<1> USE DEF Inv, vars
<1>1. /\ UNCHANGED <<mode, catalog, wal, snap, loaded, nodes, dirty, batch, writer, creating>>
      /\ UNCHANGED <<dropping, flush, pos, used, created, present, suspect, restarts>>
  BY DEF disk, index, history
<1>2. TypeOK' /\ CatalogOK'
  BY <1>1 DEF TypeOK, CatalogOK
<1>3. FlushOK' /\ WriterOK' /\ PresentOK' /\ SnapsLive' /\ QuietSnapshotCovers'
  BY <1>1, FlushStays, WritesStay, SnapshotsStay
<1>4. KeepsGraph /\ KeepsHeld /\ KeepsServed /\ IndexesLogged'
  BY <1>1, IndexStays DEF index
<1>5. NothingInvented'
  BY <1>1, <1>4, LogStays
<1>6. \A d, i : (Ahead(d, i) => Ahead(d, i)') /\ (InWriting(d, i)' <=> InWriting(d, i))
  BY <1>1 DEF Ahead, InWriting, InsertedAt, WithSnapshot
<1>7. HeldOK' /\ FlushedOK'
  BY <1>1, <1>4, <1>6, HeldStays
<1>8. ServedOK'
  BY <1>1, <1>4, <1>6, ServedStays
<1> QED
  BY <1>2, <1>3, <1>5, <1>7, <1>8

\* Inv is inductive.
THEOREM Invariance == Spec => []Inv
<1>1. Init => Inv
  BY Initially
<1>2. Inv /\ [Next]_vars => Inv'
  <2> SUFFICES ASSUME Inv, [Next]_vars PROVE Inv'
    OBVIOUS
  <2>1. ASSUME NEW c \in Cols,
               \/ CreateRow(c) \/ CreateInstall(c) \/ DropUnload(c) \/ DropRow(c)
               \/ InsertIndex(c) \/ DeleteIndex(c)
               \/ ApplierTake(c) \/ ApplierApply(c) \/ FlushTake(c)
        PROVE  Inv'
    BY <2>1, CreateRowStep, CreateInstallStep, DropUnloadStep, DropRowStep, InsertIndexStep,
       DeleteIndexStep, ApplierStep, FlushTakeStep
  <2>2. ASSUME NEW e \in Entry, WriteLog(e) PROVE Inv'
    BY <2>2, WriteLogStep
  <2>3. ASSUME \/ StopBegin \/ FlushBegin \/ FlushApply \/ FlushWrite \/ StopExit \/ Crash
               \/ Restart \/ ReplayEntry \/ ReplayDone
        PROVE  Inv'
    BY <2>3, StopBeginStep, FlushBeginStep, FlushApplyStep, FlushWriteStep, HaltStep,
       RestartStep, ReplayEntryStep, ReplayDoneStep DEF StopExit, Crash
  <2>4. CASE UNCHANGED vars
    BY <2>4, Stutter
  <2> QED
    BY <2>1, <2>2, <2>3, <2>4 DEF Next
<1> QED
  BY <1>1, <1>2, PTL DEF Spec

\* Every variable keeps its type; a stamp of a snapshot, of a flush and the
\* position of the replay stay within the log.
THEOREM TypeCorrect == Spec => []TypeOK
BY Invariance, PTL DEF Inv

\* Over any drain, flush, crash and replay a collection holds nothing that was
\* not inserted into it.
THEOREM NeverInvents == Spec => []NothingInvented
BY Invariance, PTL DEF Inv

\* An acknowledged collection has its row, and is loaded whenever requests are
\* served.
THEOREM CollectionsAlwaysSurvive == Spec => []CollectionsSurvive
<1>1. Inv => CollectionsSurvive
  BY DEF Inv, CatalogOK, CollectionsSurvive, Serving
<1> QED
  BY <1>1, Invariance, PTL

\* A snapshot written with no write and no batch in progress has every insert
\* up to the sequence id it is stamped with.
THEOREM QuietSnapshotsCover == Spec => []QuietSnapshotCovers
BY Invariance, PTL DEF Inv

\* Any number of crashes and restarts lose no acknowledged insert of a
\* collection that no restart left incomplete.
THEOREM AcknowledgedServed == Spec => []RecoveryComplete
<1>1. Inv => RecoveryComplete
  BY DEF Inv, ServedOK, RecoveryComplete, Ahead
<1> QED
  BY <1>1, Invariance, PTL
=============================================================================
