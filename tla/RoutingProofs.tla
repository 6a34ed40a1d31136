---------------------------- MODULE RoutingProofs ----------------------------
(***************************************************************************)
(* Proofs about Routing for any finite cluster, any placement of the       *)
(* virtual nodes, any number of requests and any sequence of ring changes. *)
(***************************************************************************)
EXTENDS Routing, FiniteSetTheorems, WellFoundedInduction, TLAPS

Rings == UNION {[P -> Nodes] : P \in SUBSET Positions}

\* Every virtual node on a ring is one of its node's, and a running node has
\* all of its own on its own ring: it was the first to be added there.
MapOK ==
  /\ map \in [Nodes -> Rings]
  /\ \A n \in Nodes : \A p \in DOMAIN map[n] : p \in place.slots[map[n][p]]
  /\ \A n \in running : \A p \in place.slots[n] : p \in DOMAIN map[n] /\ map[n][p] = n

\* x has a virtual node nearer to id i than any of n.
Closer(x, n, i) ==
  \E p \in place.slots[x] : \A q \in place.slots[n] :
    Ahead(place.hash[i], p) < Ahead(place.hash[i], q)

\* The ids of an insert have come nearer at every hop.
PathsOK ==
  \A t \in tasks :
    /\ reqs[t.req] # None
    /\ t.op \in {"insert", "store"} =>
         /\ t.ids # {} /\ t.path # <<>> /\ t.path[Len(t.path)] = t.node
         /\ place.named = Nodes => \A j, k \in 1..Len(t.path) : j < k =>
              \A i \in t.ids : Closer(t.path[k], t.path[j], i)

\* While the owners stay, what is stored or on its way to be is at its owner.
OwnersOK ==
  settled =>
    /\ running # {}
    /\ \A m, n \in running : \A i \in Ids : Owner(m, i) = Owner(n, i)
    /\ \A t \in tasks : t.op = "store" =>
         \A i \in t.ids : \A m \in running : Owner(m, i) = t.node

\* Nobody counts on an id that a delete on its way may remove.
DeletesOK ==
  \A t \in tasks : t.op = "remove" =>
    /\ t.ids \cap live = {}
    /\ \A r \in Reqs : reqs[r] # None /\ reqs[r].status = "busy" => t.ids \cap reqs[r].sure = {}

Somewhere(i) == \E n \in Nodes : i \in stored[n]

\* An insert that has not failed has every id stored or under way.
InsertsOK ==
  \A r \in Reqs :
    reqs[r] # None /\ reqs[r].op = "insert" /\ reqs[r].status = "busy" /\ ~reqs[r].failed =>
      \A i \in reqs[r].sure :
        \/ Somewhere(i)
        \/ \E t \in tasks : t.req = r /\ t.op \in {"insert", "store"} /\ i \in t.ids

\* A search that has not failed has found every id or will ask where it is.
SearchesOK ==
  settled /\ place.named = Nodes => \A r \in Reqs :
    reqs[r] # None /\ reqs[r].op = "search" /\ ~reqs[r].marked /\ ~reqs[r].failed =>
      /\ reqs[r].status = "busy" => \A i \in reqs[r].sure :
           \/ i \in reqs[r].found
           \/ \E t \in tasks : t.req = r /\ t.op = "query" /\ i \in stored[t.node]
      /\ reqs[r].status = "ok" => reqs[r].sure \subseteq reqs[r].found

Inv ==
  /\ TypeOK /\ MapOK /\ PathsOK /\ OwnersOK /\ StoredAtOwner
  /\ DeletesOK /\ InsertsOK /\ AckedStored /\ SearchesOK

-----------------------------------------------------------------------------
(* The ring.                                                               *)

\* Every set of numbers that is not empty has a least one.
LEMMA LeastNat ==
  ASSUME NEW S, S \subseteq Nat, S # {}
  PROVE  \E m \in S : \A n \in S : m <= n
<1>1. \E m \in S : \A n \in S : <<n, m>> \notin OpToRel(<, Nat)
  BY WFMin, NatLessThanWellFounded, Zenon
<1>2. PICK m \in S : \A n \in S : <<n, m>> \notin OpToRel(<, Nat)
  BY <1>1
<1>3. \A n \in S : ~(n < m)
  BY <1>2 DEF OpToRel
<1> QED
  BY <1>3

\* The distance of two positions is a number, and 0 only for a position itself.
LEMMA AheadType ==
  ASSUME NEW h \in Positions, NEW p \in Positions
  PROVE  /\ Ahead(h, p) \in Nat
         /\ \A q \in Positions : Ahead(h, p) = Ahead(h, q) => p = q
BY SizeAssumption DEF Ahead, Positions

\* Some occupied position is nearest.
LEMMA Nearest ==
  ASSUME NEW D, D \subseteq Positions, D # {}, NEW h \in Positions
  PROVE  \E p \in D : \A q \in D : Ahead(h, p) <= Ahead(h, q)
<1> DEFINE S == {Ahead(h, p) : p \in D}
<1>1. S \subseteq Nat /\ S # {}
  BY AheadType
<1>2. PICK m \in S : \A n \in S : m <= n
  BY <1>1, LeastNat, Zenon
<1> QED
  BY <1>2

\* The placements are of positions.
LEMMA Placed ==
  ASSUME place \in Placements
  PROVE  /\ place.named \subseteq Nodes
         /\ \A n \in Nodes : place.slots[n] \subseteq Positions /\ place.slots[n] # {}
         /\ \A i \in Ids : place.hash[i] \in Positions
<1>1. place \in [slots : [Nodes -> (SUBSET Positions) \ {{}}], hash : [Ids -> Positions],
                named : SUBSET Nodes]
  BY RoutingAssumption
<1> QED
  BY <1>1

\* What is known of the owner of an id on the ring of a running node.
LEMMA OwnerFound ==
  ASSUME TypeOK, MapOK, NEW n \in running, NEW i \in Ids
  PROVE  /\ Owner(n, i) \in Nodes /\ Owner(n, i) \in ring[n]
         /\ \E p \in DOMAIN map[n] :
              /\ map[n][p] = Owner(n, i) /\ p \in place.slots[Owner(n, i)]
              /\ \A q \in DOMAIN map[n] : Ahead(place.hash[i], p) <= Ahead(place.hash[i], q)
<1>1. n \in Nodes /\ place \in Placements
  BY DEF TypeOK
<1>2. DOMAIN map[n] \subseteq Positions /\ DOMAIN map[n] # {} /\ place.hash[i] \in Positions
  BY <1>1, Placed DEF TypeOK, MapOK
<1>3. \E p \in DOMAIN map[n] : \A q \in DOMAIN map[n] :
        Ahead(place.hash[i], p) <= Ahead(place.hash[i], q)
  BY <1>2, Nearest
<1>4. PICK p : p = CHOOSE x \in DOMAIN map[n] : \A q \in DOMAIN map[n] :
        Ahead(place.hash[i], x) <= Ahead(place.hash[i], q)
  OBVIOUS
<1>5. /\ p \in DOMAIN map[n]
      /\ \A q \in DOMAIN map[n] : Ahead(place.hash[i], p) <= Ahead(place.hash[i], q)
  BY <1>3, <1>4, Zenon
<1>6. Owner(n, i) = map[n][p]
  BY <1>4, Zenon DEF Owner, GetNode
<1>7. map[n][p] \in ring[n] /\ ring[n] \subseteq Nodes
  BY <1>1, <1>5 DEF TypeOK
<1> QED
  BY <1>1, <1>5, <1>6, <1>7 DEF MapOK

\* A node sends an id on only to one that is nearer to it.
LEMMA HopIsCloser ==
  ASSUME TypeOK, MapOK, NEW n \in running, NEW i \in Ids, Owner(n, i) # n
  PROVE  Closer(Owner(n, i), n, i)
<1>1. PICK p \in DOMAIN map[n] :
        /\ map[n][p] = Owner(n, i) /\ p \in place.slots[Owner(n, i)]
        /\ \A q \in DOMAIN map[n] : Ahead(place.hash[i], p) <= Ahead(place.hash[i], q)
  BY OwnerFound
<1>2. n \in Nodes /\ DOMAIN map[n] \subseteq Positions /\ place.hash[i] \in Positions
  BY Placed DEF TypeOK
<1>3. ASSUME NEW q \in place.slots[n]
      PROVE  Ahead(place.hash[i], p) < Ahead(place.hash[i], q)
  <2>1. q \in DOMAIN map[n] /\ map[n][q] = n
    BY DEF MapOK
  <2>2. p # q
    BY <1>1, <2>1
  <2> QED
    BY <1>1, <1>2, <2>1, <2>2, AheadType
<1> QED
  BY <1>1, <1>3 DEF Closer

LEMMA CloserOrder ==
  ASSUME place \in Placements, NEW x \in Nodes, NEW n \in Nodes, NEW m \in Nodes, NEW i \in Ids
  PROVE  /\ ~Closer(x, x, i)
         /\ Closer(x, n, i) /\ Closer(n, m, i) => Closer(x, m, i)
<1>1. \A y \in Nodes : \A p \in place.slots[y] : Ahead(place.hash[i], p) \in Nat
  BY Placed, AheadType
<1>2. ~Closer(x, x, i)
  BY <1>1 DEF Closer
<1>3. ASSUME Closer(x, n, i), Closer(n, m, i) PROVE Closer(x, m, i)
  <2>1. PICK p \in place.slots[x] : \A q \in place.slots[n] :
          Ahead(place.hash[i], p) < Ahead(place.hash[i], q)
    BY <1>3 DEF Closer
  <2>2. PICK q \in place.slots[n] : \A o \in place.slots[m] :
          Ahead(place.hash[i], q) < Ahead(place.hash[i], o)
    BY <1>3 DEF Closer
  <2>3. \A o \in place.slots[m] : Ahead(place.hash[i], p) < Ahead(place.hash[i], o)
    BY <1>1, <2>1, <2>2
  <2> QED
    BY <2>3 DEF Closer
<1> QED
  BY <1>2, <1>3

\* Adding a node to a ring.
LEMMA RingAddOK ==
  ASSUME NEW m \in Rings, NEW n \in Nodes, place \in Placements
  PROVE  LET a == RingAdd(m, place.slots, n)
         IN /\ a \in Rings /\ DOMAIN a = DOMAIN m \cup place.slots[n]
            /\ \A p \in DOMAIN m : a[p] = m[p]
            /\ \A p \in place.slots[n] : p \notin DOMAIN m => a[p] = n
            /\ \A p \in DOMAIN a : p \in DOMAIN m \/ a[p] = n
<1>1. place.slots[n] \subseteq Positions
  BY Placed
<1> QED
  BY <1>1 DEF RingAdd, Rings

LEMMA RingRemoveOK ==
  ASSUME NEW m \in Rings, NEW n \in Nodes
  PROVE  /\ RingRemove(m, n) \in Rings
         /\ \A p : p \in DOMAIN RingRemove(m, n) <=> p \in DOMAIN m /\ m[p] # n
         /\ \A p \in DOMAIN RingRemove(m, n) : RingRemove(m, n)[p] = m[p]
<1> DEFINE D == {p \in DOMAIN m : m[p] # n}
<1>1. m \in [DOMAIN m -> Nodes] /\ DOMAIN m \subseteq Positions
  BY DEF Rings
<1>2. RingRemove(m, n) = [p \in D |-> m[p]]
  BY DEF RingRemove
<1>3. RingRemove(m, n) \in [D -> Nodes] /\ D \in SUBSET Positions
  BY <1>1, <1>2
<1>4. RingRemove(m, n) \in Rings
  BY <1>3 DEF Rings
<1> QED
  BY <1>2, <1>4

LEMMA EmptyRingOK == EmptyRing \in Rings /\ DOMAIN EmptyRing = {}
BY DEF EmptyRing, Rings

\* Adding the nodes in an order makes a ring after every one of them.
LEMMA BuildingDefined ==
  ASSUME NEW o, NEW N \in Nat
  PROVE  \E f : f = [k \in 0..N |->
                     IF k = 0 THEN EmptyRing ELSE RingAdd(f[k - 1], place.slots, o[k])]
<1> DEFINE Made(f, m) ==
      f = [k \in 0..m |-> IF k = 0 THEN EmptyRing ELSE RingAdd(f[k - 1], place.slots, o[k])]
    S == {m \in Nat : ~\E f : Made(f, m)}
<1>1. S = {}
  <2> SUFFICES ASSUME S # {} PROVE FALSE
    OBVIOUS
  <2>1. PICK m \in S : \A n \in S : m <= n
    BY LeastNat
  <2>2. m # 0
    <3>1. Made([k \in 0..0 |-> EmptyRing], 0)
      OBVIOUS
    <3> QED
      BY <2>1, <3>1
  <2>3. m - 1 \in Nat /\ m - 1 \notin S
    <3>1. m \in Nat /\ m - 1 \in Nat /\ ~(m <= m - 1)
      BY <2>1, <2>2
    <3> QED
      BY <2>1, <3>1, Zenon
  <2>4. PICK f : Made(f, m - 1)
    BY <2>3
  <2> DEFINE g == [k \in 0..m |-> IF k = m THEN RingAdd(f[m - 1], place.slots, o[m]) ELSE f[k]]
  <2>5. \A k \in 0..m : g[k] = IF k = 0 THEN EmptyRing ELSE RingAdd(g[k - 1], place.slots, o[k])
    <3> SUFFICES ASSUME NEW k \in 0..m
                 PROVE  g[k] = IF k = 0 THEN EmptyRing ELSE RingAdd(g[k - 1], place.slots, o[k])
      OBVIOUS
    <3>1. CASE k = m
      <4>1. g[k] = RingAdd(f[m - 1], place.slots, o[m]) /\ g[m - 1] = f[m - 1]
        BY <2>2, <2>3, <3>1
      <4> QED
        BY <2>2, <3>1, <4>1
    <3>2. CASE k # m
      <4>1. k \in 0..(m - 1) /\ g[k] = f[k]
        BY <2>2, <3>2
      <4>2. f[k] = IF k = 0 THEN EmptyRing ELSE RingAdd(f[k - 1], place.slots, o[k])
        BY <2>4, <4>1
      <4>3. k # 0 => g[k - 1] = f[k - 1]
        BY <2>2, <4>1
      <4> QED
        BY <4>1, <4>2, <4>3
    <3> QED
      BY <3>1, <3>2
  <2>6. Made(g, m)
    BY <2>5
  <2> QED
    BY <2>1, <2>6
<1> QED
  BY <1>1

\* A ring built in an order has the virtual nodes of its nodes, and all those
\* of the first.
LEMMA BuiltOK ==
  ASSUME place \in Placements, NEW o \in Orders, NEW n \in Nodes, o[1] = n
  PROVE  /\ Built(o) \in Rings
         /\ \A p \in DOMAIN Built(o) : p \in place.slots[Built(o)[p]]
         /\ \A p \in place.slots[n] : p \in DOMAIN Built(o) /\ Built(o)[p] = n
<1> DEFINE N == Cardinality(Nodes)
<1>1. N \in Nat \ {0}
  BY RoutingAssumption, FS_CardinalityType, FS_EmptySet
<1>2. \A k \in 1..N : o[k] \in Nodes
  BY DEF Orders
<1>3. PICK f : /\ \A k \in 0..N :
                     f[k] = IF k = 0 THEN EmptyRing ELSE RingAdd(f[k - 1], place.slots, o[k])
               /\ Built(o) = f[N]
  <2> DEFINE Made(g) == g = [k \in 0..N |->
                      IF k = 0 THEN EmptyRing ELSE RingAdd(g[k - 1], place.slots, o[k])]
  <2>1. \E g : Made(g)
    BY <1>1, BuildingDefined
  <2>2. Made(CHOOSE g : Made(g))
    BY <2>1, Zenon
  <2>3. Built(o) = (CHOOSE g : Made(g))[N]
    BY Zenon DEF Built
  <2>4. PICK g : Made(g) /\ Built(o) = g[N]
    BY <2>2, <2>3, Zenon
  <2>5. \A k \in 0..N : g[k] = IF k = 0 THEN EmptyRing ELSE RingAdd(g[k - 1], place.slots, o[k])
    BY <2>4
  <2> QED
    BY <2>4, <2>5, Zenon
<1> DEFINE Good(m) ==
      /\ m \in Rings
      /\ \A p \in DOMAIN m : p \in place.slots[m[p]]
      /\ \A p \in place.slots[n] : p \in DOMAIN m /\ m[p] = n
<1>4. ASSUME NEW m \in Rings, NEW x \in Nodes, Good(m) \/ (m = EmptyRing /\ x = n)
      PROVE  Good(RingAdd(m, place.slots, x))
  <2>1. PICK a : a = RingAdd(m, place.slots, x)
    OBVIOUS
  <2>2. /\ a \in Rings /\ DOMAIN a = DOMAIN m \cup place.slots[x]
        /\ \A p \in DOMAIN m : a[p] = m[p]
        /\ \A p \in place.slots[x] : p \notin DOMAIN m => a[p] = x
        /\ \A p \in DOMAIN a : p \in DOMAIN m \/ a[p] = x
    BY <2>1, RingAddOK, Zenon
  <2>3. Good(a)
    BY <1>4, <2>2, EmptyRingOK
  <2> QED
    BY <2>1, <2>3, Zenon
<1> HIDE DEF Good
<1> DEFINE S == {k \in 1..N : ~Good(f[k])}
<1>5. S = {}
  <2> SUFFICES ASSUME S # {} PROVE FALSE
    OBVIOUS
  <2>1. PICK k \in S : \A l \in S : k <= l
    <3>1. S \subseteq Nat
      OBVIOUS
    <3> QED
      BY <3>1, LeastNat, Zenon
  <2> HIDE DEF N
  <2>2. k \in 1..N /\ k \in 0..N /\ k # 0 /\ o[k] \in Nodes
    BY <1>1, <1>2, <2>1
  <2>3. f[k] = RingAdd(f[k - 1], place.slots, o[k])
    BY <1>3, <2>2
  <2>4. CASE k = 1
    <3>1. f[0] = EmptyRing
      BY <1>1, <1>3
    <3>2. f[k] = RingAdd(EmptyRing, place.slots, n)
      BY <2>3, <2>4, <3>1
    <3>3. Good(f[k])
      BY <1>4, <3>2, EmptyRingOK
    <3> QED
      BY <2>1, <3>3
  <2>5. CASE k # 1
    <3>1. k - 1 \in 1..N /\ ~(k <= k - 1)
      BY <1>1, <2>2, <2>5
    <3>2. Good(f[k - 1])
      BY <2>1, <3>1
    <3>3. Good(f[k])
      BY <1>4, <2>2, <2>3, <3>2 DEF Good
    <3> QED
      BY <2>1, <3>3
  <2> QED
    BY <2>4, <2>5
<1>6. N \in 1..N
  BY <1>1
<1>7. Good(f[N])
  BY <1>5, <1>6
<1> QED
  BY <1>3, <1>7 DEF Good

-----------------------------------------------------------------------------
(* Ring changes.                                                           *)

\* Only the rings changed; the owners count only while they stay.
LEMMA OwnersStay ==
  ASSUME Inv, TypeOK', place' = place, stored' = stored, tasks' \subseteq tasks,
         settled' = (settled /\ Steady(map'))
  PROVE  OwnersOK' /\ StoredAtOwner'
<1> SUFFICES ASSUME settled' PROVE OwnersOK' /\ StoredAtOwner'
  BY DEF OwnersOK, StoredAtOwner
<1>1. settled /\ Steady(map')
  OBVIOUS
<1>2. PICK n \in running : TRUE
  BY <1>1 DEF Inv, OwnersOK
<1>3. running' # {} /\ \A m \in running', i \in Ids : Owner(m, i)' = Owner(n, i)
  BY <1>1, <1>2 DEF Steady, Owner
<1>4. \A t \in tasks' : t.op = "store" => \A i \in t.ids : i \in Ids /\ Owner(n, i) = t.node
  BY <1>1, <1>2 DEF Inv, OwnersOK, TypeOK, Task
<1>5. \A m \in Nodes : \A i \in stored[m] : i \in Ids /\ Owner(n, i) = m
  BY <1>1, <1>2 DEF Inv, StoredAtOwner, TypeOK
<1> QED
  BY <1>3, <1>4, <1>5 DEF OwnersOK, StoredAtOwner

LEMMA RingStepKeeps ==
  ASSUME Inv, TypeOK', MapOK', UNCHANGED <<place, has, stored, tasks, reqs, live>>,
         settled' = (settled /\ Steady(map'))
  PROVE  Inv'
<1>1. OwnersOK' /\ StoredAtOwner'
  BY OwnersStay
<1>2. PathsOK'
  <2>1. \A x, m, i : Closer(x, m, i)' <=> Closer(x, m, i)
    BY DEF Closer
  <2> QED
    BY <2>1 DEF Inv, PathsOK
<1>3. DeletesOK'
  BY DEF Inv, DeletesOK
<1>4. InsertsOK' /\ AckedStored' /\ SearchesOK'
  BY DEF Inv, InsertsOK, AckedStored, SearchesOK, Somewhere
<1> QED
  BY <1>1, <1>2, <1>3, <1>4 DEF Inv

LEMMA JoinedKeeps ==
  ASSUME Inv, NEW n \in Nodes, NEW x \in Nodes, Joined(n, x)
  PROVE  Inv'
<1> USE DEF Inv
<1>1. /\ n \in running /\ x # n /\ running' = running
      /\ ring' = [ring EXCEPT ![n] = ring[n] \cup {x}]
      /\ map' = [map EXCEPT ![n] = RingAdd(map[n], place.slots, x)]
      /\ changes' = changes + 0 /\ changes + 0 <= MaxChanges
      /\ settled' = (settled /\ Steady(map'))
      /\ UNCHANGED <<place, has, stored, tasks, reqs, live>>
  BY DEF Joined, Learn, Changing
<1>2. map[n] \in Rings /\ place \in Placements
  BY DEF MapOK, TypeOK
<1>3. PICK a : a = RingAdd(map[n], place.slots, x)
  OBVIOUS
<1>4. /\ a \in Rings /\ DOMAIN a = DOMAIN map[n] \cup place.slots[x]
      /\ \A p \in DOMAIN map[n] : a[p] = map[n][p]
      /\ \A p \in DOMAIN a : p \in DOMAIN map[n] \/ a[p] = x
  BY <1>2, <1>3, RingAddOK, Zenon
<1>5. /\ map' \in [Nodes -> Rings] /\ map'[n] = a
      /\ \A m \in Nodes : m # n => map'[m] = map[m]
  BY <1>1, <1>3, <1>4 DEF MapOK
<1>6. /\ ring' \in [Nodes -> SUBSET Nodes] /\ ring'[n] = ring[n] \cup {x}
      /\ \A m \in Nodes : m # n => ring'[m] = ring[m]
  BY <1>1 DEF TypeOK
<1>7. MapOK'
  <2>1. \A p \in DOMAIN a : p \in place.slots[a[p]]
    BY <1>4 DEF MapOK
  <2>2. \A p \in place.slots[n] : p \in DOMAIN a /\ a[p] = n
    BY <1>1, <1>4 DEF MapOK
  <2> QED
    BY <1>1, <1>5, <2>1, <2>2 DEF MapOK, TypeOK
<1>8. TypeOK'
  <2>1. ASSUME NEW m \in Nodes
        PROVE  DOMAIN map'[m] \subseteq Positions /\ \A p \in DOMAIN map'[m] : map'[m][p] \in ring'[m]
    <3>1. CASE m = n
      <4>1. DOMAIN a \subseteq Positions
        BY <1>4 DEF Rings
      <4> QED
        BY <1>4, <1>5, <1>6, <3>1, <4>1 DEF TypeOK
    <3>2. CASE m # n
      BY <1>5, <1>6, <3>2 DEF TypeOK
    <3> QED
      BY <3>1, <3>2
  <2>2. changes' \in 0..MaxChanges /\ settled' \in BOOLEAN
    BY <1>1, RoutingAssumption DEF TypeOK
  <2> QED
    BY <1>1, <1>6, <2>1, <2>2 DEF TypeOK
<1> QED
  BY <1>1, <1>7, <1>8, RingStepKeeps

LEMMA GoneKeeps ==
  ASSUME Inv, NEW n \in Nodes, NEW x \in Nodes, Gone(n, x)
  PROVE  Inv'
<1> USE DEF Inv
<1>1. /\ n \in running /\ x # n /\ running' = running
      /\ ring' = [ring EXCEPT ![n] = ring[n] \ {x}]
      /\ map' = [map EXCEPT ![n] = RingRemove(map[n], x)]
      /\ changes' = changes + 1 /\ changes + 1 <= MaxChanges
      /\ settled' = (settled /\ Steady(map'))
      /\ UNCHANGED <<place, has, stored, tasks, reqs, live>>
  BY DEF Gone, Forget, Changing
<1>2. map[n] \in Rings
  BY DEF MapOK
<1>3. PICK a : a = RingRemove(map[n], x)
  OBVIOUS
<1>4. /\ a \in Rings /\ \A p : p \in DOMAIN a <=> p \in DOMAIN map[n] /\ map[n][p] # x
      /\ \A p \in DOMAIN a : a[p] = map[n][p]
  BY <1>2, <1>3, RingRemoveOK
<1>5. /\ map' \in [Nodes -> Rings] /\ map'[n] = a
      /\ \A m \in Nodes : m # n => map'[m] = map[m]
  BY <1>1, <1>3, <1>4 DEF MapOK
<1>6. /\ ring' \in [Nodes -> SUBSET Nodes] /\ ring'[n] = ring[n] \ {x}
      /\ \A m \in Nodes : m # n => ring'[m] = ring[m]
  BY <1>1 DEF TypeOK
<1>7. MapOK'
  <2>1. \A p \in DOMAIN a : p \in place.slots[a[p]]
    BY <1>4 DEF MapOK
  <2>2. \A p \in place.slots[n] : p \in DOMAIN a /\ a[p] = n
    BY <1>1, <1>4 DEF MapOK
  <2> QED
    BY <1>1, <1>5, <2>1, <2>2 DEF MapOK, TypeOK
<1>8. TypeOK'
  <2>1. ASSUME NEW m \in Nodes
        PROVE  DOMAIN map'[m] \subseteq Positions /\ \A p \in DOMAIN map'[m] : map'[m][p] \in ring'[m]
    <3>1. CASE m = n
      BY <1>4, <1>5, <1>6, <3>1 DEF TypeOK
    <3>2. CASE m # n
      BY <1>5, <1>6, <3>2 DEF TypeOK
    <3> QED
      BY <3>1, <3>2
  <2>2. changes' \in 0..MaxChanges /\ settled' \in BOOLEAN
    BY <1>1, RoutingAssumption DEF TypeOK
  <2> QED
    BY <1>1, <1>6, <2>1, <2>2 DEF TypeOK
<1> QED
  BY <1>1, <1>7, <1>8, RingStepKeeps

LEMMA UpKeeps ==
  ASSUME Inv, NEW n \in Nodes, Up(n)
  PROVE  Inv'
<1> USE DEF Inv
<1>1. /\ n \notin running /\ running' = running \cup {n}
      /\ ring' = [ring EXCEPT ![n] = {n}]
      /\ map' = [map EXCEPT ![n] = RingAdd(EmptyRing, place.slots, n)]
      /\ changes' = changes + 0 /\ changes + 0 <= MaxChanges
      /\ settled' = (settled /\ Steady(map'))
      /\ UNCHANGED <<place, has, stored, tasks, reqs, live>>
  BY DEF Up, Begin, Changing
<1>2. EmptyRing \in Rings /\ DOMAIN EmptyRing = {} /\ place \in Placements
  BY EmptyRingOK DEF TypeOK
<1>3. PICK a : a = RingAdd(EmptyRing, place.slots, n)
  OBVIOUS
<1>4. /\ a \in Rings /\ DOMAIN a = DOMAIN EmptyRing \cup place.slots[n]
      /\ \A p \in place.slots[n] : p \notin DOMAIN EmptyRing => a[p] = n
  BY <1>2, <1>3, RingAddOK, Zenon
<1>5. /\ map' \in [Nodes -> Rings] /\ map'[n] = a
      /\ \A m \in Nodes : m # n => map'[m] = map[m]
  BY <1>1, <1>3, <1>4 DEF MapOK
<1>6. /\ ring' \in [Nodes -> SUBSET Nodes] /\ ring'[n] = {n}
      /\ \A m \in Nodes : m # n => ring'[m] = ring[m]
  BY <1>1 DEF TypeOK
<1>7. DOMAIN a = place.slots[n] /\ \A p \in DOMAIN a : a[p] = n
  BY <1>2, <1>4
<1>8. MapOK'
  BY <1>1, <1>5, <1>7 DEF MapOK, TypeOK
<1>9. TypeOK'
  <2>1. ASSUME NEW m \in Nodes
        PROVE  DOMAIN map'[m] \subseteq Positions /\ \A p \in DOMAIN map'[m] : map'[m][p] \in ring'[m]
    <3>1. CASE m = n
      BY <1>2, <1>5, <1>6, <1>7, <3>1, Placed
    <3>2. CASE m # n
      BY <1>5, <1>6, <3>2 DEF TypeOK
    <3> QED
      BY <3>1, <3>2
  <2>2. changes' \in 0..MaxChanges /\ settled' \in BOOLEAN
    BY <1>1, RoutingAssumption DEF TypeOK
  <2>3. running' \in SUBSET Nodes
    BY <1>1 DEF TypeOK
  <2> QED
    BY <1>1, <1>6, <2>1, <2>2, <2>3 DEF TypeOK
<1> QED
  BY <1>1, <1>8, <1>9, RingStepKeeps

\* The requests and the calls of a node that stops end with it.
LEMMA DownKeeps ==
  ASSUME Inv, NEW n \in Nodes, Down(n)
  PROVE  Inv'
<1> USE DEF Inv
<1> DEFINE lost == {t.req : t \in {u \in tasks : u.node = n}}
<1>1. /\ n \in running /\ running' = running \ {n}
      /\ ring' = [ring EXCEPT ![n] = {}]
      /\ map' = [map EXCEPT ![n] = EmptyRing]
      /\ changes' = changes + 1 /\ changes + 1 <= MaxChanges
      /\ settled' = (settled /\ Steady(map'))
      /\ tasks' = {t \in tasks : t.node # n}
      /\ reqs' = [r \in Reqs |->
                 IF reqs[r] # None /\ reqs[r].status = "busy" /\ reqs[r].at = n
                 THEN [reqs[r] EXCEPT !.status = "error"]
                 ELSE IF r \in lost THEN [reqs[r] EXCEPT !.failed = TRUE] ELSE reqs[r]]
      /\ UNCHANGED <<place, has, stored, live>>
  BY DEF Down, End, Changing
<1>2. /\ map' \in [Nodes -> Rings] /\ map'[n] = EmptyRing /\ DOMAIN EmptyRing = {}
      /\ \A m \in Nodes : m # n => map'[m] = map[m]
  BY <1>1, EmptyRingOK DEF MapOK
<1>3. /\ ring' \in [Nodes -> SUBSET Nodes] /\ ring'[n] = {}
      /\ \A m \in Nodes : m # n => ring'[m] = ring[m]
  BY <1>1 DEF TypeOK
<1>4. \A r \in lost : reqs[r] # None /\ reqs[r] \in Request
  BY DEF PathsOK, TypeOK, Task
<1>5. ASSUME NEW r \in Reqs
      PROVE  \/ /\ reqs[r] # None /\ reqs[r] \in Request
                /\ reqs'[r] = [reqs[r] EXCEPT !.status = "error"]
             \/ /\ reqs[r] # None /\ reqs[r] \in Request
                /\ reqs'[r] = [reqs[r] EXCEPT !.failed = TRUE]
             \/ reqs'[r] = reqs[r] /\ r \notin lost
  <2>1. CASE reqs[r] # None /\ reqs[r].status = "busy" /\ reqs[r].at = n
    BY <1>1, <2>1 DEF TypeOK
  <2>2. CASE ~(reqs[r] # None /\ reqs[r].status = "busy" /\ reqs[r].at = n) /\ r \in lost
    BY <1>1, <1>4, <2>2
  <2>3. CASE ~(reqs[r] # None /\ reqs[r].status = "busy" /\ reqs[r].at = n) /\ r \notin lost
    BY <1>1, <2>3
  <2> QED
    BY <2>1, <2>2, <2>3
<1> HIDE DEF lost
<1>6. ASSUME NEW r \in Reqs
      PROVE  /\ reqs'[r] \in Request \cup {None} /\ (reqs'[r] # None <=> reqs[r] # None)
             /\ reqs'[r] # None =>
                  /\ reqs'[r].op = reqs[r].op /\ reqs'[r].sure = reqs[r].sure
                  /\ reqs'[r].found = reqs[r].found /\ reqs'[r].marked = reqs[r].marked
                  /\ reqs'[r].status # "error" => reqs'[r].status = reqs[r].status
                  /\ reqs'[r].status # "error" /\ ~reqs'[r].failed => ~reqs[r].failed /\ r \notin lost
  <2>1. CASE reqs[r] # None /\ reqs[r] \in Request /\ reqs'[r] = [reqs[r] EXCEPT !.status = "error"]
    <3>1. PICK q \in Request : q = reqs[r] /\ reqs'[r] = [q EXCEPT !.status = "error"]
      BY <2>1
    <3>2. /\ reqs'[r] \in Request /\ reqs'[r].status = "error"
          /\ reqs'[r].op = q.op /\ reqs'[r].sure = q.sure /\ reqs'[r].found = q.found
          /\ reqs'[r].marked = q.marked
      BY <3>1 DEF Request
    <3> QED
      BY <2>1, <3>1, <3>2, RoutingAssumption
  <2>2. CASE reqs[r] # None /\ reqs[r] \in Request /\ reqs'[r] = [reqs[r] EXCEPT !.failed = TRUE]
    <3>1. PICK q \in Request : q = reqs[r] /\ reqs'[r] = [q EXCEPT !.failed = TRUE]
      BY <2>2
    <3>2. /\ reqs'[r] \in Request /\ reqs'[r].failed /\ reqs'[r].status = q.status
          /\ reqs'[r].op = q.op /\ reqs'[r].sure = q.sure /\ reqs'[r].found = q.found
          /\ reqs'[r].marked = q.marked
      BY <3>1 DEF Request
    <3> QED
      BY <2>2, <3>1, <3>2, RoutingAssumption
  <2>3. CASE reqs'[r] = reqs[r] /\ r \notin lost
    BY <2>3 DEF TypeOK
  <2> QED
    BY <1>5, <2>1, <2>2, <2>3
<1>7. \A t \in tasks : t \in Task /\ (t.req \notin lost => t \in tasks')
  BY <1>1 DEF lost, TypeOK
<1>8. tasks' \subseteq tasks
  BY <1>1
<1>9. MapOK'
  BY <1>1, <1>2 DEF MapOK, TypeOK
<1>10. TypeOK'
  <2>1. ASSUME NEW m \in Nodes
        PROVE  DOMAIN map'[m] \subseteq Positions /\ \A p \in DOMAIN map'[m] : map'[m][p] \in ring'[m]
    BY <1>2, <1>3 DEF TypeOK
  <2>2. changes' \in 0..MaxChanges /\ settled' \in BOOLEAN
    BY <1>1, RoutingAssumption DEF TypeOK
  <2>3. reqs' \in [Reqs -> Request \cup {None}]
    BY <1>1, <1>6
  <2> QED
    BY <1>1, <1>3, <1>8, <2>1, <2>2, <2>3 DEF TypeOK
<1>11. OwnersOK' /\ StoredAtOwner'
  BY <1>1, <1>8, <1>10, OwnersStay
<1>12. PathsOK'
  <2>1. \A x, m, i : Closer(x, m, i)' <=> Closer(x, m, i)
    BY <1>1 DEF Closer
  <2>2. \A t \in tasks' : t \in tasks /\ reqs'[t.req] # None
    BY <1>6, <1>7, <1>8 DEF PathsOK, Task
  <2> QED
    BY <1>1, <2>1, <2>2 DEF PathsOK
<1>13. DeletesOK'
  <2>1. \A r \in Reqs : reqs'[r] # None /\ reqs'[r].status = "busy" =>
          reqs[r] # None /\ reqs[r].status = "busy" /\ reqs'[r].sure = reqs[r].sure
    BY <1>6
  <2> QED
    BY <1>1, <1>8, <2>1 DEF DeletesOK
<1>14. InsertsOK'
  <2> SUFFICES ASSUME NEW r \in Reqs, reqs'[r] # None, reqs'[r].op = "insert",
                      reqs'[r].status = "busy", ~reqs'[r].failed, NEW i \in reqs'[r].sure
               PROVE  \/ Somewhere(i)'
                      \/ \E t \in tasks' : t.req = r /\ t.op \in {"insert", "store"} /\ i \in t.ids
    BY DEF InsertsOK
  <2>1. /\ reqs[r] # None /\ reqs[r].op = "insert" /\ reqs[r].status = "busy" /\ ~reqs[r].failed
        /\ r \notin lost /\ i \in reqs[r].sure
    BY <1>6
  <2>2. \/ Somewhere(i)
        \/ \E t \in tasks : t.req = r /\ t.op \in {"insert", "store"} /\ i \in t.ids
    BY <2>1 DEF InsertsOK
  <2> QED
    BY <1>1, <1>7, <2>1, <2>2 DEF Somewhere
<1>15. AckedStored'
  BY <1>1 DEF AckedStored
<1>16. SearchesOK'
  <2> SUFFICES ASSUME settled', place.named = Nodes, NEW r \in Reqs, reqs'[r] # None,
                      reqs'[r].op = "search", ~reqs'[r].marked, ~reqs'[r].failed
               PROVE  /\ reqs'[r].status = "busy" => \A i \in reqs'[r].sure :
                          \/ i \in reqs'[r].found
                          \/ \E t \in tasks' : t.req = r /\ t.op = "query" /\ i \in stored'[t.node]
                      /\ reqs'[r].status = "ok" => reqs'[r].sure \subseteq reqs'[r].found
    BY <1>1 DEF SearchesOK
  <2>1. settled /\ reqs[r] # None /\ reqs[r].op = "search" /\ ~reqs[r].marked
    BY <1>1, <1>6
  <2>2. CASE reqs'[r].status = "busy"
    <3>1. reqs[r].status = "busy" /\ ~reqs[r].failed /\ r \notin lost
      BY <1>6, <2>2
    <3>2. \A i \in reqs[r].sure :
             \/ i \in reqs[r].found
             \/ \E t \in tasks : t.req = r /\ t.op = "query" /\ i \in stored[t.node]
      BY <2>1, <3>1 DEF SearchesOK
    <3> QED
      BY <1>1, <1>6, <1>7, <2>2, <3>1, <3>2
  <2>3. CASE reqs'[r].status = "ok"
    <3>1. reqs[r].status = "ok" /\ ~reqs[r].failed
      BY <1>6, <2>3
    <3> QED
      BY <1>6, <2>1, <2>3, <3>1 DEF SearchesOK
  <2> QED
    BY <2>2, <2>3
<1> QED
  BY <1>9, <1>10, <1>11, <1>12, <1>13, <1>14, <1>15, <1>16

-----------------------------------------------------------------------------
(* Requests of clients.                                                    *)

\* While the rings stand still so do the owners.
LEMMA ViewStays ==
  ASSUME MapOK, UNCHANGED <<view, place>>
  PROVE  MapOK' /\ \A n, i : Owner(n, i)' = Owner(n, i)
BY DEF MapOK, Owner, view

\* A call or forward is work for the request, at the node it is meant for when
\* that is here or has an address of its own.
LEMMA CallOK ==
  ASSUME place \in Placements, NEW r \in Reqs, NEW op \in {"remove", "query"}, NEW n \in Nodes,
         NEW x \in Nodes, NEW B \in SUBSET Ids
  PROVE  LET t == Call(r, op, n, x, B)
         IN /\ t \in Task /\ t.req = r /\ t.op = op /\ t.ids = B
            /\ place.named = Nodes => t.node = x
<1>1. Host(n, x) \in Nodes /\ (place.named = Nodes => Host(n, x) = x)
  BY DEF Host
<1>2. CASE x = n
  <2>1. Call(r, op, n, x, B) = NewTask(r, op, n, B, <<n>>)
    BY <1>2 DEF Call
  <2> QED
    BY <1>2, <2>1 DEF NewTask, Task
<1>3. CASE x # n
  <2>1. PICK h \in Nodes : h = Host(n, x)
    BY <1>1
  <2>2. Call(r, op, n, x, B) = NewTask(r, op, h, B, <<n, h>>)
    BY <1>3, <2>1 DEF Call
  <2>3. <<n, h>> \in Seq(Nodes)
    OBVIOUS
  <2> QED
    BY <1>1, <2>1, <2>2, <2>3 DEF NewTask, Task
<1> QED
  BY <1>2, <1>3

LEMMA InsertKeeps ==
  ASSUME Inv, NEW r \in Reqs, NEW n \in Nodes, NEW B \in Batches, Insert(r, n, B)
  PROVE  Inv'
<1> USE DEF Inv
<1>1. PICK new : new = NewTask(r, "insert", n, B, <<n>>)
  OBVIOUS
<1>2. PICK q : q = NewRequest("insert", n, FALSE, B, B \ Removing)
  OBVIOUS
<1>3. /\ reqs[r] = None /\ n \in running /\ reqs' = [reqs EXCEPT ![r] = q]
      /\ tasks' = tasks \cup {new}
      /\ UNCHANGED <<view, place, has, stored, live>>
  BY <1>1, <1>2 DEF Insert, Open
<1>4. B \subseteq Ids /\ B # {}
  BY DEF Batches
<1>5. q \in Request /\ q # None /\ q.op = "insert" /\ q.status = "busy" /\ q.sure = B \ Removing
  <2>1. B \ Removing \in SUBSET Ids /\ B \in SUBSET Ids /\ {} \in SUBSET Ids
    BY <1>4
  <2>2. q \in Request
    BY <1>2, <2>1 DEF Request, NewRequest
  <2>3. q # None
    BY <2>2, RoutingAssumption
  <2> QED
    BY <1>2, <2>2, <2>3 DEF NewRequest
<1>6. /\ new \in Task /\ new.req = r /\ new.op = "insert" /\ new.node = n /\ new.ids = B
      /\ new.path = <<n>> /\ Len(new.path) = 1 /\ new.path[1] = n
  BY <1>1, <1>4 DEF Task, NewTask
<1>7. reqs'[r] = q /\ \A x \in Reqs : x # r => reqs'[x] = reqs[x]
  BY <1>3 DEF TypeOK
<1>8. \A t \in tasks : t.req \in Reqs /\ t.req # r /\ reqs'[t.req] = reqs[t.req]
  BY <1>3, <1>7 DEF PathsOK, TypeOK, Task
<1>9. MapOK' /\ \A m, i : Owner(m, i)' = Owner(m, i)
  BY <1>3, ViewStays
<1>10. running' = running /\ ring' = ring /\ map' = map /\ settled' = settled /\ changes' = changes
  BY <1>3 DEF view
<1>11. TypeOK'
  BY <1>3, <1>5, <1>6, <1>10 DEF TypeOK
<1>12. PathsOK'
  <2>1. ASSUME NEW t \in tasks'
        PROVE  /\ reqs'[t.req] # None
               /\ t.op \in {"insert", "store"} =>
                    /\ t.ids # {} /\ t.path # <<>> /\ t.path[Len(t.path)] = t.node
                    /\ place.named = Nodes => \A j, k \in 1..Len(t.path) : j < k =>
                         \A i \in t.ids : Closer(t.path[k], t.path[j], i)
    <3>1. CASE t = new
      <4>1. Len(t.path) = 1 /\ t.path[1] = t.node /\ t.op = "insert" /\ t.ids # {} /\ t.req = r
        BY <1>4, <1>6, <3>1
      <4> HIDE <3>1
      <4>2. \A j, k \in 1..Len(t.path) : ~(j < k)
        BY <4>1
      <4>3. t.path # <<>>
        BY <4>1
      <4> QED
        BY <1>5, <1>7, <4>1, <4>2, <4>3
    <3>2. CASE t \in tasks
      BY <1>8, <3>2 DEF PathsOK
    <3> QED
      BY <1>3, <3>1, <3>2
  <2>2. \A x, y, i : Closer(x, y, i)' = Closer(x, y, i)
    BY <1>3 DEF Closer
  <2> QED
    BY <1>3, <2>1, <2>2 DEF PathsOK
<1>13. OwnersOK' /\ StoredAtOwner'
  BY <1>3, <1>6, <1>9, <1>10 DEF OwnersOK, StoredAtOwner
<1>14. DeletesOK'
  <2>1. \A t \in tasks : t.op = "remove" => t.ids \subseteq Removing
    BY DEF Removing
  <2> QED
    BY <1>3, <1>5, <1>6, <1>7, <2>1 DEF DeletesOK
<1>15. InsertsOK'
  <2>1. \A i \in q.sure : i \in new.ids
    BY <1>5, <1>6
  <2> QED
    BY <1>3, <1>6, <1>7, <2>1 DEF InsertsOK, Somewhere
<1>16. AckedStored' /\ SearchesOK'
  BY <1>3, <1>5, <1>7, <1>10 DEF AckedStored, SearchesOK
<1> QED
  BY <1>9, <1>11, <1>12, <1>13, <1>14, <1>15, <1>16

LEMMA DeleteKeeps ==
  ASSUME Inv, NEW r \in Reqs, NEW n \in Nodes, NEW marked \in BOOLEAN, NEW i \in Ids,
         Delete(r, n, marked, i)
  PROVE  Inv'
<1> USE DEF Inv
<1>1. PICK new : new = Call(r, "remove", n, IF marked THEN n ELSE Owner(n, i), {i})
  OBVIOUS
<1>2. PICK q : q = NewRequest("delete", n, marked, {i}, {})
  OBVIOUS
<1>3. /\ reqs[r] = None /\ n \in running /\ tasks' = tasks \cup {new} /\ live' = live \ {i}
      /\ reqs' = [x \in Reqs |->
           IF x = r THEN q
           ELSE IF reqs[x] = None \/ reqs[x].status # "busy" THEN reqs[x]
           ELSE [reqs[x] EXCEPT !.sure = @ \ {i}]]
      /\ UNCHANGED <<view, place, has, stored>>
  BY <1>1, <1>2 DEF Delete
<1>4. q \in Request /\ q # None /\ q.op = "delete" /\ q.sure = {}
  <2>1. {i} \in SUBSET Ids /\ {i} \in SUBSET Ids /\ {} \in SUBSET Ids
    BY Zenon
  <2>2. q \in Request
    BY <1>2, <2>1 DEF Request, NewRequest
  <2>3. q # None
    BY <2>2, RoutingAssumption
  <2> QED
    BY <1>2, <2>2, <2>3 DEF NewRequest
<1>5. Owner(n, i) \in Nodes
  BY <1>3, OwnerFound
<1>6. new \in Task /\ new.req = r /\ new.op = "remove" /\ new.ids = {i}
  <2>1. (IF marked THEN n ELSE Owner(n, i)) \in Nodes /\ {i} \in SUBSET Ids
    BY <1>5
  <2> QED
    BY <1>1, <2>1, CallOK DEF TypeOK
<1>7. reqs'[r] = q
  BY <1>3
<1>8. ASSUME NEW x \in Reqs, x # r
      PROVE  /\ reqs'[x] \in Request \cup {None} /\ (reqs'[x] # None <=> reqs[x] # None)
             /\ reqs[x] # None =>
                  /\ reqs'[x].op = reqs[x].op /\ reqs'[x].found = reqs[x].found
                  /\ reqs'[x].failed = reqs[x].failed /\ reqs'[x].status = reqs[x].status
                  /\ reqs'[x].marked = reqs[x].marked
                  /\ reqs'[x].sure \subseteq reqs[x].sure
                  /\ reqs[x].status = "busy" => i \notin reqs'[x].sure
  <2>1. CASE reqs[x] = None \/ reqs[x].status # "busy"
    <3>1. reqs'[x] = reqs[x]
      BY <1>3, <1>8, <2>1
    <3> QED
      BY <2>1, <3>1 DEF TypeOK
  <2>2. CASE ~(reqs[x] = None \/ reqs[x].status # "busy")
    <3>1. reqs[x] \in Request
      BY <2>2 DEF TypeOK
    <3>2. reqs'[x] = [reqs[x] EXCEPT !.sure = reqs[x].sure \ {i}]
      BY <1>3, <1>8, <2>2
    <3>3. reqs'[x] \in Request
      BY <3>1, <3>2 DEF Request
    <3> QED
      BY <3>1, <3>2, <3>3, RoutingAssumption DEF Request
  <2> QED
    BY <2>1, <2>2
<1>9. \A t \in tasks : t.req \in Reqs /\ t.req # r /\ reqs[t.req] # None
  BY <1>3 DEF PathsOK, TypeOK, Task
<1>10. MapOK' /\ \A m, x : Owner(m, x)' = Owner(m, x)
  BY <1>3, ViewStays
<1>11. running' = running /\ ring' = ring /\ map' = map /\ settled' = settled /\ changes' = changes
  BY <1>3 DEF view
<1>12. TypeOK'
  <2>1. reqs' \in [Reqs -> Request \cup {None}]
    BY <1>3, <1>4, <1>7, <1>8
  <2> QED
    BY <1>3, <1>6, <1>11, <2>1 DEF TypeOK
<1>13. PathsOK'
  <2>1. ASSUME NEW t \in tasks'
        PROVE  /\ reqs'[t.req] # None
               /\ t.op \in {"insert", "store"} =>
                    /\ t.ids # {} /\ t.path # <<>> /\ t.path[Len(t.path)] = t.node
                    /\ place.named = Nodes => \A j, k \in 1..Len(t.path) : j < k =>
                         \A y \in t.ids : Closer(t.path[k], t.path[j], y)
    <3>1. CASE t = new
      BY <1>4, <1>6, <1>7, <3>1
    <3>2. CASE t \in tasks
      BY <1>8, <1>9, <3>2 DEF PathsOK
    <3> QED
      BY <1>3, <3>1, <3>2
  <2>2. \A x, y, z : Closer(x, y, z)' = Closer(x, y, z)
    BY <1>3 DEF Closer
  <2> QED
    BY <1>3, <2>1, <2>2 DEF PathsOK
<1>14. OwnersOK' /\ StoredAtOwner'
  BY <1>3, <1>6, <1>10, <1>11 DEF OwnersOK, StoredAtOwner
<1>15. DeletesOK'
  <2> SUFFICES ASSUME NEW t \in tasks', t.op = "remove"
               PROVE  /\ t.ids \cap live' = {}
                      /\ \A x \in Reqs : reqs'[x] # None /\ reqs'[x].status = "busy" =>
                           t.ids \cap reqs'[x].sure = {}
    BY DEF DeletesOK
  <2>1. CASE t = new
    BY <1>3, <1>4, <1>6, <1>7, <1>8, <2>1
  <2>2. CASE t \in tasks
    <3>1. t.ids \cap live = {} /\ \A x \in Reqs : reqs[x] # None /\ reqs[x].status = "busy" =>
            t.ids \cap reqs[x].sure = {}
      BY <2>2 DEF DeletesOK
    <3> QED
      BY <1>3, <1>4, <1>7, <1>8, <3>1
  <2> QED
    BY <1>3, <2>1, <2>2
<1>16. InsertsOK'
  <2> SUFFICES ASSUME NEW x \in Reqs, reqs'[x] # None, reqs'[x].op = "insert",
                      reqs'[x].status = "busy", ~reqs'[x].failed, NEW y \in reqs'[x].sure
               PROVE  \/ Somewhere(y)'
                      \/ \E t \in tasks' : t.req = x /\ t.op \in {"insert", "store"} /\ y \in t.ids
    BY DEF InsertsOK
  <2>1. /\ x # r /\ reqs[x] # None /\ reqs[x].op = "insert" /\ reqs[x].status = "busy"
        /\ ~reqs[x].failed /\ y \in reqs[x].sure
    BY <1>4, <1>7, <1>8
  <2> QED
    BY <1>3, <2>1 DEF InsertsOK, Somewhere
<1>17. AckedStored'
  BY <1>3 DEF AckedStored
<1>18. SearchesOK'
  <2> SUFFICES ASSUME settled', place.named = Nodes, NEW x \in Reqs, reqs'[x] # None,
                      reqs'[x].op = "search", ~reqs'[x].marked, ~reqs'[x].failed
               PROVE  /\ reqs'[x].status = "busy" => \A y \in reqs'[x].sure :
                          \/ y \in reqs'[x].found
                          \/ \E t \in tasks' : t.req = x /\ t.op = "query" /\ y \in stored'[t.node]
                      /\ reqs'[x].status = "ok" => reqs'[x].sure \subseteq reqs'[x].found
    BY <1>3 DEF SearchesOK
  <2>1. /\ x # r /\ reqs[x] # None /\ reqs[x].op = "search" /\ ~reqs[x].failed /\ settled
        /\ ~reqs[x].marked
    BY <1>4, <1>7, <1>8, <1>11
  <2> QED
    BY <1>3, <1>8, <2>1 DEF SearchesOK
<1> QED
  BY <1>10, <1>12, <1>13, <1>14, <1>15, <1>16, <1>17, <1>18

\* While the owners stay, the nodes asked by a search have all that is stored.
LEMMA SearchKeeps ==
  ASSUME Inv, NEW r \in Reqs, NEW n \in Nodes, NEW marked \in BOOLEAN, Search(r, n, marked)
  PROVE  Inv'
<1> USE DEF Inv
<1> DEFINE asked == IF marked THEN {n} ELSE ring[n]
<1>1. PICK new : new = {Call(r, "query", n, x, {}) : x \in asked}
  OBVIOUS
<1>2. PICK q : q = NewRequest("search", n, marked, {}, live)
  OBVIOUS
<1>3. /\ reqs[r] = None /\ n \in running /\ reqs' = [reqs EXCEPT ![r] = q]
      /\ tasks' = tasks \cup new
      /\ UNCHANGED <<view, place, has, stored, live>>
  BY <1>1, <1>2 DEF Search, Open
<1>4. /\ q \in Request /\ q # None /\ q.op = "search" /\ q.status = "busy" /\ q.sure = live
      /\ q.marked = marked
  <2>1. live \in SUBSET Ids /\ {} \in SUBSET Ids /\ {} \in SUBSET Ids
    BY DEF TypeOK
  <2>2. q \in Request
    BY <1>2, <2>1 DEF Request, NewRequest
  <2>3. q # None
    BY <2>2, RoutingAssumption
  <2> QED
    BY <1>2, <2>2, <2>3 DEF NewRequest
<1>5. ASSUME NEW x \in asked
      PROVE  /\ Call(r, "query", n, x, {}) \in Task
             /\ Call(r, "query", n, x, {}).req = r /\ Call(r, "query", n, x, {}).op = "query"
             /\ place.named = Nodes => Call(r, "query", n, x, {}).node = x
  <2>1. x \in Nodes /\ place \in Placements /\ {} \in SUBSET Ids
    BY DEF TypeOK
  <2> QED
    BY <2>1, CallOK
<1>6. \A t \in new : t \in Task /\ t.req = r /\ t.op = "query"
  BY <1>1, <1>5
<1> HIDE DEF asked
<1>7. reqs'[r] = q /\ \A x \in Reqs : x # r => reqs'[x] = reqs[x]
  BY <1>3 DEF TypeOK
<1>8. \A t \in tasks : t.req \in Reqs /\ t.req # r /\ reqs'[t.req] = reqs[t.req]
  BY <1>3, <1>7 DEF PathsOK, TypeOK, Task
<1>9. MapOK' /\ \A m, i : Owner(m, i)' = Owner(m, i)
  BY <1>3, ViewStays
<1>10. running' = running /\ ring' = ring /\ map' = map /\ settled' = settled /\ changes' = changes
  BY <1>3 DEF view
<1>11. TypeOK'
  BY <1>3, <1>4, <1>6, <1>10 DEF TypeOK
<1>12. PathsOK'
  <2>1. ASSUME NEW t \in tasks'
        PROVE  /\ reqs'[t.req] # None
               /\ t.op \in {"insert", "store"} =>
                    /\ t.ids # {} /\ t.path # <<>> /\ t.path[Len(t.path)] = t.node
                    /\ place.named = Nodes => \A j, k \in 1..Len(t.path) : j < k =>
                         \A i \in t.ids : Closer(t.path[k], t.path[j], i)
    <3>1. CASE t \in new
      BY <1>4, <1>6, <1>7, <3>1
    <3>2. CASE t \in tasks
      BY <1>8, <3>2 DEF PathsOK
    <3> QED
      BY <1>3, <3>1, <3>2
  <2>2. \A x, y, i : Closer(x, y, i)' = Closer(x, y, i)
    BY <1>3 DEF Closer
  <2> QED
    BY <1>3, <2>1, <2>2 DEF PathsOK
<1>13. OwnersOK' /\ StoredAtOwner'
  BY <1>3, <1>6, <1>9, <1>10 DEF OwnersOK, StoredAtOwner
<1>14. DeletesOK'
  BY <1>3, <1>4, <1>6, <1>7 DEF DeletesOK
<1>15. InsertsOK' /\ AckedStored'
  BY <1>3, <1>4, <1>7 DEF InsertsOK, Somewhere, AckedStored
<1>16. SearchesOK'
  <2>1. ASSUME settled, place.named = Nodes, ~marked, NEW i \in live
        PROVE  \E t \in new : i \in stored[t.node]
    <3>1. PICK x \in Nodes : i \in stored[x]
      BY DEF AckedStored
    <3>2. x = Owner(n, i) /\ i \in Ids
      BY <1>3, <2>1, <3>1 DEF StoredAtOwner, TypeOK
    <3>3. x \in ring[n]
      BY <1>3, <3>2, OwnerFound
    <3>4. x \in asked
      BY <2>1, <3>3 DEF asked
    <3>5. Call(r, "query", n, x, {}) \in new /\ Call(r, "query", n, x, {}).node = x
      BY <1>1, <1>5, <2>1, <3>4
    <3> QED
      BY <3>1, <3>5
  <2> QED
    BY <1>3, <1>4, <1>6, <1>7, <1>10, <2>1 DEF SearchesOK
<1> QED
  BY <1>9, <1>11, <1>12, <1>13, <1>14, <1>15, <1>16

-----------------------------------------------------------------------------
(* The work of a request.                                                  *)

\* An error marks the request of the call and changes nothing else.
LEMMA ErrorMarks ==
  ASSUME Inv, NEW t \in tasks, reqs' = reqs \/ reqs' = Failed({t.req})
  PROVE  /\ reqs' \in [Reqs -> Request \cup {None}]
         /\ \A q \in Reqs : reqs'[q] # None <=> reqs[q] # None
         /\ \A q \in Reqs : reqs[q] # None =>
              /\ reqs'[q].op = reqs[q].op /\ reqs'[q].status = reqs[q].status
              /\ reqs'[q].sure = reqs[q].sure /\ reqs'[q].found = reqs[q].found
              /\ reqs'[q].marked = reqs[q].marked
              /\ ~reqs'[q].failed => ~reqs[q].failed
         /\ reqs' = Failed({t.req}) => reqs'[t.req].failed
<1> USE DEF Inv
<1>1. t.req \in Reqs /\ reqs[t.req] # None /\ reqs[t.req] \in Request
  BY DEF PathsOK, TypeOK, Task
<1>2. CASE reqs' = Failed({t.req})
  <2>1. PICK f : f = [reqs[t.req] EXCEPT !.failed = TRUE]
    OBVIOUS
  <2>2. /\ f \in Request /\ f.op = reqs[t.req].op /\ f.status = reqs[t.req].status /\ f.failed
        /\ f.sure = reqs[t.req].sure /\ f.found = reqs[t.req].found
        /\ f.marked = reqs[t.req].marked
    BY <1>1, <2>1 DEF Request
  <2>3. f # None
    BY <2>2, RoutingAssumption
  <2>4. reqs' = [q \in Reqs |-> IF q = t.req THEN f ELSE reqs[q]]
    BY <1>2, <2>1 DEF Failed
  <2>5. reqs'[t.req] = f /\ \A q \in Reqs : q # t.req => reqs'[q] = reqs[q]
    BY <1>1, <2>4
  <2>6. reqs' \in [Reqs -> Request \cup {None}]
    BY <2>2, <2>4 DEF TypeOK
  <2> QED
    BY <1>1, <2>2, <2>3, <2>5, <2>6
<1>3. CASE reqs' = reqs /\ reqs' # Failed({t.req})
  BY <1>3 DEF TypeOK
<1> QED
  BY <1>2, <1>3

\* Every id of the batch goes on: it is stored here, or sent to a nearer node.
LEMMA SplitKeeps ==
  ASSUME Inv, NEW t \in tasks, Split(t)
  PROVE  Inv'
<1> USE DEF Inv
<1> DEFINE part(x) == {i \in t.ids : Owner(t.node, i) = x}
           piece(x) == IF x = t.node THEN NewTask(t.req, "store", x, part(x), t.path)
                       ELSE NewTask(t.req, "insert", Host(t.node, x), part(x),
                                    Append(t.path, Host(t.node, x)))
<1>1. PICK new : new = {piece(x) : x \in {y \in Nodes : part(y) # {}}}
  OBVIOUS
<1>2. /\ t.op = "insert" /\ t.node \in running /\ tasks' = (tasks \ {t}) \cup new
      /\ UNCHANGED <<view, place, has, stored, reqs, live>>
  <2>1. \A x \in Nodes : BucketVectors(t.node, t.ids)[x] = part(x)
    BY DEF BucketVectors
  <2>2. {y \in Nodes : BucketVectors(t.node, t.ids)[y] # {}} = {y \in Nodes : part(y) # {}}
    BY <2>1
  <2>3. {IF x = t.node THEN NewTask(t.req, "store", x, BucketVectors(t.node, t.ids)[x], t.path)
         ELSE NewTask(t.req, "insert", Host(t.node, x), BucketVectors(t.node, t.ids)[x],
                      Append(t.path, Host(t.node, x))) :
           x \in {y \in Nodes : BucketVectors(t.node, t.ids)[y] # {}}} = new
    BY <1>1, <2>1, <2>2
  <2> QED
    BY <2>3 DEF Split, Reachable
<1>3. /\ t \in Task /\ t.ids \subseteq Ids /\ t.req \in Reqs /\ t.node \in Nodes /\ t.path \in Seq(Nodes)
      /\ reqs[t.req] # None /\ t.path # <<>> /\ t.path[Len(t.path)] = t.node /\ Len(t.path) \in Nat
      /\ place.named = Nodes =>
           \A j, k \in 1..Len(t.path) : j < k => \A i \in t.ids : Closer(t.path[k], t.path[j], i)
  <2>1. t \in Task /\ t.ids \subseteq Ids /\ t.req \in Reqs /\ t.node \in Nodes /\ t.path \in Seq(Nodes)
    BY DEF TypeOK, Task
  <2>2. /\ reqs[t.req] # None /\ t.path # <<>> /\ t.path[Len(t.path)] = t.node
        /\ place.named = Nodes =>
             \A j, k \in 1..Len(t.path) : j < k => \A i \in t.ids : Closer(t.path[k], t.path[j], i)
    BY <1>2 DEF PathsOK
  <2>3. Len(t.path) \in Nat
    BY <2>1
  <2> QED
    BY <2>1, <2>2, <2>3
<1>4. ASSUME NEW u \in new
      PROVE  /\ u \in Task /\ u.req = t.req /\ u.ids # {} /\ u.ids \subseteq t.ids
             /\ u.op = "store" \/ place.named = Nodes => \A i \in u.ids : Owner(t.node, i) = u.node
             /\ \/ u.op = "store" /\ u.node = t.node /\ u.path = t.path
                \/ /\ u.op = "insert" /\ u.path = Append(t.path, u.node)
                   /\ place.named = Nodes => u.node # t.node
  <2>1. PICK x \in Nodes : u = piece(x) /\ part(x) # {}
    BY <1>1
  <2>2. PICK P : P = part(x)
    OBVIOUS
  <2>3. P # {} /\ P \in SUBSET Ids /\ P \subseteq t.ids /\ \A i \in P : Owner(t.node, i) = x
    BY <1>3, <2>1, <2>2
  <2>4. CASE x = t.node
    <3>1. u = NewTask(t.req, "store", x, P, t.path)
      BY <2>1, <2>2, <2>4
    <3> QED
      BY <1>3, <2>3, <2>4, <3>1 DEF NewTask, Task
  <2>5. CASE x # t.node
    <3>1. PICK h \in Nodes : h = Host(t.node, x) /\ (place.named = Nodes => h = x)
      BY <1>3 DEF Host
    <3>2. u = NewTask(t.req, "insert", h, P, Append(t.path, h))
      BY <2>1, <2>2, <2>5, <3>1
    <3>3. Append(t.path, h) \in Seq(Nodes)
      BY <1>3
    <3>4. /\ u \in Task /\ u.req = t.req /\ u.op = "insert" /\ u.ids = P /\ u.node = h
          /\ u.path = Append(t.path, h)
      BY <1>3, <2>3, <3>2, <3>3 DEF NewTask, Task
    <3> QED
      BY <2>3, <2>5, <3>1, <3>4
  <2> QED
    BY <2>4, <2>5
<1>5. ASSUME NEW i \in t.ids PROVE \E u \in new : i \in u.ids
  <2>1. Owner(t.node, i) \in Nodes
    BY <1>2, <1>3, OwnerFound
  <2>2. PICK x : x = Owner(t.node, i)
    OBVIOUS
  <2>3. x \in Nodes /\ i \in part(x)
    BY <2>1, <2>2
  <2>4. piece(x) \in new
    BY <1>1, <2>3
  <2>5. piece(x).ids = part(x)
    BY DEF NewTask
  <2> QED
    BY <2>3, <2>4, <2>5
<1> HIDE DEF part, piece
<1>6. MapOK' /\ \A m, i : Owner(m, i)' = Owner(m, i)
  BY <1>2, ViewStays
<1>7. running' = running /\ ring' = ring /\ map' = map /\ settled' = settled /\ changes' = changes
  BY <1>2 DEF view
<1>8. TypeOK'
  BY <1>2, <1>4, <1>7 DEF TypeOK
<1>9. PathsOK'
  <2>1. ASSUME NEW u \in new
        PROVE  /\ reqs[u.req] # None /\ u.op \notin {"remove", "query"}
               /\ u.ids # {} /\ u.path # <<>> /\ u.path[Len(u.path)] = u.node
               /\ place.named = Nodes => \A j, k \in 1..Len(u.path) : j < k =>
                    \A i \in u.ids : Closer(u.path[k], u.path[j], i)
    <3>1. CASE u.op = "store"
      BY <1>3, <1>4, <3>1
    <3>2. CASE u.op = "insert"
      <4>1. PICK x \in Nodes : x = u.node
        BY <1>4 DEF Task
      <4>2. PICK w : w = Append(t.path, x)
        OBVIOUS
      <4>3. /\ Len(w) = Len(t.path) + 1 /\ w[Len(t.path) + 1] = x
            /\ \A j \in 1..Len(t.path) : w[j] = t.path[j]
        BY <1>3, <4>2
      <4>4. u.path = w /\ (place.named = Nodes => x # t.node) /\ w # <<>>
        BY <1>3, <1>4, <3>2, <4>1, <4>2
      <4>5. ASSUME place.named = Nodes, NEW j \in 1..Len(w), NEW k \in 1..Len(w), j < k, NEW i \in u.ids
            PROVE  Closer(w[k], w[j], i)
        <5>1. i \in t.ids /\ i \in Ids /\ Owner(t.node, i) = x /\ j \in 1..Len(t.path) /\ t.path[j] \in Nodes
          BY <1>3, <1>4, <4>1, <4>3, <4>5
        <5>2. CASE k # Len(t.path) + 1
          <6>1. k \in 1..Len(t.path)
            BY <1>3, <4>3, <5>2
          <6> QED
            BY <1>3, <4>3, <4>5, <5>1, <6>1
        <5>3. CASE k = Len(t.path) + 1
          <6>1. Closer(x, t.node, i)
            BY <1>2, <4>4, <4>5, <5>1, HopIsCloser
          <6>2. w[k] = x /\ w[j] = t.path[j]
            BY <4>3, <5>1, <5>3
          <6>3. CASE j = Len(t.path)
            BY <1>3, <6>1, <6>2, <6>3
          <6>4. CASE j # Len(t.path)
            <7>1. Len(t.path) \in 1..Len(t.path) /\ j < Len(t.path)
              BY <1>3, <5>1, <6>4
            <7>2. Closer(t.node, t.path[j], i)
              BY <1>3, <4>5, <5>1, <7>1
            <7>3. place \in Placements
              BY DEF TypeOK
            <7> QED
              BY <1>3, <5>1, <6>1, <6>2, <7>2, <7>3, CloserOrder
          <6> QED
            BY <6>3, <6>4
        <5> QED
          BY <5>2, <5>3
      <4> QED
        BY <1>3, <1>4, <3>2, <4>1, <4>3, <4>4, <4>5
    <3> QED
      BY <1>4, <3>1, <3>2
  <2>2. \A x, y, i : Closer(x, y, i)' = Closer(x, y, i)
    BY <1>2 DEF Closer
  <2>3. \A u \in tasks' : u \in tasks \/ u \in new
    BY <1>2
  <2> QED
    BY <1>2, <2>1, <2>2, <2>3 DEF PathsOK
<1>10. OwnersOK' /\ StoredAtOwner'
  <2>1. ASSUME settled, NEW u \in new, u.op = "store", NEW i \in u.ids, NEW m \in running
        PROVE  Owner(m, i) = u.node
    <3>1. i \in Ids /\ Owner(t.node, i) = u.node
      BY <1>3, <1>4, <2>1
    <3> QED
      BY <1>2, <2>1, <3>1 DEF OwnersOK
  <2> QED
    BY <1>2, <1>6, <1>7, <2>1 DEF OwnersOK, StoredAtOwner
<1>11. DeletesOK'
  <2>1. \A u \in tasks' : u.op = "remove" => u \in tasks
    BY <1>2, <1>4
  <2> QED
    BY <1>2, <2>1 DEF DeletesOK
<1>12. InsertsOK'
  <2> SUFFICES ASSUME NEW r \in Reqs, reqs[r] # None, reqs[r].op = "insert",
                      reqs[r].status = "busy", ~reqs[r].failed, NEW i \in reqs[r].sure
               PROVE  \/ Somewhere(i)'
                      \/ \E u \in tasks' : u.req = r /\ u.op \in {"insert", "store"} /\ i \in u.ids
    BY <1>2 DEF InsertsOK
  <2>1. CASE Somewhere(i)
    BY <1>2, <2>1 DEF Somewhere
  <2>2. CASE ~Somewhere(i)
    <3>1. PICK v \in tasks : v.req = r /\ v.op \in {"insert", "store"} /\ i \in v.ids
      BY <2>2 DEF InsertsOK
    <3>2. CASE v = t
      <4>1. PICK u \in new : i \in u.ids
        BY <1>5, <3>1, <3>2
      <4> QED
        BY <1>2, <1>4, <3>1, <3>2, <4>1
    <3>3. CASE v # t
      BY <1>2, <3>1, <3>3
    <3> QED
      BY <3>2, <3>3
  <2> QED
    BY <2>1, <2>2
<1>13. AckedStored'
  BY <1>2 DEF AckedStored
<1>14. SearchesOK'
  <2>1. \A u \in tasks : u.op = "query" => u \in tasks'
    BY <1>2
  <2> QED
    BY <1>2, <1>7, <2>1 DEF SearchesOK
<1> QED
  BY <1>6, <1>8, <1>9, <1>10, <1>11, <1>12, <1>13, <1>14

\* A call has ended and the rings, the history and the other calls stand still.
LEMMA CallEnds ==
  ASSUME Inv, NEW t \in tasks, tasks' \subseteq tasks,
         reqs' = reqs \/ reqs' = Failed({t.req}),
         UNCHANGED <<view, place, has, live>>, stored' \in [Nodes -> SUBSET Ids]
  PROVE  TypeOK' /\ MapOK' /\ PathsOK' /\ OwnersOK' /\ DeletesOK'
<1> USE DEF Inv
<1>1. /\ reqs' \in [Reqs -> Request \cup {None}]
      /\ \A q \in Reqs : reqs'[q] # None <=> reqs[q] # None
      /\ \A q \in Reqs : reqs[q] # None =>
           reqs'[q].status = reqs[q].status /\ reqs'[q].sure = reqs[q].sure
  BY ErrorMarks
<1>2. MapOK' /\ \A m, i : Owner(m, i)' = Owner(m, i)
  BY ViewStays
<1>3. running' = running /\ ring' = ring /\ map' = map /\ settled' = settled /\ changes' = changes
  BY DEF view
<1>4. TypeOK'
  BY <1>1, <1>3 DEF TypeOK
<1>5. PathsOK'
  <2>1. \A x, y, i : Closer(x, y, i)' = Closer(x, y, i)
    BY DEF Closer
  <2>2. \A u \in tasks' : u \in tasks /\ reqs'[u.req] # None
    BY <1>1 DEF PathsOK, TypeOK, Task
  <2> QED
    BY <2>1, <2>2 DEF PathsOK
<1>6. OwnersOK'
  BY <1>2, <1>3 DEF OwnersOK
<1>7. DeletesOK'
  BY <1>1 DEF DeletesOK
<1> QED
  BY <1>2, <1>4, <1>5, <1>6, <1>7

LEMMA StoreKeeps ==
  ASSUME Inv, NEW t \in tasks, Store(t)
  PROVE  Inv'
<1> USE DEF Inv
<1>1. PICK part \in SUBSET (t.ids \ stored[t.node]) :
        /\ t.ids \cap stored[t.node] = {} => part = t.ids
        /\ stored' = [stored EXCEPT ![t.node] = stored[t.node] \cup part]
  BY DEF Store
<1>2. /\ t.op = "store" /\ tasks' = tasks \ {t}
      /\ reqs' = IF t.ids \cap stored[t.node] = {} THEN reqs ELSE Failed({t.req})
      /\ UNCHANGED <<view, place, has, live>>
  BY DEF Store
<1>3. t \in Task /\ t.ids \subseteq Ids /\ t.node \in Nodes /\ t.req \in Reqs
  BY DEF TypeOK, Task
<1>4. /\ stored' \in [Nodes -> SUBSET Ids] /\ stored'[t.node] = stored[t.node] \cup part
      /\ \A m \in Nodes : m # t.node => stored'[m] = stored[m]
  BY <1>1, <1>3 DEF TypeOK
<1>5. /\ \A q \in Reqs : reqs'[q] # None <=> reqs[q] # None
      /\ \A q \in Reqs : reqs[q] # None =>
           /\ reqs'[q].op = reqs[q].op /\ reqs'[q].status = reqs[q].status
           /\ reqs'[q].sure = reqs[q].sure /\ reqs'[q].found = reqs[q].found
           /\ reqs'[q].marked = reqs[q].marked
           /\ ~reqs'[q].failed => ~reqs[q].failed
      /\ reqs' = Failed({t.req}) => reqs'[t.req].failed
  BY <1>2, ErrorMarks
<1>6. TypeOK' /\ MapOK' /\ PathsOK' /\ OwnersOK' /\ DeletesOK'
  BY <1>2, <1>4, CallEnds
<1>7. \A m \in Nodes : stored[m] \subseteq stored'[m]
  BY <1>4
<1>8. settled' = settled /\ running' = running
  BY <1>2 DEF view
<1>9. StoredAtOwner'
  <2>1. \A m, i : Owner(m, i)' = Owner(m, i)
    BY <1>2, ViewStays
  <2>2. settled => \A i \in part : \A m \in running : Owner(m, i) = t.node
    BY <1>1, <1>2 DEF OwnersOK
  <2> QED
    BY <1>4, <1>8, <2>1, <2>2 DEF StoredAtOwner
<1>10. InsertsOK'
  <2> SUFFICES ASSUME NEW r \in Reqs, reqs'[r] # None, reqs'[r].op = "insert",
                      reqs'[r].status = "busy", ~reqs'[r].failed, NEW i \in reqs'[r].sure
               PROVE  \/ Somewhere(i)'
                      \/ \E u \in tasks' : u.req = r /\ u.op \in {"insert", "store"} /\ i \in u.ids
    BY DEF InsertsOK
  <2>1. /\ reqs[r] # None /\ reqs[r].op = "insert" /\ reqs[r].status = "busy"
        /\ ~reqs[r].failed /\ i \in reqs[r].sure
    BY <1>5
  <2>2. CASE Somewhere(i)
    BY <1>7, <2>2 DEF Somewhere
  <2>3. CASE ~Somewhere(i)
    <3>1. PICK v \in tasks : v.req = r /\ v.op \in {"insert", "store"} /\ i \in v.ids
      BY <2>1, <2>3 DEF InsertsOK
    <3>2. CASE v = t
      <4>1. reqs' # Failed({t.req})
        BY <1>5, <3>1, <3>2
      <4>2. part = t.ids
        BY <1>1, <1>2, <4>1
      <4> QED
        BY <1>3, <1>4, <3>1, <3>2, <4>2 DEF Somewhere
    <3>3. CASE v # t
      BY <1>2, <3>1, <3>3
    <3> QED
      BY <3>2, <3>3
  <2> QED
    BY <2>2, <2>3
<1>11. AckedStored'
  BY <1>2, <1>7 DEF AckedStored
<1>12. SearchesOK'
  <2>1. \A u \in tasks : u.op = "query" => u \in tasks' /\ stored[u.node] \subseteq stored'[u.node]
    BY <1>2, <1>7 DEF TypeOK, Task
  <2>2. \A r \in Reqs : reqs'[r] # None /\ ~reqs'[r].failed =>
          /\ reqs[r] # None /\ ~reqs[r].failed /\ reqs[r].op = reqs'[r].op
          /\ reqs[r].status = reqs'[r].status /\ reqs[r].marked = reqs'[r].marked
          /\ reqs[r].sure = reqs'[r].sure /\ reqs[r].found = reqs'[r].found
    BY <1>5
  <2>3. place' = place /\ settled' = settled
    BY <1>2, <1>8
  <2> QED
    BY <2>1, <2>2, <2>3 DEF SearchesOK
<1> QED
  BY <1>6, <1>9, <1>10, <1>11, <1>12

LEMMA RemoveKeeps ==
  ASSUME Inv, NEW t \in tasks, Remove(t)
  PROVE  Inv'
<1> USE DEF Inv
<1>1. /\ t.op = "remove" /\ tasks' = tasks \ {t}
      /\ stored' = [stored EXCEPT ![t.node] = stored[t.node] \ t.ids]
      /\ reqs' = IF t.ids \subseteq stored[t.node] THEN reqs ELSE Failed({t.req})
      /\ UNCHANGED <<view, place, has, live>>
  BY DEF Remove
<1>2. t \in Task /\ t.ids \subseteq Ids /\ t.node \in Nodes /\ t.req \in Reqs
  BY DEF TypeOK, Task
<1>3. /\ stored' \in [Nodes -> SUBSET Ids]
      /\ \A m \in Nodes : stored'[m] \subseteq stored[m] /\ stored[m] \subseteq stored'[m] \cup t.ids
  BY <1>1, <1>2 DEF TypeOK
<1>4. /\ \A q \in Reqs : reqs'[q] # None <=> reqs[q] # None
      /\ \A q \in Reqs : reqs[q] # None =>
           /\ reqs'[q].op = reqs[q].op /\ reqs'[q].status = reqs[q].status
           /\ reqs'[q].sure = reqs[q].sure /\ reqs'[q].found = reqs[q].found
           /\ reqs'[q].marked = reqs[q].marked
           /\ ~reqs'[q].failed => ~reqs[q].failed
  BY <1>1, ErrorMarks
<1>5. TypeOK' /\ MapOK' /\ PathsOK' /\ OwnersOK' /\ DeletesOK'
  BY <1>1, <1>3, CallEnds
<1>6. settled' = settled /\ running' = running
  BY <1>1 DEF view
<1>7. /\ t.ids \cap live = {}
      /\ \A r \in Reqs : reqs[r] # None /\ reqs[r].status = "busy" => t.ids \cap reqs[r].sure = {}
  BY <1>1 DEF DeletesOK
<1>8. StoredAtOwner'
  <2>1. \A m, i : Owner(m, i)' = Owner(m, i)
    BY <1>1, ViewStays
  <2> QED
    BY <1>3, <1>6, <2>1 DEF StoredAtOwner
<1>9. InsertsOK'
  <2> SUFFICES ASSUME NEW r \in Reqs, reqs'[r] # None, reqs'[r].op = "insert",
                      reqs'[r].status = "busy", ~reqs'[r].failed, NEW i \in reqs'[r].sure
               PROVE  \/ Somewhere(i)'
                      \/ \E u \in tasks' : u.req = r /\ u.op \in {"insert", "store"} /\ i \in u.ids
    BY DEF InsertsOK
  <2>1. /\ reqs[r] # None /\ reqs[r].op = "insert" /\ reqs[r].status = "busy"
        /\ ~reqs[r].failed /\ i \in reqs[r].sure /\ i \notin t.ids
    BY <1>4, <1>7
  <2>2. CASE Somewhere(i)
    BY <1>3, <2>1, <2>2 DEF Somewhere
  <2>3. CASE ~Somewhere(i)
    <3>1. PICK v \in tasks : v.req = r /\ v.op \in {"insert", "store"} /\ i \in v.ids
      BY <2>1, <2>3 DEF InsertsOK
    <3> QED
      BY <1>1, <3>1
  <2> QED
    BY <2>2, <2>3
<1>10. AckedStored'
  BY <1>1, <1>3, <1>7 DEF AckedStored
<1>11. SearchesOK'
  <2> SUFFICES ASSUME settled', place.named = Nodes, NEW r \in Reqs, reqs'[r] # None,
                      reqs'[r].op = "search", ~reqs'[r].marked, ~reqs'[r].failed
               PROVE  /\ reqs'[r].status = "busy" => \A i \in reqs'[r].sure :
                          \/ i \in reqs'[r].found
                          \/ \E u \in tasks' : u.req = r /\ u.op = "query" /\ i \in stored'[u.node]
                      /\ reqs'[r].status = "ok" => reqs'[r].sure \subseteq reqs'[r].found
    BY <1>1 DEF SearchesOK
  <2>1. /\ settled /\ reqs[r] # None /\ reqs[r].op = "search" /\ ~reqs[r].failed
        /\ ~reqs[r].marked
    BY <1>4, <1>6
  <2>2. CASE reqs'[r].status = "ok"
    BY <1>4, <2>1, <2>2 DEF SearchesOK
  <2>3. ASSUME reqs'[r].status = "busy", NEW i \in reqs'[r].sure, i \notin reqs'[r].found
        PROVE  \E u \in tasks' : u.req = r /\ u.op = "query" /\ i \in stored'[u.node]
    <3>1. reqs[r].status = "busy" /\ i \in reqs[r].sure /\ i \notin reqs[r].found /\ i \notin t.ids
      BY <1>4, <1>7, <2>1, <2>3
    <3>2. PICK u \in tasks : u.req = r /\ u.op = "query" /\ i \in stored[u.node]
      BY <2>1, <3>1 DEF SearchesOK
    <3>3. u.node \in Nodes
      BY DEF TypeOK, Task
    <3>4. i \in stored'[u.node] /\ u \in tasks'
      BY <1>1, <1>3, <3>1, <3>2, <3>3
    <3> QED
      BY <3>2, <3>4
  <2> QED
    BY <2>2, <2>3
<1> QED
  BY <1>5, <1>8, <1>9, <1>10, <1>11

\* A refused call and a forward that times out fail the request.
LEMMA FailureKeeps ==
  ASSUME Inv, NEW t \in tasks, Refused(t) \/ TimeOut(t)
  PROVE  Inv'
<1> USE DEF Inv
<1>1. /\ tasks' = tasks \/ tasks' = tasks \ {t}
      /\ reqs' = Failed({t.req})
      /\ UNCHANGED <<view, place, has, stored, live>>
  BY DEF Refused, TimeOut
<1>2. /\ \A q \in Reqs : reqs'[q] # None <=> reqs[q] # None
      /\ \A q \in Reqs : reqs[q] # None =>
           /\ reqs'[q].op = reqs[q].op /\ reqs'[q].status = reqs[q].status
           /\ reqs'[q].sure = reqs[q].sure /\ reqs'[q].found = reqs[q].found
           /\ reqs'[q].marked = reqs[q].marked
           /\ ~reqs'[q].failed => ~reqs[q].failed
      /\ reqs'[t.req].failed
  BY <1>1, ErrorMarks
<1>3. stored' \in [Nodes -> SUBSET Ids] /\ stored' = stored /\ live' = live
  BY <1>1 DEF TypeOK
<1>4. TypeOK' /\ MapOK' /\ PathsOK' /\ OwnersOK' /\ DeletesOK'
  BY <1>1, <1>3, CallEnds
<1>5. settled' = settled /\ running' = running
  BY <1>1 DEF view
<1>6. StoredAtOwner'
  <2>1. \A m, i : Owner(m, i)' = Owner(m, i)
    BY <1>1, ViewStays
  <2> QED
    BY <1>3, <1>5, <2>1 DEF StoredAtOwner
<1>7. \A u \in tasks : ~reqs'[u.req].failed => u \in tasks'
  BY <1>1, <1>2
<1>8. InsertsOK'
  BY <1>2, <1>3, <1>7 DEF InsertsOK, Somewhere
<1>9. AckedStored'
  BY <1>3 DEF AckedStored
<1>10. SearchesOK'
  <2>1. \A r \in Reqs : reqs'[r] # None /\ ~reqs'[r].failed =>
          /\ reqs[r] # None /\ ~reqs[r].failed /\ reqs[r].op = reqs'[r].op
          /\ reqs[r].status = reqs'[r].status /\ reqs[r].marked = reqs'[r].marked
          /\ reqs[r].sure = reqs'[r].sure /\ reqs[r].found = reqs'[r].found
    BY <1>2
  <2>2. place' = place /\ settled' = settled
    BY <1>1, <1>5
  <2> QED
    BY <1>3, <1>7, <2>1, <2>2 DEF SearchesOK
<1> QED
  BY <1>4, <1>6, <1>8, <1>9, <1>10

LEMMA QueryKeeps ==
  ASSUME Inv, NEW t \in tasks, Query(t)
  PROVE  Inv'
<1> USE DEF Inv
<1>1. /\ t.op = "query" /\ tasks' = tasks \ {t}
      /\ reqs' = [reqs EXCEPT ![t.req].found = reqs[t.req].found \cup stored[t.node]]
      /\ UNCHANGED <<view, place, has, stored, live>>
  BY DEF Query
<1>2. t.node \in Nodes /\ t.req \in Reqs /\ reqs[t.req] # None /\ reqs[t.req] \in Request
  BY DEF TypeOK, Task, PathsOK
<1>3. PICK f : f = [reqs[t.req] EXCEPT !.found = reqs[t.req].found \cup stored[t.node]]
  OBVIOUS
<1>4. /\ f \in Request /\ f.op = reqs[t.req].op /\ f.status = reqs[t.req].status
      /\ f.failed = reqs[t.req].failed /\ f.sure = reqs[t.req].sure /\ f.marked = reqs[t.req].marked
      /\ f.found = reqs[t.req].found \cup stored[t.node]
  <2>1. reqs[t.req].found \cup stored[t.node] \in SUBSET Ids
    BY <1>2 DEF TypeOK, Request
  <2> QED
    BY <1>2, <1>3, <2>1 DEF Request
<1>5. f # None
  BY <1>4, RoutingAssumption
<1>6. reqs' = [reqs EXCEPT ![t.req] = f]
  BY <1>1, <1>3
<1>7. /\ reqs' \in [Reqs -> Request \cup {None}] /\ reqs'[t.req] = f
      /\ \A q \in Reqs : q # t.req => reqs'[q] = reqs[q]
  BY <1>2, <1>4, <1>6 DEF TypeOK
<1>8. MapOK' /\ \A m, i : Owner(m, i)' = Owner(m, i)
  BY <1>1, ViewStays
<1>9. running' = running /\ ring' = ring /\ map' = map /\ settled' = settled /\ changes' = changes
  BY <1>1 DEF view
<1>10. TypeOK'
  BY <1>1, <1>7, <1>9 DEF TypeOK
<1>11. PathsOK'
  <2>1. \A x, y, i : Closer(x, y, i)' = Closer(x, y, i)
    BY <1>1 DEF Closer
  <2>2. \A u \in tasks' : u \in tasks /\ reqs'[u.req] # None
    BY <1>1, <1>5, <1>7 DEF PathsOK, TypeOK, Task
  <2> QED
    BY <1>1, <2>1, <2>2 DEF PathsOK
<1>12. OwnersOK' /\ StoredAtOwner' /\ AckedStored'
  BY <1>1, <1>8, <1>9 DEF OwnersOK, StoredAtOwner, AckedStored
<1>13. DeletesOK'
  BY <1>1, <1>2, <1>4, <1>7 DEF DeletesOK
<1>14. InsertsOK'
  <2>1. \A u \in tasks : u.op \in {"insert", "store"} => u \in tasks'
    BY <1>1
  <2> QED
    BY <1>1, <1>2, <1>4, <1>7, <2>1 DEF InsertsOK, Somewhere
<1>15. SearchesOK'
  <2>1. \A u \in tasks : u \in tasks' \/ stored[u.node] \subseteq reqs'[u.req].found
    BY <1>1, <1>4, <1>7
  <2>2. \A r \in Reqs : reqs'[r] # None =>
          /\ reqs[r] # None /\ reqs'[r].op = reqs[r].op /\ reqs'[r].status = reqs[r].status
          /\ reqs'[r].sure = reqs[r].sure /\ reqs[r].found \subseteq reqs'[r].found
          /\ reqs'[r].failed = reqs[r].failed /\ reqs'[r].marked = reqs[r].marked
    BY <1>2, <1>4, <1>7
  <2> QED
    BY <1>1, <1>9, <2>1, <2>2 DEF SearchesOK
<1> QED
  BY <1>8, <1>10, <1>11, <1>12, <1>13, <1>14, <1>15

\* An insert is acknowledged when none of its calls is left or has failed.
LEMMA ReplyKeeps ==
  ASSUME Inv, NEW r \in Reqs, Reply(r)
  PROVE  Inv'
<1> USE DEF Inv
<1> DEFINE ok == ~reqs[r].failed \/ (reqs[r].op = "search" /\ reqs[r].found # {})
<1>1. /\ reqs[r] # None /\ reqs[r].status = "busy"
      /\ \A t \in tasks : t.req = r => reqs[r].failed
      /\ reqs' = [reqs EXCEPT ![r].status = IF ok THEN "ok" ELSE "error"]
      /\ live' = IF reqs[r].op = "insert" /\ ok THEN live \cup reqs[r].sure ELSE live
      /\ UNCHANGED <<view, place, has, stored, tasks>>
  BY DEF Reply
<1>2. reqs[r] \in Request
  BY <1>1 DEF TypeOK
<1>3. PICK f : f = [reqs[r] EXCEPT !.status = IF ok THEN "ok" ELSE "error"]
  OBVIOUS
<1>4. /\ f \in Request /\ f.op = reqs[r].op /\ f.status # "busy"
      /\ f.failed = reqs[r].failed /\ f.sure = reqs[r].sure /\ f.found = reqs[r].found
      /\ f.marked = reqs[r].marked
  BY <1>2, <1>3 DEF Request
<1>5. f # None
  BY <1>4, RoutingAssumption
<1>6. /\ reqs' \in [Reqs -> Request \cup {None}] /\ reqs'[r] = f
      /\ \A q \in Reqs : q # r => reqs'[q] = reqs[q]
  BY <1>1, <1>3, <1>4 DEF TypeOK
<1>7. MapOK' /\ \A m, i : Owner(m, i)' = Owner(m, i)
  BY <1>1, ViewStays
<1>8. running' = running /\ ring' = ring /\ map' = map /\ settled' = settled /\ changes' = changes
  BY <1>1 DEF view
<1>9. TypeOK'
  <2>1. live' \in SUBSET Ids
    BY <1>1, <1>2 DEF TypeOK, Request
  <2> QED
    BY <1>1, <1>6, <1>8, <2>1 DEF TypeOK
<1>10. PathsOK'
  <2>1. \A x, y, i : Closer(x, y, i)' = Closer(x, y, i)
    BY <1>1 DEF Closer
  <2>2. \A u \in tasks' : u \in tasks /\ reqs'[u.req] # None
    BY <1>1, <1>5, <1>6 DEF PathsOK, TypeOK, Task
  <2> QED
    BY <1>1, <2>1, <2>2 DEF PathsOK
<1>11. OwnersOK' /\ StoredAtOwner'
  BY <1>1, <1>7, <1>8 DEF OwnersOK, StoredAtOwner
<1>12. DeletesOK'
  BY <1>1, <1>4, <1>6 DEF DeletesOK
<1>13. InsertsOK'
  BY <1>1, <1>4, <1>6 DEF InsertsOK, Somewhere
<1>14. AckedStored'
  <2>1. ASSUME reqs[r].op = "insert", ok, NEW i \in reqs[r].sure PROVE Somewhere(i)
    <3>1. ~reqs[r].failed
      BY <2>1
    <3> QED
      BY <1>1, <2>1, <3>1 DEF InsertsOK
  <2> QED
    BY <1>1, <2>1 DEF AckedStored, Somewhere
<1>15. SearchesOK'
  <2>1. settled /\ place.named = Nodes /\ reqs[r].op = "search" /\ ~reqs[r].marked /\ ~reqs[r].failed
          => reqs[r].sure \subseteq reqs[r].found
    BY <1>1 DEF SearchesOK
  <2> QED
    BY <1>1, <1>4, <1>6, <1>8, <2>1 DEF SearchesOK
<1> QED
  BY <1>7, <1>9, <1>10, <1>11, <1>12, <1>13, <1>14, <1>15

-----------------------------------------------------------------------------

LEMMA InvInit == Init => Inv
<1> SUFFICES ASSUME Init PROVE Inv
  OBVIOUS
<1>1. place \in Placements /\ running = Nodes /\ ring = [n \in Nodes |-> Nodes]
  BY DEF Init, ViewInit
<1>2. ASSUME NEW n \in Nodes
      PROVE  /\ map[n] \in Rings /\ \A p \in DOMAIN map[n] : p \in place.slots[map[n][p]]
             /\ \A p \in place.slots[n] : p \in DOMAIN map[n] /\ map[n][p] = n
  <2>1. PICK o \in Orders : o[1] = n /\ map[n] = Built(o)
    BY DEF Init
  <2> QED
    BY <1>1, <2>1, BuiltOK
<1>3. map \in [Nodes -> Rings]
  <2>1. map \in [Nodes -> {Built(o) : o \in Orders}]
    BY DEF Init
  <2> QED
    BY <1>2, <2>1
<1>4. MapOK
  BY <1>1, <1>2, <1>3 DEF MapOK
<1>5. TypeOK
  <2>1. \A n \in Nodes : DOMAIN map[n] \subseteq Positions /\ \A p \in DOMAIN map[n] : map[n][p] \in ring[n]
    <3> SUFFICES ASSUME NEW n \in Nodes
                 PROVE  DOMAIN map[n] \subseteq Positions /\ \A p \in DOMAIN map[n] : map[n][p] \in ring[n]
      OBVIOUS
    <3>1. map[n] \in Rings
      BY <1>3
    <3>2. PICK P \in SUBSET Positions : map[n] \in [P -> Nodes]
      BY <3>1 DEF Rings
    <3> QED
      BY <1>1, <3>2
  <2>2. has \in SUBSET Nodes /\ changes \in 0..MaxChanges
    BY RoutingAssumption DEF Init
  <2> QED
    BY <1>1, <2>1, <2>2 DEF Init, TypeOK
<1> QED
  BY <1>1, <1>4, <1>5, RoutingAssumption
     DEF Init, Inv, PathsOK, OwnersOK, StoredAtOwner, DeletesOK, InsertsOK, AckedStored, SearchesOK

LEMMA InvInductive == Inv /\ [Next]_vars => Inv'
<1> SUFFICES ASSUME Inv, [Next]_vars PROVE Inv'
  OBVIOUS
<1>1. CASE UNCHANGED vars
  <2>1. UNCHANGED <<place, has, stored, tasks, reqs, live>> /\ UNCHANGED view
    BY <1>1 DEF vars
  <2>2. MapOK' /\ \A n, i : Owner(n, i)' = Owner(n, i)
    BY <2>1, ViewStays DEF Inv
  <2>3. TypeOK'
    BY <2>1 DEF Inv, TypeOK, view
  <2>4. PathsOK'
    <3>1. \A x, m, i : Closer(x, m, i)' <=> Closer(x, m, i)
      BY <2>1 DEF Closer
    <3> QED
      BY <2>1, <3>1 DEF Inv, PathsOK
  <2>5. OwnersOK' /\ StoredAtOwner'
    BY <2>1, <2>2 DEF Inv, OwnersOK, StoredAtOwner, view
  <2>6. DeletesOK' /\ InsertsOK' /\ AckedStored' /\ SearchesOK'
    BY <2>1 DEF Inv, DeletesOK, InsertsOK, AckedStored, SearchesOK, Somewhere, view
  <2> QED
    BY <2>2, <2>3, <2>4, <2>5, <2>6 DEF Inv
<1>2. CASE Next
  <2>1. CASE \E n \in Nodes : \/ Down(n) \/ Up(n) \/ \E x \in Nodes : Joined(n, x) \/ Gone(n, x)
    BY <2>1, DownKeeps, UpKeeps, JoinedKeeps, GoneKeeps
  <2>2. CASE \E r \in Reqs, n \in Nodes : \/ \E B \in Batches : Insert(r, n, B)
                                          \/ \E marked \in BOOLEAN :
                                               \/ \E i \in Ids : Delete(r, n, marked, i)
                                               \/ Search(r, n, marked)
    BY <2>2, InsertKeeps, DeleteKeeps, SearchKeeps
  <2>3. CASE \E t \in tasks : \/ Split(t) \/ Store(t) \/ Remove(t) \/ Query(t)
                              \/ Refused(t) \/ TimeOut(t)
    BY <2>3, SplitKeeps, StoreKeeps, RemoveKeeps, QueryKeeps, FailureKeeps
  <2>4. CASE \E r \in Reqs : Reply(r)
    BY <2>4, ReplyKeeps
  <2> QED
    BY <1>2, <2>1, <2>2, <2>3, <2>4 DEF Next
<1> QED
  BY <1>1, <1>2

LEMMA InvAlways == Spec => []Inv
BY InvInit, InvInductive, PTL DEF Spec

\* Rings, tasks and requests keep their shape: in particular every virtual node
\* on a ring belongs to a member of it (HashRing.AddNode, RemoveNode).
THEOREM TypeCorrect == Spec => []TypeOK
<1>1. Inv => TypeOK
  BY DEF Inv
<1> QED
  BY <1>1, InvAlways, PTL

\* When every gossiped address names its host, an insert that every node splits
\* again by its own ring never comes back to a node that has handled it, however
\* the rings differ and change meanwhile (InsertVectorsScoped, BucketVectors).
THEOREM ForwardsNeverLoop == Spec => []NoForwardLoop
<1>1. Inv => NoForwardLoop
  <2> SUFFICES ASSUME Inv, place.named = Nodes, NEW t \in tasks, t.op \in {"insert", "store"},
                      NEW j \in 1..Len(t.path), NEW k \in 1..Len(t.path),
                      t.path[j] = t.path[k], j # k
               PROVE  FALSE
    BY DEF NoForwardLoop, NeverBack
  <2> USE DEF Inv
  <2>1. t \in Task /\ t.path \in Seq(Nodes) /\ t.ids \subseteq Ids /\ place \in Placements
    BY DEF TypeOK, Task
  <2>2. t.path # <<>> /\ j \in Nat /\ k \in Nat /\ t.path[j] \in Nodes
    BY <2>1
  <2>3. PICK i \in t.ids : TRUE
    BY DEF PathsOK
  <2>4. ~Closer(t.path[j], t.path[j], i)
    BY <2>1, <2>2, CloserOrder
  <2>5. CASE j < k
    BY <2>4, <2>5 DEF PathsOK
  <2>6. CASE k < j
    BY <2>4, <2>6 DEF PathsOK
  <2> QED
    BY <2>2, <2>5, <2>6
<1> QED
  BY <1>1, InvAlways, PTL

\* While every id has one owner on all running nodes, an id is stored on its
\* owner only, with forwards that are refused or time out and inserts that fail
\* half way (InsertVectorsScoped, DeleteVectorScoped).
THEOREM OnlyOwnersStore == Spec => []StoredAtOwner
<1>1. Inv => StoredAtOwner
  BY DEF Inv
<1> QED
  BY <1>1, InvAlways, PTL

\* An acknowledged insert is stored on some node until a delete of it is
\* requested, over every ring change, partial failure and timeout
\* (InsertVectorsScoped).
THEOREM AcknowledgedStored == Spec => []AckedStored
<1>1. Inv => AckedStored
  BY DEF Inv
<1> QED
  BY <1>1, InvAlways, PTL

\* While every id has one owner on all running nodes, and every gossiped address
\* names its host, a search without an error and without an X-Forwarded-For
\* header has every id that was acknowledged before it began and not deleted
\* since (SearchVectorsScoped).
THEOREM SearchesFindAcknowledged == Spec => []SearchFindsAcked
<1>1. Inv => SearchFindsAcked
  BY DEF Inv, SearchesOK, SearchFindsAcked
<1> QED
  BY <1>1, InvAlways, PTL
=============================================================================
