------------------------ MODULE FlatCollectionProofs ------------------------
(***************************************************************************)
(* Proofs about FlatCollection for every choice of ids, vectors and        *)
(* bounds.                                                                 *)
(***************************************************************************)
EXTENDS FlatCollection, SequenceTheorems, WellFoundedInduction, TLAPS

\* The shape of the request in progress at each point of the handlers.
ReqShape ==
  /\ pc \in {"logged", "insert"} => req \in Batches /\ nxt \in 1..Len(req)
  /\ pc \in {"delete", "tombstone"} => Len(req) = 1 /\ req[1] \in DeleteItem
  /\ pc = "finish" => req \in Batches \/ (Len(req) = 1 /\ req[1] \in DeleteItem)
  /\ phase # "up" => pc = "idle"
  /\ phase = "replay" => pos <= Len(wal)
  /\ phase = "down" => /\ rows = <<>> /\ docs = {} /\ pos = 0
                       /\ idToRow = [i \in Ids |-> 0]

\* No metadata is metadata.
LEMMA NoMetaType == NoMeta \in Metas
  BY DEF NoMeta, Metas

\* A request's items are a sequence of items with at least one element.
LEMMA BatchShape ==
  ASSUME NEW b \in Batches
  PROVE  /\ b \in Seq(Item)
         /\ Len(b) \in Nat \ {0}
         /\ b \in [1..Len(b) -> Item]
<1>1. PICK n \in 1..MaxBatch : b \in [1..n -> Item]
  BY DEF Batches
<1>2. n \in Nat \ {0}
  BY <1>1, ConstantsAssumption
<1>3. b \in Seq(Item) /\ Len(b) = n
  BY <1>1, <1>2
<1> QED
  BY <1>1, <1>2, <1>3

\* A function on an initial segment is a sequence of that length.
LEMMA FunIsSeq ==
  ASSUME NEW S, NEW n \in Nat, NEW f \in [1..n -> S]
  PROVE  f \in Seq(S) /\ Len(f) = n
  OBVIOUS

IndexTypeOK ==
  /\ rows \in Seq([id : Ids, vec : Vecs])
  /\ idToRow \in [Ids -> Nat]

\* FlatIndex.Insert adds its id and keeps every other one.
LEMMA IndexInsertLemma ==
  ASSUME IndexTypeOK, RowsMatchMap,
         NEW i \in Ids, NEW v \in Vecs, idToRow[i] = 0, IndexInsert(i, v)
  PROVE  /\ IndexTypeOK' /\ RowsMatchMap'
         /\ \A j \in Ids : Contents(j)' = IF j = i THEN v ELSE Contents(j)
<1> USE DEF IndexTypeOK, RowsMatchMap, IndexInsert, Contents
<1>1. IndexTypeOK' /\ Len(rows') = Len(rows) + 1 /\ rows'[Len(rows) + 1] = [id |-> i, vec |-> v]
  OBVIOUS
<1>2. \A r \in 1..Len(rows) : rows'[r] = rows[r]
  OBVIOUS
<1>3. RowsMatchMap'
  BY <1>1, <1>2
<1>4. ASSUME NEW j \in Ids
      PROVE  Contents(j)' = IF j = i THEN v ELSE Contents(j)
  BY <1>1, <1>2
<1> QED
  BY <1>1, <1>3, <1>4

\* FlatIndex.Delete removes its id and keeps every other one, whichever row
\* the last one is moved to.
LEMMA IndexDeleteLemma ==
  ASSUME IndexTypeOK, RowsMatchMap,
         NEW i \in Ids, idToRow[i] # 0, IndexDelete(i)
  PROVE  /\ IndexTypeOK' /\ RowsMatchMap'
         /\ \A j \in Ids : Contents(j)' = IF j = i THEN None ELSE Contents(j)
<1> DEFINE row == idToRow[i]
           last == Len(rows)
<1>0. \A r \in 1..last : /\ rows[r] \in [id : Ids, vec : Vecs]
                          /\ rows[r].id \in Ids /\ idToRow[rows[r].id] = r
  <2>1. ASSUME NEW r \in 1..Len(rows)
        PROVE  rows[r] \in [id : Ids, vec : Vecs]
    BY ElementOfSeq DEF IndexTypeOK
  <2> QED
    BY <2>1 DEF RowsMatchMap
<1>1. /\ last \in Nat /\ row \in 1..last /\ last \in 1..last /\ rows[row].id = i
      /\ idToRow[rows[last].id] = last /\ rows[last].id \in Ids
  <2>1. last \in Nat /\ row \in 1..last /\ rows[row].id = i
    BY DEF IndexTypeOK, RowsMatchMap
  <2>2. last \in 1..last
    BY <2>1
  <2> QED
    BY <2>1, <2>2, <1>0
<1>2. /\ rows' = [r \in 1..(last - 1) |-> IF r = row THEN rows[last] ELSE rows[r]]
      /\ idToRow' = [j \in Ids |-> IF j = i THEN 0
                                   ELSE IF j = rows[last].id THEN row ELSE idToRow[j]]
  BY DEF IndexDelete
<1>3. last - 1 \in Nat /\ rows' \in [1..(last - 1) -> [id : Ids, vec : Vecs]]
  <2>1. last - 1 \in Nat /\ \A r \in 1..(last - 1) : r \in 1..last
    BY <1>1
  <2> HIDE DEF row, last
  <2> QED
    BY <2>1, <1>0, <1>1, <1>2
<1>4. rows' \in Seq([id : Ids, vec : Vecs]) /\ Len(rows') = last - 1
  <2>1. PICK n, S : n = last - 1 /\ S = [id : Ids, vec : Vecs]
    OBVIOUS
  <2>2. n \in Nat /\ rows' \in [1..n -> S]
    BY <1>3, <2>1
  <2>3. rows' \in Seq(S) /\ Len(rows') = n
    BY <2>2, FunIsSeq
  <2> QED
    BY <2>1, <2>3
<1>5. IndexTypeOK'
  BY <1>1, <1>2, <1>4 DEF IndexTypeOK
<1>6. ASSUME NEW j \in Ids, idToRow'[j] # 0
      PROVE  /\ idToRow'[j] \in 1..(last - 1) /\ rows'[idToRow'[j]].id = j
             /\ rows'[idToRow'[j]].vec = rows[idToRow[j]].vec
             /\ j # i /\ idToRow[j] # 0
  <2>1. j # i
    BY <1>2, <1>6
  <2>2. CASE j = rows[last].id
    <3>1. row # last /\ idToRow'[j] = row
      BY <1>1, <1>2, <2>1, <2>2
    <3> QED
      BY <3>1, <1>1, <1>2, <2>1, <2>2
  <2>3. CASE j # rows[last].id
    <3>1. idToRow'[j] = idToRow[j] /\ idToRow[j] \in 1..last /\ rows[idToRow[j]].id = j
      BY <1>2, <1>6, <2>1, <2>3 DEF RowsMatchMap
    <3>2. idToRow[j] # row /\ idToRow[j] # last
      BY <1>1, <2>1, <2>3, <3>1
    <3> QED
      BY <3>1, <3>2, <1>1, <1>2, <2>1
  <2> QED
    BY <2>2, <2>3
<1>7. ASSUME NEW r \in 1..(last - 1)
      PROVE  idToRow'[rows'[r].id] = r
  <2>1. CASE r = row
    BY <2>1, <1>1, <1>2
  <2>2. CASE r # row
    <3>1. rows'[r] = rows[r] /\ idToRow[rows[r].id] = r /\ rows[r].id \in Ids
      BY <2>2, <1>0, <1>1, <1>2
    <3> QED
      BY <2>2, <3>1, <1>1, <1>2
  <2> QED
    BY <2>1, <2>2
<1>8. RowsMatchMap'
  BY <1>4, <1>6, <1>7 DEF RowsMatchMap
<1>9. ASSUME NEW j \in Ids
      PROVE  Contents(j)' = IF j = i THEN None ELSE Contents(j)
  <2>1. CASE idToRow'[j] # 0
    BY <2>1, <1>6 DEF Contents
  <2>2. CASE idToRow'[j] = 0
    BY <2>2, <1>1, <1>2 DEF Contents
  <2> QED
    BY <2>1, <2>2
<1> QED
  BY <1>5, <1>8, <1>9

-----------------------------------------------------------------------------
(* Type correctness.  Neither part is inductive alone: the index operations *)
(* keep their types only while rows and map agree.                         *)

TypeInv == TypeOK /\ ReqShape /\ RowsMatchMap

\* The initial states, an empty log and index, satisfy the type invariant.
LEMMA TypeInit == Init => TypeInv
<1> SUFFICES ASSUME Init PROVE TypeInv
  OBVIOUS
<1>1. Unknown \in [st : {"unknown", "deleted", "live"},
                   vec : Vectors \cup {None}, meta : Metas]
  BY NoMetaType DEF Unknown
<1>2. TypeOK
  BY <1>1, NoMetaType DEF Init, TypeOK
<1>3. ReqShape /\ RowsMatchMap
  BY DEF Init, ReqShape, RowsMatchMap
<1> QED
  BY <1>2, <1>3 DEF TypeInv

\* Every step of a request, a crash or a replay keeps types, the request's
\* shape and the row map.
LEMMA TypeStep == TypeInv /\ [Next]_vars => TypeInv'
<1> SUFFICES ASSUME TypeInv, [Next]_vars PROVE TypeInv'
  OBVIOUS
<1> USE DEF TypeInv, TypeOK, ReqShape, durable, memory, request
<1>0. /\ Unknown \in [st : {"unknown", "deleted", "live"},
                      vec : Vectors \cup {None}, meta : Metas]
      /\ Deleted \in [st : {"unknown", "deleted", "live"},
                      vec : Vectors \cup {None}, meta : Metas]
  BY NoMetaType DEF Unknown, Deleted
<1>a. IndexTypeOK /\ RowsMatchMap
  BY DEF IndexTypeOK
<1>b. CASE LogFails
  BY <1>b DEF LogFails, RowsMatchMap
<1>1. ASSUME NEW b \in Batches, InsertLog(b) PROVE TypeInv'
  <2>1. b \in Seq(Item) /\ Len(b) \in Nat \ {0} /\ b \in [1..Len(b) -> Item]
    BY BatchShape
  <2> DEFINE new == [n \in 1..Len(b) |-> LogEntry("insert", b[n])]
  <2>2. new \in [1..Len(b) -> Entry]
    BY <2>1 DEF LogEntry, Item, Entry
  <2>3. new \in Seq(Entry)
    <3> HIDE DEF new
    <3> QED BY <2>1, <2>2, FunIsSeq
  <2>4. wal' = wal \o new
    BY <1>1 DEF InsertLog, AppendBatch
  <2>5. wal' \in Seq(Entry)
    <3> HIDE DEF new
    <3> QED BY <2>3, <2>4
  <2>6. acked' \in [Ids -> [st : {"unknown", "deleted", "live"},
                        vec : Vectors \cup {None}, meta : Metas]]
    BY <1>0, <1>1 DEF InsertLog, AppendBatch
  <2>7. req' \in Seq(Item \cup DeleteItem) /\ nxt' \in 1..Len(req')
    BY <1>1, <2>1 DEF InsertLog, AppendBatch
  <2>8. TypeOK'
    BY <1>1, <2>5, <2>6, <2>7 DEF InsertLog, AppendBatch
  <2>9. ReqShape' /\ RowsMatchMap'
    BY <1>1, <2>1, <2>7 DEF InsertLog, AppendBatch, RowsMatchMap
  <2> QED
    BY <2>8, <2>9
<1>2. CASE InsertClearTombstones
  <2>0. {req[n].id : n \in 1..Len(req)} \subseteq Ids
    <3>1. \A n \in 1..Len(req) : req[n] \in Item \cup DeleteItem
      BY ElementOfSeq
    <3> QED
      BY <3>1 DEF Item, DeleteItem
  <2>a. tomb' \subseteq Ids /\ lost' \subseteq {"save", "clear", "delete"} \X Ids
    <3> DEFINE S == {req[n].id : n \in 1..Len(req)}
    <3>1. RemoveTombstonesBatch(S)
      BY <1>2 DEF InsertClearTombstones
    <3> HIDE DEF S
    <3>2. {"clear"} \X S \subseteq {"save", "clear", "delete"} \X Ids
      BY <2>0 DEF S
    <3> QED
      BY <3>1, <3>2 DEF RemoveTombstonesBatch
  <2>1. TypeOK' /\ ReqShape'
    BY <1>2, <2>a DEF InsertClearTombstones
  <2>2. RowsMatchMap'
    BY <1>2 DEF InsertClearTombstones, RemoveTombstonesBatch, RowsMatchMap
  <2> QED
    BY <2>1, <2>2
<1>3. CASE InsertApply
  <2> DEFINE it == req[nxt]
  <2>1. it \in Item /\ Len(req) \in Nat /\ nxt \in 1..Len(req)
    BY <1>3, BatchShape DEF InsertApply, SaveVectorMetadata
  <2>2. it.id \in Ids /\ it.vec \in Vecs /\ it.meta \in Metas
    BY <1>3, <2>1 DEF InsertApply, SaveVectorMetadata, CanInsert, Item
  <2>3. IndexTypeOK' /\ RowsMatchMap'
    BY <1>3, <1>a, <2>2, IndexInsertLemma DEF InsertApply, SaveVectorMetadata, CanInsert
  <2>4. meta' \in [Ids -> Metas] /\ docs' \in SUBSET Ids
    <3>1. [k \in MetaKeys |-> IF it.meta[k] = None THEN meta[it.id][k] ELSE it.meta[k]] \in Metas
      BY <2>2 DEF Metas
    <3> QED
      BY <1>3, <2>2, <3>1 DEF InsertApply, SaveVectorMetadata
  <2>a. lost' \subseteq {"save", "clear", "delete"} \X Ids
    BY <1>3, <2>2 DEF InsertApply, SaveVectorMetadata
  <2>5. TypeOK'
    BY <1>3, <2>3, <2>4, <2>a DEF InsertApply, IndexTypeOK
  <2>6. ReqShape'
    BY <1>3, <2>1 DEF InsertApply, SaveVectorMetadata
  <2> QED
    BY <2>3, <2>5, <2>6
<1>4. CASE InsertRefused
  BY <1>4 DEF InsertRefused, RowsMatchMap
<1>5. ASSUME NEW i \in Ids, DeleteLog(i) PROVE TypeInv'
  <2> DEFINE it == [id |-> i, vec |-> None, meta |-> NoMeta]
  <2>1. it \in DeleteItem /\ it \in [id : Ids, vec : {None}, meta : {NoMeta}]
    BY DEF DeleteItem
  <2>2. LogEntry("delete", it) \in Entry
    BY DEF LogEntry, Entry
  <2>3. wal' = Append(wal, LogEntry("delete", it)) /\ req' = <<it>> /\ nxt' = 1
    BY <1>5 DEF DeleteLog, AppendOp
  <2>4. wal' \in Seq(Entry) /\ req' \in Seq(Item \cup DeleteItem) /\ nxt' \in Nat
    <3> HIDE DEF it
    <3> QED BY <2>1, <2>2, <2>3
  <2>5. acked' \in [Ids -> [st : {"unknown", "deleted", "live"},
                        vec : Vectors \cup {None}, meta : Metas]]
    BY <1>0, <1>5 DEF DeleteLog, AppendOp
  <2>6. TypeOK'
    BY <1>5, <2>4, <2>5 DEF DeleteLog, AppendOp
  <2>7. ReqShape' /\ RowsMatchMap'
    BY <1>5, <2>1, <2>3 DEF DeleteLog, AppendOp, RowsMatchMap
  <2> QED
    BY <2>6, <2>7
<1>6. CASE DeleteApply
  <2>1. req[1].id \in Ids
    BY <1>6 DEF DeleteApply, DeleteVectorMetadata, DeleteItem
  <2>2. IndexTypeOK' /\ RowsMatchMap'
    BY <1>6, <1>a, <2>1, IndexDeleteLemma DEF DeleteApply, DeleteVectorMetadata
  <2>3. meta' \in [Ids -> Metas] /\ docs' \in SUBSET Ids
    BY <1>6, <2>1, NoMetaType DEF DeleteApply, DeleteVectorMetadata
  <2>a. lost' \subseteq {"save", "clear", "delete"} \X Ids
    BY <1>6, <2>1 DEF DeleteApply, DeleteVectorMetadata
  <2>4. TypeOK'
    BY <1>6, <2>2, <2>3, <2>a DEF DeleteApply, IndexTypeOK
  <2>5. ReqShape'
    BY <1>6 DEF DeleteApply, DeleteVectorMetadata
  <2> QED
    BY <2>2, <2>4, <2>5
<1>7. CASE DeleteRefused
  BY <1>7 DEF DeleteRefused, RowsMatchMap
<1>8. CASE DeleteTombstone
  <2>1. req[1].id \in Ids
    BY <1>8 DEF DeleteTombstone, AddTombstone, DeleteItem
  <2>2. TypeOK' /\ ReqShape'
    BY <1>8, <2>1 DEF DeleteTombstone, AddTombstone
  <2>3. RowsMatchMap'
    BY <1>8 DEF DeleteTombstone, AddTombstone, RowsMatchMap
  <2> QED
    BY <2>2, <2>3
<1>c. CASE DeleteTombstoneFails
  BY <1>c DEF DeleteTombstoneFails, RowsMatchMap
<1>9. CASE Finish
  <2>1. \A n \in 1..Len(req) : req[n] \in Item \cup DeleteItem
    BY ElementOfSeq
  <2>2. ASSUME NEW i \in Ids, \E n \in 1..Len(req) : req[n].id = i, req[1].vec # None
        PROVE  AckedLive(req[CHOOSE n \in 1..Len(req) : req[n].id = i]) \in
                 [st : {"unknown", "deleted", "live"},
                  vec : Vectors \cup {None}, meta : Metas]
    <3> DEFINE k == CHOOSE n \in 1..Len(req) : req[n].id = i
    <3>1. k \in 1..Len(req)
      BY <2>2
    <3>2. req[k].vec \in Vectors \cup {None} /\ req[k].meta \in Metas
      <4> HIDE DEF k
      <4> QED BY <2>1, <3>1, NoMetaType DEF Item, DeleteItem
    <3> HIDE DEF k
    <3>3. AckedLive(req[k]) \in
                 [st : {"unknown", "deleted", "live"},
                  vec : Vectors \cup {None}, meta : Metas]
      BY <3>2 DEF AckedLive
    <3> QED
      BY <3>3 DEF k
  <2>3. acked' \in [Ids -> [st : {"unknown", "deleted", "live"},
                        vec : Vectors \cup {None}, meta : Metas]]
    BY <1>9, <1>0, <2>2 DEF Finish
  <2>4. TypeOK' /\ ReqShape'
    BY <1>9, <2>3 DEF Finish
  <2>5. RowsMatchMap'
    BY <1>9 DEF Finish, RowsMatchMap
  <2> QED
    BY <2>4, <2>5
<1>10. CASE Search
  <2>1. \A r \in 1..Len(rows) : rows[r] \in [id : Ids, vec : Vecs]
    BY ElementOfSeq
  <2>2. \A r \in 1..Len(rows) : <<rows[r].id, rows[r].vec>> \in Ids \X Vecs
    BY <2>1
  <2>3. seen' \in SUBSET (Ids \X Vecs)
    BY <1>10, <2>2 DEF Search
  <2>4. TypeOK' /\ ReqShape'
    BY <1>10, <2>3 DEF Search
  <2>5. RowsMatchMap'
    BY <1>10 DEF Search, RowsMatchMap
  <2> QED
    BY <2>4, <2>5
<1>11. CASE Crash
  <2>1. pc = "delete" => req[1].id \in Ids
    BY DEF DeleteItem
  <2>2. lost' \subseteq {"save", "clear", "delete"} \X Ids
    BY <1>11, <2>1 DEF Crash
  <2> QED
    BY <1>11, <2>2 DEF Crash, RowsMatchMap
<1>12. CASE Restart
  BY <1>12 DEF Restart, RowsMatchMap
<1>13. CASE ReplayEntry
  <2> DEFINE e == wal[pos + 1]
  <2>1. e \in Entry
    <3>1. pos + 1 \in 1..Len(wal)
      BY <1>13 DEF ReplayEntry
    <3> QED
      BY <3>1, ElementOfSeq
  <2>2. e.id \in Ids
    BY <2>1 DEF Entry
  <2>3. /\ phase = "replay" /\ pos < Len(wal) /\ pos' = pos + 1
        /\ UNCHANGED <<durable, phase, request, answer, seen, acked, lost>>
    BY <1>13 DEF ReplayEntry
  <2>4. IndexTypeOK' /\ RowsMatchMap' /\ docs' \in SUBSET Ids
    <3>1. CASE e.type = "insert" /\ CanInsert(e.id, e.vec)
      <4>1. IndexInsert(e.id, e.vec) /\ docs' \in SUBSET Ids
        BY <1>13, <2>2, <3>1 DEF ReplayEntry
      <4> QED
        BY <1>a, <2>2, <3>1, <4>1, IndexInsertLemma DEF CanInsert
    <3>2. CASE e.type = "delete" /\ idToRow[e.id] # 0
      <4>1. IndexDelete(e.id) /\ docs' \in SUBSET Ids
        BY <1>13, <2>2, <3>2 DEF ReplayEntry
      <4> QED
        BY <1>a, <2>2, <3>2, <4>1, IndexDeleteLemma
    <3>3. CASE UNCHANGED memory
      BY <1>a, <3>3 DEF IndexTypeOK, RowsMatchMap
    <3> QED
      BY <1>13, <3>1, <3>2, <3>3 DEF ReplayEntry
  <2>5. TypeOK' /\ ReqShape'
    BY <2>3, <2>4 DEF IndexTypeOK
  <2> QED
    BY <2>4, <2>5
<1>14. CASE ReplayDone
  BY <1>14 DEF ReplayDone, RowsMatchMap
<1>15. CASE UNCHANGED vars
  BY <1>15 DEF vars, RowsMatchMap
<1> QED
  BY <1>1, <1>2, <1>3, <1>4, <1>5, <1>6, <1>7, <1>8, <1>9, <1>10, <1>11,
     <1>12, <1>13, <1>14, <1>15, <1>b, <1>c DEF Next

\* TypeOK holds in every reachable state, for batches of any size.
THEOREM TypeCorrect == Spec => []TypeOK
<1>1. TypeInv => TypeOK
  BY DEF TypeInv
<1> QED
  BY <1>1, TypeInit, TypeStep, PTL DEF Spec

\* FlatIndex's row map and rows stay inverse to each other through every
\* insert, swap-with-last delete, crash and replay, for batches of any size.
THEOREM RowsAlwaysMatchMap == Spec => []RowsMatchMap
<1>1. TypeInv => RowsMatchMap
  BY DEF TypeInv
<1> QED
  BY <1>1, TypeInit, TypeStep, PTL DEF Spec

-----------------------------------------------------------------------------
(* What the log says, and how one more entry changes it.                   *)

\* A nonempty set of naturals has a least element.
LEMMA NatMin ==
  ASSUME NEW T, T \subseteq Nat, T # {}
  PROVE  \E x \in T : \A y \in T : x <= y
<1>1. \E R : IsWellFoundedOn(R, Nat) /\ \A x, y \in Nat : y < x => <<y, x>> \in R
  <2>1. \A x, y \in Nat : y < x => <<y, x>> \in OpToRel(<, Nat)
    BY Zenon DEF OpToRel
  <2> QED
    BY <2>1, NatLessThanWellFounded, Zenon
<1>2. PICK R : IsWellFoundedOn(R, Nat) /\ \A x, y \in Nat : y < x => <<y, x>> \in R
  BY <1>1
<1>3. PICK x \in T : \A y \in T : ~ (<<y, x>> \in R)
  BY <1>2, WFMin
<1>4. ASSUME NEW y \in T PROVE x <= y
  <2>1. ~(y < x) /\ x \in Nat /\ y \in Nat
    BY <1>2, <1>3, Zenon
  <2> QED
    BY <2>1
<1> QED
  BY <1>4

\* The value of an id in terms of any least live insert.
LEMMA LogValueIs ==
  ASSUME NEW log, NEW p \in Nat, NEW i,
         NEW n \in LiveInserts(log, p, i), \A m \in LiveInserts(log, p, i) : n <= m
  PROVE  LogValue(log, p, i) = log[n].vec
<1> DEFINE s == LiveInserts(log, p, i)
           c == CHOOSE k \in s : \A m \in s : k <= m
<1>1. s \subseteq Nat
  BY DEF LiveInserts
<1> HIDE DEF s
<1>2. c \in s /\ \A m \in s : c <= m
  BY DEF s
<1> HIDE DEF c
<1>3. c \in Nat /\ n \in Nat /\ c <= n /\ n <= c
  BY <1>1, <1>2 DEF s
<1>4. c = n
  BY <1>3
<1>5. s # {} /\ LogValue(log, p, i) = IF s = {} THEN None ELSE log[c].vec
  BY DEF LogValue, s, c
<1> QED
  BY <1>4, <1>5

\* An id has no value in the log exactly when no live insert of it is left.
LEMMA LogValueNone ==
  ASSUME NEW log, NEW p \in Nat, NEW i
  PROVE  LogValue(log, p, i) = None <=> LiveInserts(log, p, i) = {}
<1>1. CASE LiveInserts(log, p, i) = {}
  BY <1>1 DEF LogValue
<1>2. CASE LiveInserts(log, p, i) # {}
  <2>1. LiveInserts(log, p, i) \subseteq Nat
    BY DEF LiveInserts
  <2>2. PICK n \in LiveInserts(log, p, i) : \A m \in LiveInserts(log, p, i) : n <= m
    BY <1>2, <2>1, NatMin
  <2>3. LogValue(log, p, i) = log[n].vec
    BY <2>2, LogValueIs
  <2>4. log[n].vec \in Vecs
    BY <2>2 DEF LiveInserts
  <2> QED
    BY <1>2, <2>3, <2>4, ConstantsAssumption DEF Vectors
<1> QED
  BY <1>1, <1>2

\* Only the first p entries matter.
LEMMA LogPrefix ==
  ASSUME NEW log, NEW log2, NEW p \in Nat, NEW i,
         \A n \in 1..p : log[n] = log2[n]
  PROVE  LogValue(log, p, i) = LogValue(log2, p, i)
<1>1. LiveInserts(log, p, i) = LiveInserts(log2, p, i)
  BY DEF LiveInserts
<1>2. CASE LiveInserts(log, p, i) = {}
  BY <1>1, <1>2, LogValueNone
<1>3. CASE LiveInserts(log, p, i) # {}
  <2>1. LiveInserts(log, p, i) \subseteq 1..p
    BY DEF LiveInserts
  <2>2. PICK n \in LiveInserts(log, p, i) : \A m \in LiveInserts(log, p, i) : n <= m
    BY <1>3, <2>1, NatMin
  <2>3. LogValue(log, p, i) = log[n].vec /\ LogValue(log2, p, i) = log2[n].vec
    BY <1>1, <2>2, LogValueIs
  <2> QED
    BY <2>1, <2>2, <2>3
<1> QED
  BY <1>2, <1>3

\* What one log entry does to the value of an id.
After(e, i, v) ==
  IF e.type = "delete" /\ e.id = i THEN None
  ELSE IF e.type = "insert" /\ e.id = i /\ e.vec \in Vecs /\ v = None THEN e.vec
  ELSE v

\* What one more log entry does to the value of an id: the meaning of replay.
LEMMA LogStep ==
  ASSUME NEW log, NEW p \in Nat, NEW i
  PROVE  LogValue(log, p + 1, i) = After(log[p + 1], i, LogValue(log, p, i))
<1> DEFINE e == log[p + 1]
           s == LiveInserts(log, p, i)
           t == LiveInserts(log, p + 1, i)
<1>1. CASE e.type = "delete" /\ e.id = i
  <2>1. t = {}
    <3>1. ASSUME NEW n \in t PROVE FALSE
      <4>1. n \in 1..(p + 1) /\ log[n].type = "insert"
        BY DEF LiveInserts
      <4>2. n # p + 1
        BY <4>1, <1>1
      <4>3. p + 1 \in (n + 1)..(p + 1)
        BY <4>1, <4>2
      <4> QED
        BY <4>3, <1>1 DEF LiveInserts
    <3> QED
      BY <3>1
  <2> QED
    BY <1>1, <2>1, LogValueNone DEF After
<1>2. CASE ~(e.type = "delete" /\ e.id = i)
  <2> DEFINE new == e.type = "insert" /\ e.id = i /\ e.vec \in Vecs
  <2>1. t = IF new THEN s \cup {p + 1} ELSE s
    <3>1. ASSUME NEW n \in 1..p PROVE n \in t <=> n \in s
      BY <1>2 DEF LiveInserts
    <3>2. p + 1 \in t <=> new
      BY DEF LiveInserts
    <3>3. s \subseteq 1..p /\ t \subseteq 1..(p + 1)
      BY DEF LiveInserts
    <3>4. \A n : n \in 1..(p + 1) <=> n \in 1..p \/ n = p + 1
      OBVIOUS
    <3> HIDE DEF s, t, new
    <3>5. CASE new
      BY <3>1, <3>2, <3>3, <3>4, <3>5, Zenon
    <3>6. CASE ~new
      <4>1. \A n : n \in t <=> n \in s
        BY <3>1, <3>2, <3>3, <3>4, <3>6, Zenon
      <4>2. t = s
        BY <4>1, Zenon
      <4> QED
        BY <4>2, <3>6
    <3> QED
      BY <3>5, <3>6
  <2>2. CASE s = {} /\ ~new
    BY <1>2, <2>1, <2>2, LogValueNone DEF After
  <2>3. CASE s = {} /\ new
    <3>1. t = {p + 1}
      BY <2>1, <2>3
    <3>2. LogValue(log, p + 1, i) = e.vec
      BY <3>1, LogValueIs
    <3>3. LogValue(log, p, i) = None
      BY <2>3, LogValueNone
    <3> QED
      BY <1>2, <2>3, <3>2, <3>3 DEF After
  <2>4. CASE s # {}
    <3>1. s \subseteq 1..p
      BY DEF LiveInserts
    <3>2. PICK n \in s : \A m \in s : n <= m
      BY <2>4, <3>1, NatMin
    <3>3. n \in t /\ \A m \in t : n <= m
      <4> HIDE DEF s, t, new
      <4> QED
        BY <2>1, <3>1, <3>2
    <3>4. LogValue(log, p, i) = log[n].vec
      BY <3>2, LogValueIs
    <3>5. LogValue(log, p + 1, i) = log[n].vec
      BY <3>3, LogValueIs
    <3>6. LogValue(log, p, i) # None
      BY <2>4, LogValueNone
    <3> QED
      BY <1>2, <3>4, <3>5, <3>6 DEF After
  <2> QED
    BY <2>2, <2>3, <2>4
<1> QED
  BY <1>1, <1>2

-----------------------------------------------------------------------------
(* The index is the meaning of a prefix of the log.                        *)

\* An id without a row is an id without a vector.
LEMMA ContentsNone ==
  ASSUME TypeInv, NEW i \in Ids
  PROVE  Contents(i) = None <=> idToRow[i] = 0
<1>1. ASSUME idToRow[i] # 0 PROVE rows[idToRow[i]].vec \in Vecs
  <2>1. idToRow[i] \in 1..Len(rows) /\ rows \in Seq([id : Ids, vec : Vecs])
    BY <1>1 DEF TypeInv, TypeOK, RowsMatchMap
  <2>2. rows[idToRow[i]] \in [id : Ids, vec : Vecs]
    BY <2>1, ElementOfSeq
  <2> QED
    BY <2>2
<1> QED
  BY <1>1, ConstantsAssumption DEF Contents, Vectors

\* What InsertApply, DeleteApply, a replayed entry and a crash do to the
\* contents of the index.
LEMMA ApplyContents ==
  ASSUME TypeInv, InsertApply
  PROVE  /\ req[nxt] \in Item /\ req[nxt].vec \in Vecs /\ Contents(req[nxt].id) = None
         /\ \A j \in Ids : Contents(j)' = IF j = req[nxt].id THEN req[nxt].vec ELSE Contents(j)
<1>1. req[nxt] \in Item
  BY BatchShape DEF InsertApply, SaveVectorMetadata, TypeInv, ReqShape
<1>2. req[nxt].id \in Ids /\ req[nxt].vec \in Vecs /\ idToRow[req[nxt].id] = 0
  BY <1>1 DEF InsertApply, SaveVectorMetadata, CanInsert, Item
<1>3. IndexTypeOK /\ RowsMatchMap /\ IndexInsert(req[nxt].id, req[nxt].vec)
  BY DEF TypeInv, TypeOK, IndexTypeOK, InsertApply, SaveVectorMetadata
<1> QED
  BY <1>1, <1>2, <1>3, IndexInsertLemma DEF Contents

\* Delete's swap with the last row removes one id and moves no other vector.
LEMMA DeleteContents ==
  ASSUME TypeInv, DeleteApply
  PROVE  /\ req[1] \in DeleteItem /\ Contents(req[1].id) # None
         /\ \A j \in Ids : Contents(j)' = IF j = req[1].id THEN None ELSE Contents(j)
<1>1. req[1] \in DeleteItem
  BY DEF DeleteApply, DeleteVectorMetadata, TypeInv, ReqShape
<1>2. req[1].id \in Ids /\ idToRow[req[1].id] # 0
  BY <1>1 DEF DeleteApply, DeleteVectorMetadata, DeleteItem
<1>3. IndexTypeOK /\ RowsMatchMap /\ IndexDelete(req[1].id)
  BY DEF TypeInv, TypeOK, IndexTypeOK, DeleteApply, DeleteVectorMetadata
<1> QED
  BY <1>1, <1>2, <1>3, IndexDeleteLemma, ContentsNone

\* replayWAL's treatment of an entry, refusals included, is After.
LEMMA ReplayContents ==
  ASSUME TypeInv, ReplayEntry
  PROVE  /\ wal[pos + 1] \in Entry
         /\ \A j \in Ids : Contents(j)' = After(wal[pos + 1], j, Contents(j))
<1> DEFINE e == wal[pos + 1]
<1>1. e \in Entry
  <2>1. pos + 1 \in 1..Len(wal) /\ wal \in Seq(Entry)
    BY DEF ReplayEntry, TypeInv, TypeOK
  <2> QED
    BY <2>1, ElementOfSeq
<1>2. e.id \in Ids /\ e.type \in {"insert", "delete"}
  BY <1>1 DEF Entry
<1>3. IndexTypeOK /\ RowsMatchMap
  BY DEF TypeInv, TypeOK, IndexTypeOK
<1>4. ASSUME NEW j \in Ids PROVE Contents(j)' = After(e, j, Contents(j))
  <2>1. CASE e.type = "insert" /\ CanInsert(e.id, e.vec)
    <3>1. IndexInsert(e.id, e.vec) /\ e.vec \in Vecs /\ idToRow[e.id] = 0
      BY <2>1 DEF ReplayEntry, CanInsert
    <3>2. Contents(j)' = IF j = e.id THEN e.vec ELSE Contents(j)
      BY <1>2, <1>3, <3>1, IndexInsertLemma
    <3> QED
      BY <1>2, <2>1, <3>1, <3>2, ContentsNone DEF After
  <2>2. CASE e.type = "insert" /\ ~CanInsert(e.id, e.vec)
    <3>1. Contents(j)' = Contents(j)
      BY <2>2 DEF ReplayEntry, memory, Contents
    <3> QED
      BY <1>2, <2>2, <3>1, ContentsNone DEF After, CanInsert
  <2>3. CASE e.type = "delete" /\ idToRow[e.id] # 0
    <3>1. IndexDelete(e.id)
      BY <2>3 DEF ReplayEntry
    <3>2. Contents(j)' = IF j = e.id THEN None ELSE Contents(j)
      BY <1>2, <1>3, <2>3, <3>1, IndexDeleteLemma
    <3> QED
      BY <2>3, <3>2 DEF After
  <2>4. CASE e.type = "delete" /\ idToRow[e.id] = 0
    <3>1. Contents(j)' = Contents(j)
      BY <2>4 DEF ReplayEntry, memory, Contents
    <3> QED
      BY <2>4, <3>1, ContentsNone DEF After
  <2> QED
    BY <1>2, <2>1, <2>2, <2>3, <2>4
<1> QED
  BY <1>1, <1>4

\* After a crash the index is empty.
LEMMA CrashContents ==
  ASSUME Crash PROVE \A j \in Ids : Contents(j)' = None
  BY DEF Crash, Contents

\* Every other step leaves the flat index and the inverted index alone.
QuietStep ==
  \/ LogFails
  \/ \E b \in Batches : InsertLog(b)
  \/ InsertClearTombstones
  \/ InsertRefused
  \/ \E i \in Ids : DeleteLog(i)
  \/ DeleteRefused
  \/ DeleteTombstone
  \/ DeleteTombstoneFails
  \/ Finish
  \/ Search
  \/ Restart
  \/ ReplayDone
  \/ UNCHANGED vars

\* Steps that leave the index alone leave its contents alone.
LEMMA QuietContents ==
  ASSUME QuietStep
  PROVE  docs' = docs /\ \A j \in Ids : Contents(j)' = Contents(j)
<1>1. UNCHANGED memory
  BY DEF QuietStep, InsertLog, AppendBatch, InsertClearTombstones, RemoveTombstonesBatch, InsertRefused, DeleteLog, AppendOp,
     DeleteRefused, DeleteTombstone, AddTombstone, LogFails, DeleteTombstoneFails, Finish, Search,
     Restart, ReplayDone, vars
<1> QED
  BY <1>1 DEF memory, Contents

\* Every step keeps the inverted index equal to the indexed documents.
LEMMA DocsStep ==
  ASSUME TypeInv, DocsFollowIndex, [Next]_vars
  PROVE  DocsFollowIndex'
<1>0. None \notin WithDoc /\ WithDoc \subseteq Vecs /\ docs \subseteq Ids
  BY ConstantsAssumption DEF Vectors, TypeInv, TypeOK
<1>1. CASE InsertApply
  <2>1. /\ req[nxt].id \in Ids /\ Contents(req[nxt].id) = None
        /\ \A j \in Ids : Contents(j)' = IF j = req[nxt].id THEN req[nxt].vec ELSE Contents(j)
    BY <1>1, ApplyContents DEF Item
  <2>2. docs' = IF req[nxt].vec \in WithDoc THEN docs \cup {req[nxt].id} ELSE docs
    BY <1>1 DEF InsertApply, SaveVectorMetadata
  <2>3. \A j \in Ids : j \in docs' <=> Contents(j)' \in WithDoc
    BY <1>0, <2>1, <2>2 DEF DocsFollowIndex
  <2>4. docs' \subseteq Ids
    BY <1>0, <2>1, <2>2
  <2> QED
    BY <2>3, <2>4 DEF DocsFollowIndex
<1>2. CASE DeleteApply
  <2>1. \A j \in Ids : Contents(j)' = IF j = req[1].id THEN None ELSE Contents(j)
    BY <1>2, DeleteContents
  <2>2. docs' = docs \ {req[1].id}
    BY <1>2 DEF DeleteApply, DeleteVectorMetadata
  <2> QED
    BY <1>0, <2>1, <2>2 DEF DocsFollowIndex
<1>3. CASE ReplayEntry
  <2> DEFINE e == wal[pos + 1]
  <2>1. e \in Entry /\ \A j \in Ids : Contents(j)' = After(e, j, Contents(j))
    BY <1>3, ReplayContents
  <2>2. e.id \in Ids /\ e.type \in {"insert", "delete"}
    BY <2>1 DEF Entry
  <2>3. idToRow[e.id] = 0 <=> Contents(e.id) = None
    BY <2>2, ContentsNone
  <2>4. \/ e.type = "insert" /\ CanInsert(e.id, e.vec)
           /\ docs' = IF e.vec \in WithDoc THEN docs \cup {e.id} ELSE docs
        \/ e.type = "insert" /\ ~CanInsert(e.id, e.vec) /\ docs' = docs
        \/ e.type = "delete" /\ docs' = docs \ {e.id}
        \/ e.type = "delete" /\ idToRow[e.id] = 0 /\ docs' = docs
    BY <1>3 DEF ReplayEntry, memory
  <2> HIDE DEF e
  <2>5. ASSUME NEW j \in Ids PROVE j \in docs' <=> Contents(j)' \in WithDoc
    <3>1. j \in docs <=> Contents(j) \in WithDoc
      BY DEF DocsFollowIndex
    <3> QED
      BY <1>0, <2>1, <2>2, <2>3, <2>4, <3>1 DEF After, CanInsert
  <2>6. docs' \subseteq Ids
    BY <1>0, <2>2, <2>4
  <2> QED
    BY <2>5, <2>6 DEF DocsFollowIndex
<1>4. CASE Crash
  <2>1. docs' = {} /\ \A j \in Ids : Contents(j)' = None
    BY <1>4, CrashContents DEF Crash
  <2> QED
    BY <1>0, <2>1 DEF DocsFollowIndex
<1>5. CASE QuietStep
  BY <1>5, QuietContents DEF DocsFollowIndex
<1> QED
  BY <1>1, <1>2, <1>3, <1>4, <1>5 DEF Next, QuietStep

\* The inverted index holds exactly the indexed vectors with a document after
\* every insert, delete, refusal, crash and replay, for batches of any size.
THEOREM DocsAlwaysFollowIndex == Spec => []DocsFollowIndex
<1>1. Init => DocsFollowIndex
  BY ConstantsAssumption DEF Init, DocsFollowIndex, Contents, Vectors
<1>2. (TypeInv /\ DocsFollowIndex) /\ [Next]_vars => (TypeInv /\ DocsFollowIndex)'
  BY TypeStep, DocsStep
<1> QED
  BY <1>1, <1>2, TypeInit, PTL DEF Spec

-----------------------------------------------------------------------------
(* One vector per request: the index is a prefix of the log.  The write in *)
(* progress is the last entry of the log.                                  *)

LastEntry ==
  /\ pc \in {"logged", "insert"} =>
       Len(wal) > 0 /\ wal[Len(wal)] = LogEntry("insert", req[1])
  /\ pc = "delete" => Len(wal) > 0 /\ wal[Len(wal)] = LogEntry("delete", req[1])

LogInv == TypeInv /\ LastEntry /\ IndexFollowsLog

\* With one-vector requests a batch is one item.
LEMMA OneItem ==
  ASSUME MaxBatch = 1, NEW b \in Batches
  PROVE  Len(b) = 1 /\ b[1] \in Item
<1>1. PICK n \in 1..MaxBatch : b \in [1..n -> Item]
  BY DEF Batches
<1> QED
  BY <1>1, BatchShape

\* Both ways of starting a write append one entry and move nothing else that
\* the log's meaning depends on.
LEMMA LogAppend ==
  ASSUME TypeInv, NEW e \in Entry, wal' = Append(wal, e)
  PROVE  /\ Len(wal') = Len(wal) + 1 /\ wal'[Len(wal')] = e
         /\ \A i \in Ids : LogValue(wal', Len(wal), i) = LogValue(wal, Len(wal), i)
         /\ \A i \in Ids : LogValue(wal', Len(wal'), i) = After(e, i, LogValue(wal, Len(wal), i))
<1>1. wal \in Seq(Entry) /\ Len(wal) \in Nat
  BY DEF TypeInv, TypeOK
<1>2. /\ Len(wal') = Len(wal) + 1 /\ wal'[Len(wal) + 1] = e
      /\ \A n \in 1..Len(wal) : wal'[n] = wal[n]
  BY <1>1, AppendProperties
<1>3. ASSUME NEW i \in Ids
      PROVE  LogValue(wal', Len(wal), i) = LogValue(wal, Len(wal), i)
  <2>1. \A n \in 1..Len(wal) : wal'[n] = wal[n]
    BY <1>2
  <2>2. Len(wal) \in Nat
    BY <1>1
  <2> QED
    BY <2>1, <2>2, LogPrefix, ZenonT(40)
<1>4. ASSUME NEW i \in Ids
      PROVE  LogValue(wal', Len(wal'), i) = After(e, i, LogValue(wal, Len(wal), i))
  <2>1. LogValue(wal', Len(wal) + 1, i) = After(wal'[Len(wal) + 1], i, LogValue(wal', Len(wal), i))
    BY <1>1, LogStep
  <2> QED
    BY <1>2, <1>3, <2>1
<1> QED
  BY <1>2, <1>3, <1>4

\* The insert of one vector appends one entry to the log.
LEMMA InsertLogAppends ==
  ASSUME MaxBatch = 1, TypeInv, NEW b \in Batches, InsertLog(b)
  PROVE  /\ LogEntry("insert", b[1]) \in Entry /\ b[1] \in Item /\ Len(b) = 1
         /\ wal' = Append(wal, LogEntry("insert", b[1]))
<1>1. Len(b) = 1 /\ b[1] \in Item
  BY OneItem
<1>2. LogEntry("insert", b[1]) \in Entry
  BY <1>1 DEF LogEntry, Entry, Item
<1>3. wal' = wal \o [n \in 1..Len(b) |-> LogEntry("insert", b[n])]
  BY DEF InsertLog, AppendBatch
<1>4. [n \in 1..Len(b) |-> LogEntry("insert", b[n])] = <<LogEntry("insert", b[1])>>
  BY <1>1
<1>5. wal \in Seq(Entry)
  BY DEF TypeInv, TypeOK
<1>6. wal' = Append(wal, LogEntry("insert", b[1]))
  BY <1>2, <1>3, <1>4, <1>5, AppendIsConcat
<1> QED
  BY <1>1, <1>2, <1>6

\* A delete appends one entry to the log.
LEMMA DeleteLogAppends ==
  ASSUME NEW i \in Ids, DeleteLog(i)
  PROVE  /\ LogEntry("delete", [id |-> i, vec |-> None, meta |-> NoMeta]) \in Entry
         /\ wal' = Append(wal, LogEntry("delete", [id |-> i, vec |-> None, meta |-> NoMeta]))
  BY DEF DeleteLog, AppendOp, LogEntry, Entry

\* While a write has not reached its idx call, the log's value after it is
\* the index's value with the write applied.
LEMMA PendingValue ==
  ASSUME LogInv, pc \in {"logged", "insert", "delete"}, NEW i \in Ids
  PROVE  LogValue(wal, Len(wal), i) = After(wal[Len(wal)], i, Contents(i))
<1>1. Len(wal) \in Nat /\ Len(wal) > 0 /\ phase = "up"
  BY DEF LogInv, TypeInv, TypeOK, ReqShape, LastEntry
<1>2. Len(wal) - 1 \in Nat /\ (Len(wal) - 1) + 1 = Len(wal) /\ IndexPos = Len(wal) - 1
  BY <1>1 DEF IndexPos
<1>3. LogValue(wal, (Len(wal) - 1) + 1, i)
        = After(wal[(Len(wal) - 1) + 1], i, LogValue(wal, Len(wal) - 1, i))
  BY <1>2, LogStep
<1>4. LogValue(wal, Len(wal) - 1, i) = Contents(i)
  BY <1>2 DEF LogInv, IndexFollowsLog
<1> QED
  BY <1>2, <1>3, <1>4

\* Initially the empty index is the meaning of the empty log.
LEMMA LogInvInit == Init => LogInv
<1> SUFFICES ASSUME Init PROVE LogInv
  OBVIOUS
<1>1. ASSUME NEW i \in Ids PROVE Contents(i) = LogValue(wal, IndexPos, i)
  <2>1. LiveInserts(wal, 0, i) = {}
    BY DEF LiveInserts
  <2>2. LogValue(wal, 0, i) = None
    BY <2>1, LogValueNone
  <2> QED
    BY <2>2 DEF Init, Contents, IndexPos
<1> QED
  BY <1>1, TypeInit DEF Init, LogInv, LastEntry, IndexFollowsLog

\* Every step keeps the index equal to the meaning of its prefix of the log.
LEMMA LogInvStep ==
  ASSUME MaxBatch = 1, LogInv, [Next]_vars
  PROVE  LogInv'
<1>0. TypeInv /\ TypeInv' /\ LastEntry /\ IndexFollowsLog /\ Len(wal) \in Nat
  <2>1. TypeInv /\ LastEntry /\ IndexFollowsLog
    BY DEF LogInv
  <2>2. TypeInv'
    BY <2>1, TypeStep
  <2>3. Len(wal) \in Nat
    BY <2>1 DEF TypeInv, TypeOK
  <2> QED
    BY <2>1, <2>2, <2>3
<1> SUFFICES LastEntry' /\ IndexFollowsLog'
  BY <1>0 DEF LogInv
<1>1. ASSUME NEW b \in Batches, InsertLog(b) PROVE LastEntry' /\ IndexFollowsLog'
  <2>1. /\ LogEntry("insert", b[1]) \in Entry
        /\ wal' = Append(wal, LogEntry("insert", b[1]))
    BY <1>0, <1>1, InsertLogAppends
  <2>2. /\ Len(wal') = Len(wal) + 1 /\ wal'[Len(wal')] = LogEntry("insert", b[1])
        /\ \A i \in Ids : LogValue(wal', Len(wal), i) = LogValue(wal, Len(wal), i)
    BY <1>0, <2>1, LogAppend
  <2>3. IndexPos = Len(wal) /\ IndexPos' = Len(wal)
    BY <1>0, <1>1, <2>2 DEF IndexPos, InsertLog, AppendBatch
  <2>4. \A i \in Ids : Contents(i)' = Contents(i)
    BY <1>1, QuietContents DEF QuietStep
  <2>5. IndexFollowsLog'
    BY <1>0, <2>2, <2>3, <2>4 DEF IndexFollowsLog
  <2>6. LastEntry'
    BY <1>0, <1>1, <2>2 DEF LastEntry, InsertLog, AppendBatch
  <2> QED
    BY <2>5, <2>6
<1>2. ASSUME NEW i \in Ids, DeleteLog(i) PROVE LastEntry' /\ IndexFollowsLog'
  <2> DEFINE it == [id |-> i, vec |-> None, meta |-> NoMeta]
  <2>1. LogEntry("delete", it) \in Entry /\ wal' = Append(wal, LogEntry("delete", it))
    BY <1>2, DeleteLogAppends
  <2>2. /\ Len(wal') = Len(wal) + 1 /\ wal'[Len(wal')] = LogEntry("delete", it)
        /\ \A j \in Ids : LogValue(wal', Len(wal), j) = LogValue(wal, Len(wal), j)
    <3> HIDE DEF it
    <3> QED BY <1>0, <2>1, LogAppend
  <2>3. IndexPos = Len(wal) /\ IndexPos' = Len(wal)
    BY <1>0, <1>2, <2>2 DEF IndexPos, DeleteLog, AppendOp
  <2>4. \A j \in Ids : Contents(j)' = Contents(j)
    BY <1>2, QuietContents DEF QuietStep
  <2>5. IndexFollowsLog'
    BY <1>0, <2>2, <2>3, <2>4 DEF IndexFollowsLog
  <2>6. pc' = "delete" /\ req' = <<it>>
    BY <1>2 DEF DeleteLog, AppendOp
  <2>7. LastEntry'
    BY <1>0, <2>2, <2>6 DEF LastEntry
  <2> QED
    BY <2>5, <2>7
<1>3. CASE InsertApply
  <2>1. nxt = 1 /\ Len(req) = 1 /\ phase = "up" /\ pc = "insert" /\ wal' = wal /\ pc' = "finish" /\ phase' = "up"
    <3>1. /\ pc = "insert" /\ phase = "up" /\ UNCHANGED <<wal, phase>>
          /\ pc' = IF nxt = Len(req) THEN "finish" ELSE "insert"
      BY <1>3 DEF InsertApply
    <3>2. Len(req) = 1 /\ nxt \in 1..Len(req)
      BY <1>0, <3>1, OneItem DEF TypeInv, ReqShape
    <3> QED
      BY <3>1, <3>2
  <2>2. wal[Len(wal)] = LogEntry("insert", req[1])
    BY <1>0, <2>1 DEF LastEntry
  <2>3. IndexPos' = Len(wal)
    BY <2>1 DEF IndexPos
  <2>4. ASSUME NEW j \in Ids PROVE Contents(j)' = LogValue(wal', IndexPos', j)
    <3>1. LogValue(wal, Len(wal), j) = After(LogEntry("insert", req[1]), j, Contents(j))
      BY <2>1, <2>2, PendingValue
    <3>2. /\ req[1].vec \in Vecs /\ Contents(req[1].id) = None
          /\ Contents(j)' = IF j = req[1].id THEN req[1].vec ELSE Contents(j)
      BY <1>0, <1>3, <2>1, ApplyContents
    <3> QED
      BY <2>1, <2>3, <3>1, <3>2 DEF After, LogEntry
  <2> QED
    BY <2>1, <2>4 DEF LastEntry, IndexFollowsLog
<1>4. CASE InsertRefused
  <2>1. nxt = 1 /\ phase = "up" /\ pc = "insert" /\ wal' = wal /\ pc' = "idle" /\ phase' = "up"
    BY <1>0, <1>4, OneItem DEF InsertRefused, TypeInv, ReqShape, durable
  <2>2. wal[Len(wal)] = LogEntry("insert", req[1]) /\ req[1].id \in Ids
    BY <1>0, <2>1, OneItem DEF LastEntry, TypeInv, ReqShape, Item
  <2>3. IndexPos' = Len(wal)
    BY <2>1 DEF IndexPos
  <2>4. ASSUME NEW j \in Ids PROVE Contents(j)' = LogValue(wal', IndexPos', j)
    <3>1. LogValue(wal, Len(wal), j) = After(LogEntry("insert", req[1]), j, Contents(j))
      BY <2>1, <2>2, PendingValue
    <3>2. req[1].vec \notin Vecs \/ Contents(req[1].id) # None
      BY <1>0, <1>4, <2>1, <2>2, ContentsNone DEF InsertRefused, CanInsert
    <3>3. Contents(j)' = Contents(j)
      BY <1>4, QuietContents DEF QuietStep
    <3> QED
      BY <2>1, <2>3, <3>1, <3>2, <3>3 DEF After, LogEntry
  <2> QED
    BY <2>1, <2>4 DEF LastEntry, IndexFollowsLog
<1>5. CASE DeleteApply
  <2>1. phase = "up" /\ pc = "delete" /\ wal' = wal /\ pc' = "tombstone" /\ phase' = "up"
    BY <1>5 DEF DeleteApply, DeleteVectorMetadata
  <2>2. wal[Len(wal)] = LogEntry("delete", req[1])
    BY <1>0, <2>1 DEF LastEntry
  <2>3. IndexPos' = Len(wal)
    BY <2>1 DEF IndexPos
  <2>4. ASSUME NEW j \in Ids PROVE Contents(j)' = LogValue(wal', IndexPos', j)
    <3>1. LogValue(wal, Len(wal), j) = After(LogEntry("delete", req[1]), j, Contents(j))
      BY <2>1, <2>2, PendingValue
    <3>2. Contents(j)' = IF j = req[1].id THEN None ELSE Contents(j)
      BY <1>0, <1>5, DeleteContents
    <3> QED
      BY <2>1, <2>3, <3>1, <3>2 DEF After, LogEntry
  <2> QED
    BY <2>1, <2>4 DEF LastEntry, IndexFollowsLog
<1>6. CASE DeleteRefused
  <2>1. phase = "up" /\ pc = "delete" /\ wal' = wal /\ pc' = "idle" /\ phase' = "up"
    BY <1>6 DEF DeleteRefused, durable
  <2>2. wal[Len(wal)] = LogEntry("delete", req[1]) /\ req[1].id \in Ids
    BY <1>0, <2>1 DEF LastEntry, TypeInv, ReqShape, DeleteItem
  <2>3. IndexPos' = Len(wal)
    BY <2>1 DEF IndexPos
  <2>4. ASSUME NEW j \in Ids PROVE Contents(j)' = LogValue(wal', IndexPos', j)
    <3>1. LogValue(wal, Len(wal), j) = After(LogEntry("delete", req[1]), j, Contents(j))
      BY <2>1, <2>2, PendingValue
    <3>2. Contents(req[1].id) = None
      BY <1>0, <1>6, <2>2, ContentsNone DEF DeleteRefused
    <3>3. Contents(j)' = Contents(j)
      BY <1>6, QuietContents DEF QuietStep
    <3> QED
      BY <2>1, <2>3, <3>1, <3>2, <3>3 DEF After, LogEntry
  <2> QED
    BY <2>1, <2>4 DEF LastEntry, IndexFollowsLog
<1>7. CASE Crash
  <2>1. IndexPos' = 0 /\ pc' = "idle"
    BY <1>7 DEF Crash, IndexPos
  <2>2. ASSUME NEW j \in Ids PROVE Contents(j)' = LogValue(wal', 0, j)
    <3>1. LiveInserts(wal', 0, j) = {}
      BY DEF LiveInserts
    <3> QED
      BY <1>7, <3>1, LogValueNone, CrashContents
  <2> QED
    BY <2>1, <2>2 DEF LastEntry, IndexFollowsLog
<1>8. CASE ReplayEntry
  <2>1. phase = "replay" /\ phase' = "replay" /\ pos \in Nat /\ pos' = pos + 1 /\ wal' = wal
    BY <1>0, <1>8 DEF ReplayEntry, durable, TypeInv, TypeOK
  <2>2. IndexPos = pos /\ IndexPos' = pos + 1 /\ pc' = "idle"
    BY <1>0, <2>1 DEF IndexPos, TypeInv, ReqShape
  <2>3. ASSUME NEW j \in Ids PROVE Contents(j)' = LogValue(wal', IndexPos', j)
    <3>1. Contents(j)' = After(wal[pos + 1], j, Contents(j))
      BY <1>0, <1>8, ReplayContents
    <3>2. Contents(j) = LogValue(wal, pos, j)
      BY <1>0, <2>2 DEF IndexFollowsLog
    <3>3. LogValue(wal, pos + 1, j) = After(wal[pos + 1], j, LogValue(wal, pos, j))
      BY <2>1, LogStep
    <3> QED
      BY <2>1, <2>2, <3>1, <3>2, <3>3
  <2> QED
    BY <2>2, <2>3 DEF LastEntry, IndexFollowsLog
<1>9. CASE \/ LogFails \/ InsertClearTombstones \/ DeleteTombstone \/ DeleteTombstoneFails
         \/ Finish \/ Search \/ UNCHANGED vars
  <2>1. /\ wal' = wal /\ phase' = phase /\ pos' = pos
        /\ \A j \in Ids : Contents(j)' = Contents(j)
    BY <1>9, QuietContents DEF QuietStep, InsertClearTombstones, RemoveTombstonesBatch, DeleteTombstone, AddTombstone,
       LogFails, DeleteTombstoneFails, Finish, Search, vars, durable
  <2>2. IndexPos' = IndexPos
    BY <1>9, <2>1 DEF IndexPos, InsertClearTombstones, RemoveTombstonesBatch, DeleteTombstone, AddTombstone, Finish,
       LogFails, DeleteTombstoneFails, Search, request, vars
  <2>3. IndexFollowsLog'
    BY <1>0, <2>1, <2>2 DEF IndexFollowsLog
  <2>4. LastEntry'
    BY <1>0, <1>9, <2>1 DEF LastEntry, InsertClearTombstones, RemoveTombstonesBatch, DeleteTombstone, AddTombstone, Finish,
       LogFails, DeleteTombstoneFails, Search, request, vars
  <2> QED
    BY <2>3, <2>4
<1>10. CASE Restart \/ ReplayDone
  <2>1. wal' = wal /\ \A j \in Ids : Contents(j)' = Contents(j)
    BY <1>10, QuietContents DEF QuietStep, Restart, ReplayDone, durable
  <2>2. IndexPos' = IndexPos /\ pc' = "idle"
    BY <1>0, <1>10, <2>1 DEF IndexPos, Restart, ReplayDone, request, TypeInv, ReqShape
  <2> QED
    BY <1>0, <2>1, <2>2 DEF IndexFollowsLog, LastEntry
<1> QED
  BY <1>1, <1>2, <1>3, <1>4, <1>5, <1>6, <1>7, <1>8, <1>9, <1>10 DEF Next

\* With one vector per InsertVectors call the index is always the meaning of
\* a prefix of the log, and of the whole log between writes: what replayWAL
\* rebuilds after a crash is what the crashed process served.
THEOREM IndexAlwaysFollowsLog ==
  ASSUME MaxBatch = 1
  PROVE  Spec => []IndexFollowsLog
<1>1. LogInv /\ [Next]_vars => LogInv'
  BY LogInvStep
<1>2. LogInv => IndexFollowsLog
  BY DEF LogInv
<1> QED
  BY <1>1, <1>2, LogInvInit, PTL DEF Spec

-----------------------------------------------------------------------------
(* Acknowledged writes.  What the clients were told holds of the log at    *)
(* every moment, and of the index whenever the process is up; a write in   *)
(* progress never contradicts it.                                          *)

\* The metadata rows of an id are m, but for failed writes.
MetaHas(i, m) ==
  /\ <<"save", i>> \notin lost => \A k \in MetaKeys : m[k] # None => meta[i][k] = m[k]
  /\ <<"delete", i>> \notin lost => \A k \in MetaKeys : meta[i][k] # None => meta[i][k] = m[k]

Clean(i) == <<"delete", i>> \notin lost => meta[i] = NoMeta
Cleared(i) == <<"clear", i>> \notin lost => i \notin tomb

AckedOK(i) ==
  /\ acked[i].st = "live" =>
       /\ acked[i].vec \in Vecs
       /\ LogValue(wal, Len(wal), i) = acked[i].vec
       /\ phase = "up" => Contents(i) = acked[i].vec
       /\ MetaHas(i, acked[i].meta)
       /\ Cleared(i)
  /\ acked[i].st = "deleted" =>
       /\ LogValue(wal, Len(wal), i) = None
       /\ phase = "up" => Contents(i) = None
       /\ Clean(i)
       /\ i \in tomb

\* Metadata rows without a vector in the log are left-overs.
MetaOf(i) ==
  LogValue(wal, Len(wal), i) = None => Clean(i) \/ (pc = "delete" /\ req[1].id = i)

Progress ==
  /\ pc \in {"logged", "insert"} => acked[req[1].id].st # "deleted"
  /\ pc \in {"delete", "tombstone"} => acked[req[1].id].st # "live"
  /\ pc \in {"logged", "insert", "delete"} /\ Contents(req[1].id) = None => Clean(req[1].id)
  /\ pc = "insert" => Cleared(req[1].id)
  /\ pc = "tombstone" => Contents(req[1].id) = None /\ Clean(req[1].id)
  /\ pc = "finish" /\ req[1].vec = None =>
       Contents(req[1].id) = None /\ Clean(req[1].id) /\ req[1].id \in tomb
  /\ pc = "finish" /\ req[1].vec # None =>
       /\ req[1].vec \in Vecs /\ Contents(req[1].id) = req[1].vec
       /\ MetaHas(req[1].id, req[1].meta) /\ Cleared(req[1].id)

AckInv == LogInv /\ (\A i \in Ids : AckedOK(i)) /\ (\A i \in Ids : MetaOf(i)) /\ Progress

\* The SysDB rows of an id, and what is known to be missing of them, stay.
SameRows(i) ==
  /\ meta'[i] = meta[i]
  /\ i \in tomb' <=> i \in tomb
  /\ \A x \in {"save", "clear", "delete"} : <<x, i>> \in lost' <=> <<x, i>> \in lost

\* A step that leaves an id's rows alone leaves what is said of them alone.
LEMMA RowsFrame ==
  ASSUME NEW i, SameRows(i)
  PROVE  /\ Clean(i)' <=> Clean(i)
         /\ Cleared(i)' <=> Cleared(i)
         /\ \A m : MetaHas(i, m)' <=> MetaHas(i, m)
  BY DEF SameRows, Clean, Cleared, MetaHas

\* Initially nothing is acknowledged.
LEMMA AckInvInit == Init => AckInv
<1> SUFFICES ASSUME Init PROVE AckInv
  OBVIOUS
<1>1. pc = "idle" /\ \A i \in Ids : acked[i].st = "unknown" /\ meta[i] = NoMeta
  BY DEF Init, Unknown
<1> QED
  BY <1>1, LogInvInit DEF AckInv, AckedOK, MetaOf, Clean, Progress

\* Every step keeps what was acknowledged, or is about to be, in the log, the
\* index and the SysDB rows.
LEMMA AckInvStep ==
  ASSUME MaxBatch = 1, AckInv, [Next]_vars
  PROVE  AckInv'
<1>0. /\ LogInv /\ LogInv' /\ TypeInv /\ TypeInv' /\ (\A i \in Ids : AckedOK(i)) /\ Progress
      /\ (\A i \in Ids : MetaOf(i)) /\ Len(wal) \in Nat /\ None \notin Vecs
  <2>1. LogInv /\ LogInv' /\ (\A i \in Ids : AckedOK(i)) /\ Progress /\ (\A i \in Ids : MetaOf(i))
    BY LogInvStep DEF AckInv
  <2>2. TypeInv /\ TypeInv'
    BY <2>1 DEF LogInv
  <2>3. Len(wal) \in Nat /\ None \notin Vecs
    BY <2>2, ConstantsAssumption DEF TypeInv, TypeOK, Vectors
  <2> QED
    BY <2>1, <2>2, <2>3
<1> DEFINE Goal == (\A i \in Ids : AckedOK(i)') /\ (\A i \in Ids : MetaOf(i)') /\ Progress'
<1> SUFFICES Goal
  BY <1>0 DEF AckInv
<1>a. ASSUME UNCHANGED <<meta, tomb, lost>> PROVE \A i \in Ids : SameRows(i)
  BY <1>a DEF SameRows
<1>b. ASSUME phase = "up", pc = "idle", NEW i \in Ids, Contents(i) = None PROVE Clean(i)
  <2>1. LogValue(wal, Len(wal), i) = None
    BY <1>0, <1>b DEF LogInv, IndexFollowsLog, IndexPos
  <2> QED
    BY <1>0, <1>b, <2>1 DEF MetaOf
<1>1. ASSUME NEW b \in Batches, InsertLog(b) PROVE Goal
  <2>1. /\ LogEntry("insert", b[1]) \in Entry /\ b[1] \in Item /\ Len(b) = 1
        /\ wal' = Append(wal, LogEntry("insert", b[1]))
    BY <1>0, <1>1, InsertLogAppends
  <2>2. \A i \in Ids : LogValue(wal', Len(wal'), i)
                         = After(LogEntry("insert", b[1]), i, LogValue(wal, Len(wal), i))
    BY <1>0, <2>1, LogAppend
  <2>3. \A i \in Ids : Contents(i)' = Contents(i)
    BY <1>1, QuietContents DEF QuietStep
  <2>4. \A i \in Ids : acked'[i] = IF b[1].id = i /\ acked[i].st # "live" THEN Unknown ELSE acked[i]
    BY <1>1, <2>1 DEF InsertLog, AppendBatch
  <2>5. /\ \A i \in Ids : SameRows(i)
        /\ phase = "up" /\ phase' = phase /\ pc = "idle" /\ pc' = "logged" /\ req' = b
    BY <1>1, <1>a DEF InsertLog, AppendBatch
  <2>6. ASSUME NEW i \in Ids PROVE AckedOK(i)'
    <3>1. CASE acked'[i] = Unknown
      BY <3>1 DEF AckedOK, Unknown
    <3>2. CASE acked'[i] # Unknown
      <4>1. acked'[i] = acked[i] /\ (b[1].id = i => acked[i].st = "live")
        BY <2>4, <3>2
      <4>2. AckedOK(i) /\ Contents(i)' = Contents(i)
        BY <1>0, <2>3
      <4>3. LogValue(wal', Len(wal'), i) = LogValue(wal, Len(wal), i)
        BY <1>0, <2>2, <4>1, <4>2 DEF After, LogEntry, AckedOK
      <4> QED
        BY <2>5, <4>1, <4>2, <4>3, RowsFrame DEF AckedOK, SameRows
    <3> QED
      BY <3>1, <3>2
  <2>7. ASSUME NEW i \in Ids PROVE MetaOf(i)'
    <3>1. LogValue(wal', Len(wal'), i) = None => LogValue(wal, Len(wal), i) = None
      BY <1>0, <2>2 DEF After, LogEntry
    <3>2. LogValue(wal, Len(wal), i) = None => Clean(i)
      BY <1>0, <2>5 DEF MetaOf
    <3> QED
      BY <2>5, <3>1, <3>2, RowsFrame DEF MetaOf
  <2>8. Progress'
    <3>1. b[1].id \in Ids
      BY <2>1 DEF Item
    <3>2. Contents(b[1].id)' = None => Clean(b[1].id)'
      BY <1>b, <2>3, <2>5, <3>1, RowsFrame
    <3>3. acked'[b[1].id].st # "deleted"
      BY <2>4, <3>1 DEF Unknown
    <3> QED
      BY <2>5, <3>2, <3>3 DEF Progress
  <2> QED
    BY <2>6, <2>7, <2>8
<1>2. ASSUME NEW d \in Ids, DeleteLog(d) PROVE Goal
  <2> DEFINE it == [id |-> d, vec |-> None, meta |-> NoMeta]
  <2>1. LogEntry("delete", it) \in Entry /\ wal' = Append(wal, LogEntry("delete", it))
    BY <1>2, DeleteLogAppends
  <2>2. \A i \in Ids : LogValue(wal', Len(wal'), i)
                         = After(LogEntry("delete", it), i, LogValue(wal, Len(wal), i))
    <3> HIDE DEF it
    <3> QED BY <1>0, <2>1, LogAppend
  <2>3. \A i \in Ids : Contents(i)' = Contents(i)
    BY <1>2, QuietContents DEF QuietStep
  <2>4. \A i \in Ids : acked'[i] = IF d = i /\ acked[i].st = "live" THEN Unknown ELSE acked[i]
    BY <1>0, <1>2 DEF DeleteLog, AppendOp, TypeInv, TypeOK
  <2>5. /\ \A i \in Ids : SameRows(i)
        /\ phase = "up" /\ phase' = phase /\ pc = "idle" /\ pc' = "delete" /\ req'[1].id = d
    BY <1>2, <1>a DEF DeleteLog, AppendOp
  <2>6. ASSUME NEW i \in Ids PROVE AckedOK(i)'
    <3>1. CASE acked'[i] = Unknown
      BY <3>1 DEF AckedOK, Unknown
    <3>2. CASE acked'[i] # Unknown
      <4>1. acked'[i] = acked[i] /\ (d = i => acked[i].st # "live")
        BY <2>4, <3>2
      <4>2. AckedOK(i) /\ Contents(i)' = Contents(i)
        BY <1>0, <2>3
      <4>3. acked[i].st \in {"live", "deleted"} =>
              LogValue(wal', Len(wal'), i) = LogValue(wal, Len(wal), i)
        BY <1>0, <2>2, <4>1, <4>2 DEF After, LogEntry, AckedOK
      <4> QED
        BY <2>5, <4>1, <4>2, <4>3, RowsFrame DEF AckedOK, SameRows
    <3> QED
      BY <3>1, <3>2
  <2>7. ASSUME NEW i \in Ids PROVE MetaOf(i)'
    <3>1. CASE i = d
      BY <2>5, <3>1 DEF MetaOf
    <3>2. CASE i # d
      <4>1. LogValue(wal', Len(wal'), i) = LogValue(wal, Len(wal), i)
        BY <2>2, <3>2 DEF After, LogEntry
      <4>2. LogValue(wal, Len(wal), i) = None => Clean(i)
        BY <1>0, <2>5 DEF MetaOf
      <4> QED
        BY <2>5, <4>1, <4>2, RowsFrame DEF MetaOf
    <3> QED
      BY <3>1, <3>2
  <2>8. Progress'
    <3>1. Contents(d)' = None => Clean(d)'
      BY <1>b, <2>3, <2>5, RowsFrame
    <3>2. acked'[d].st # "live"
      BY <2>4 DEF Unknown
    <3> QED
      BY <2>5, <3>1, <3>2 DEF Progress
  <2> QED
    BY <2>6, <2>7, <2>8
<1>3. CASE InsertClearTombstones
  <2>1. /\ wal' = wal /\ meta' = meta /\ phase' = phase /\ acked' = acked /\ req' = req
        /\ pc = "logged" /\ pc' = "insert"
        /\ RemoveTombstonesBatch({req[n].id : n \in 1..Len(req)})
    BY <1>3 DEF InsertClearTombstones
  <2>2. Len(req) = 1 /\ req[1] \in Item
    BY <1>0, <2>1, OneItem DEF TypeInv, ReqShape
  <2>3. {req[n].id : n \in 1..Len(req)} = {req[1].id} /\ req[1].id \in Ids
    BY <2>2 DEF Item
  <2>4. RemoveTombstonesBatch({req[1].id})
    BY <2>1, <2>3
  <2>5. \A i \in Ids : Contents(i)' = Contents(i)
    BY <1>3, QuietContents DEF QuietStep
  <2>6. Cleared(req[1].id)'
    <3>1. req[1].id \notin tomb' \/ <<"clear", req[1].id>> \in lost'
      BY <2>4 DEF RemoveTombstonesBatch
    <3> QED
      BY <2>1, <3>1 DEF Cleared
  <2>7. \A i \in Ids : /\ i # req[1].id => SameRows(i)
                       /\ Clean(i)' <=> Clean(i)
                       /\ \A m : MetaHas(i, m)' <=> MetaHas(i, m)
    BY <2>1, <2>4 DEF RemoveTombstonesBatch, SameRows, Clean, MetaHas
  <2>8. ASSUME NEW i \in Ids PROVE AckedOK(i)'
    <3>1. AckedOK(i) /\ Contents(i)' = Contents(i)
      BY <1>0, <2>5
    <3>2. acked[i].st = "deleted" => i # req[1].id
      BY <1>0, <2>1 DEF Progress
    <3>3. CASE i = req[1].id
      BY <2>1, <2>6, <2>7, <3>1, <3>2, <3>3 DEF AckedOK
    <3>4. CASE i # req[1].id
      BY <2>1, <2>7, <3>1, <3>4, RowsFrame DEF AckedOK, SameRows
    <3> QED
      BY <3>3, <3>4
  <2>9. ASSUME NEW i \in Ids PROVE MetaOf(i)'
    BY <1>0, <2>1, <2>7 DEF MetaOf
  <2>10. Progress'
    BY <1>0, <2>1, <2>3, <2>5, <2>6, <2>7 DEF Progress
  <2> QED
    BY <2>8, <2>9, <2>10
<1>4. CASE InsertApply
  <2>1. /\ nxt = 1 /\ Len(req) = 1 /\ phase = "up" /\ phase' = "up"
        /\ pc = "insert" /\ pc' = "finish"
        /\ wal' = wal /\ tomb' = tomb /\ acked' = acked /\ req' = req
    <3>1. /\ pc = "insert" /\ phase = "up" /\ UNCHANGED <<wal, tomb, phase, req, acked>>
          /\ pc' = IF nxt = Len(req) THEN "finish" ELSE "insert"
      BY <1>4 DEF InsertApply
    <3>2. Len(req) = 1 /\ nxt \in 1..Len(req)
      BY <1>0, <3>1, OneItem DEF TypeInv, ReqShape
    <3> QED
      BY <3>1, <3>2
  <2>2. /\ req[1] \in Item /\ req[1].vec \in Vecs /\ Contents(req[1].id) = None
        /\ \A j \in Ids : Contents(j)' = IF j = req[1].id THEN req[1].vec ELSE Contents(j)
    BY <1>0, <1>4, <2>1, ApplyContents
  <2>3. req[1].id \in Ids /\ req[1].meta \in Metas /\ SaveVectorMetadata(req[1].id, req[1].meta)
    BY <1>4, <2>1, <2>2 DEF InsertApply, Item
  <2>4. /\ meta \in [Ids -> Metas] /\ Clean(req[1].id) /\ Cleared(req[1].id)
        /\ meta[req[1].id] \in Metas
    BY <1>0, <2>1, <2>2, <2>3 DEF Progress, TypeInv, TypeOK
  <2>5. \A i \in Ids : i # req[1].id => SameRows(i)
    BY <2>1, <2>3, <2>4 DEF SaveVectorMetadata, SameRows
  <2>6. Cleared(req[1].id)'
    BY <2>1, <2>3, <2>4 DEF SaveVectorMetadata, Cleared
  <2>7. MetaHas(req[1].id, req[1].meta)'
    <3>0. PICK i, m : i = req[1].id /\ m = req[1].meta
      OBVIOUS
    <3>1. <<"delete", i>> \notin lost' => \A k \in MetaKeys : meta[i][k] = None
      BY <2>3, <2>4, <3>0 DEF SaveVectorMetadata, Clean, NoMeta
    <3>2. CASE /\ meta' = [meta EXCEPT ![i] = [k \in MetaKeys |-> IF m[k] = None THEN meta[i][k] ELSE m[k]]]
               /\ lost' = lost \ {<<"save", i>>}
      <4>1. \A k \in MetaKeys : meta'[i][k] = IF m[k] = None THEN meta[i][k] ELSE m[k]
        BY <2>3, <2>4, <3>0, <3>2
      <4> QED
        BY <2>1, <3>0, <3>1, <4>1 DEF MetaHas
    <3>3. CASE meta' = meta /\ lost' = lost \cup {<<"save", i>>}
      BY <2>1, <3>0, <3>1, <3>3 DEF MetaHas
    <3> QED
      BY <2>3, <3>0, <3>2, <3>3 DEF SaveVectorMetadata
  <2>8. acked[req[1].id].st \notin {"live", "deleted"}
    BY <1>0, <2>1, <2>2 DEF Progress, AckedOK, Item
  <2>9. ASSUME NEW i \in Ids PROVE AckedOK(i)'
    <3>1. CASE i = req[1].id
      BY <2>1, <2>8, <3>1 DEF AckedOK
    <3>2. CASE i # req[1].id
      BY <1>0, <2>1, <2>2, <2>5, <3>2, RowsFrame DEF AckedOK, SameRows
    <3> QED
      BY <3>1, <3>2
  <2>10. ASSUME NEW i \in Ids PROVE MetaOf(i)'
    <3>1. CASE i = req[1].id
      <4>1. LogValue(wal', Len(wal'), i) = Contents(i)'
        BY <1>0, <2>1 DEF LogInv, IndexFollowsLog, IndexPos
      <4> QED
        BY <1>0, <2>2, <3>1, <4>1 DEF MetaOf
    <3>2. CASE i # req[1].id
      BY <1>0, <2>1, <2>5, <3>2, RowsFrame DEF MetaOf
    <3> QED
      BY <3>1, <3>2
  <2>11. Progress'
    BY <1>0, <2>1, <2>2, <2>3, <2>6, <2>7 DEF Progress
  <2> QED
    BY <2>9, <2>10, <2>11
<1>5. CASE \/ LogFails \/ InsertRefused \/ DeleteRefused \/ DeleteTombstoneFails
           \/ Search \/ UNCHANGED vars
  <2>1. /\ UNCHANGED <<wal, meta, tomb, lost, phase, acked>>
        /\ pc' = "idle" \/ (pc' = pc /\ req' = req)
        /\ pc = "delete" /\ pc' = "idle" => idToRow[req[1].id] = 0
    BY <1>5 DEF LogFails, InsertRefused, DeleteRefused, DeleteTombstoneFails, Search, vars, durable,
       request
  <2>2. \A i \in Ids : Contents(i)' = Contents(i)
    BY <1>5, QuietContents DEF QuietStep
  <2>a. \A i \in Ids : SameRows(i)
    BY <1>a, <2>1
  <2>3. ASSUME NEW i \in Ids PROVE AckedOK(i)'
    BY <1>0, <2>1, <2>2, <2>a, RowsFrame DEF AckedOK
  <2>4. ASSUME NEW i \in Ids PROVE MetaOf(i)'
    <3>1. CASE pc = "delete" /\ pc' = "idle" /\ req[1].id = i
      <4>1. Contents(i) = None
        BY <2>1, <3>1 DEF Contents
      <4>2. Clean(i)'
        BY <1>0, <2>a, <3>1, <4>1, RowsFrame DEF Progress
      <4> QED
        BY <4>2 DEF MetaOf
    <3>2. CASE ~(pc = "delete" /\ pc' = "idle" /\ req[1].id = i)
      BY <1>0, <2>1, <2>a, <3>2, RowsFrame DEF MetaOf
    <3> QED
      BY <3>1, <3>2
  <2>5. Progress'
    <3>1. CASE pc' = "idle"
      BY <3>1 DEF Progress
    <3>2. CASE pc' = pc /\ req' = req /\ pc \in {"logged", "insert", "delete", "tombstone", "finish"}
      <4>1. req[1].id \in Ids
        BY <1>0, <3>2, OneItem DEF TypeInv, ReqShape, Item, DeleteItem
      <4>2. /\ Contents(req[1].id)' = Contents(req[1].id)
            /\ Clean(req[1].id)' <=> Clean(req[1].id)
            /\ Cleared(req[1].id)' <=> Cleared(req[1].id)
            /\ MetaHas(req[1].id, req[1].meta)' <=> MetaHas(req[1].id, req[1].meta)
        BY <2>1, <2>2, <2>a, <3>2, <4>1, RowsFrame DEF Clean, Cleared, MetaHas
      <4> QED
        BY <1>0, <2>1, <3>2, <4>2 DEF Progress
    <3>3. CASE pc' = pc /\ req' = req /\ pc \notin {"logged", "insert", "delete", "tombstone", "finish"}
      BY <3>3 DEF Progress
    <3> QED
      BY <2>1, <3>1, <3>2, <3>3
  <2> QED
    BY <2>3, <2>4, <2>5
<1>6. CASE DeleteApply
  <2>1. /\ phase = "up" /\ phase' = "up" /\ pc = "delete" /\ pc' = "tombstone"
        /\ wal' = wal /\ tomb' = tomb /\ acked' = acked /\ req' = req
        /\ DeleteVectorMetadata(req[1].id)
    BY <1>6 DEF DeleteApply
  <2>2. /\ req[1] \in DeleteItem
        /\ \A j \in Ids : Contents(j)' = IF j = req[1].id THEN None ELSE Contents(j)
    BY <1>0, <1>6, DeleteContents
  <2>3. req[1].id \in Ids /\ acked[req[1].id].st # "live" /\ meta \in [Ids -> Metas]
    BY <1>0, <2>1, <2>2 DEF Progress, DeleteItem, TypeInv, TypeOK
  <2>4. Clean(req[1].id)' /\ \A i \in Ids : i # req[1].id => SameRows(i)
    BY <2>1, <2>3 DEF DeleteVectorMetadata, Clean, SameRows
  <2>5. ASSUME NEW i \in Ids PROVE AckedOK(i)'
    <3>1. CASE i = req[1].id
      BY <1>0, <2>1, <2>2, <2>3, <2>4, <3>1 DEF AckedOK
    <3>2. CASE i # req[1].id
      BY <1>0, <2>1, <2>2, <2>4, <3>2, RowsFrame DEF AckedOK, SameRows
    <3> QED
      BY <3>1, <3>2
  <2>6. ASSUME NEW i \in Ids PROVE MetaOf(i)'
    <3>1. CASE i = req[1].id
      BY <2>1, <2>4, <3>1 DEF MetaOf, Clean
    <3>2. CASE i # req[1].id
      BY <1>0, <2>1, <2>4, <3>2, RowsFrame DEF MetaOf
    <3> QED
      BY <3>1, <3>2
  <2>7. Progress'
    BY <2>1, <2>2, <2>3, <2>4 DEF Progress
  <2> QED
    BY <2>5, <2>6, <2>7
<1>7. CASE DeleteTombstone
  <2>1. /\ UNCHANGED <<wal, meta, lost, phase, acked, req>> /\ tomb' = tomb \cup {req[1].id}
        /\ pc = "tombstone" /\ pc' = "finish"
    BY <1>7 DEF DeleteTombstone, AddTombstone
  <2>2. \A i \in Ids : Contents(i)' = Contents(i)
    BY <1>7, QuietContents DEF QuietStep
  <2>3. req[1].id \in Ids /\ req[1].vec = None /\ acked[req[1].id].st # "live"
    BY <1>0, <2>1 DEF TypeInv, ReqShape, DeleteItem, Progress
  <2>4. \A i \in Ids : /\ i # req[1].id => SameRows(i)
                       /\ Clean(i)' <=> Clean(i)
    BY <2>1 DEF SameRows, Clean
  <2>5. ASSUME NEW i \in Ids PROVE AckedOK(i)'
    <3>1. CASE i = req[1].id
      BY <1>0, <2>1, <2>2, <2>3, <2>4, <3>1 DEF AckedOK
    <3>2. CASE i # req[1].id
      BY <1>0, <2>1, <2>2, <2>4, <3>2, RowsFrame DEF AckedOK, SameRows
    <3> QED
      BY <3>1, <3>2
  <2>6. ASSUME NEW i \in Ids PROVE MetaOf(i)'
    BY <1>0, <2>1, <2>4 DEF MetaOf
  <2>7. Progress'
    BY <1>0, <2>1, <2>2, <2>3, <2>4 DEF Progress
  <2> QED
    BY <2>5, <2>6, <2>7
<1>8. CASE Finish
  <2>1. /\ UNCHANGED <<wal, meta, tomb, lost, phase>>
        /\ phase = "up" /\ pc = "finish" /\ pc' = "idle"
    BY <1>8 DEF Finish, durable
  <2>2. \A i \in Ids : Contents(i)' = Contents(i)
    BY <1>8, QuietContents DEF QuietStep
  <2>a. \A i \in Ids : SameRows(i)
    BY <1>a, <2>1
  <2>3. Len(req) = 1 /\ req[1] \in Item \cup DeleteItem
    BY <1>0, <2>1, OneItem DEF TypeInv, ReqShape
  <2>4. req[1].id \in Ids /\ 1 \in 1..Len(req) /\ \A n \in 1..Len(req) : n = 1
    BY <2>3 DEF Item, DeleteItem
  <2>5. \A i \in Ids : Contents(i) = LogValue(wal, Len(wal), i)
    BY <1>0, <2>1 DEF LogInv, IndexFollowsLog, IndexPos
  <2>6. ASSUME NEW i \in Ids PROVE AckedOK(i)'
    <3>1. CASE i # req[1].id
      <4>1. acked'[i] = acked[i]
        BY <1>8, <2>4, <3>1 DEF Finish
      <4> QED
        BY <1>0, <2>1, <2>2, <2>a, <4>1, RowsFrame DEF AckedOK
    <3>2. CASE i = req[1].id /\ req[1].vec = None
      <4>1. acked'[i] = Deleted
        BY <1>8, <2>4, <3>2 DEF Finish
      <4>2. Contents(i) = None /\ Clean(i) /\ i \in tomb
        BY <1>0, <2>1, <3>2 DEF Progress
      <4> QED
        BY <2>1, <2>2, <2>5, <2>a, <4>1, <4>2, RowsFrame DEF AckedOK, Deleted
    <3>3. CASE i = req[1].id /\ req[1].vec # None
      <4>1. (CHOOSE n \in 1..Len(req) : req[n].id = i) = 1
        BY <2>4, <3>3
      <4>2. acked'[i] = AckedLive(req[1])
        BY <1>8, <2>4, <3>3, <4>1 DEF Finish
      <4>3. /\ req[1].vec \in Vecs /\ Contents(i) = req[1].vec
            /\ MetaHas(i, req[1].meta) /\ Cleared(i)
        BY <1>0, <2>1, <3>3 DEF Progress
      <4>4. /\ acked'[i].st = "live" /\ acked'[i].vec = req[1].vec
            /\ acked'[i].meta = req[1].meta
        BY <4>2 DEF AckedLive
      <4>5. MetaHas(i, acked[i].meta)'
        BY <2>1, <4>3, <4>4 DEF MetaHas
      <4> QED
        BY <2>1, <2>2, <2>5, <2>a, <4>3, <4>4, <4>5, RowsFrame DEF AckedOK
    <3> QED
      BY <3>1, <3>2, <3>3
  <2>7. ASSUME NEW i \in Ids PROVE MetaOf(i)'
    BY <1>0, <2>1, <2>a, RowsFrame DEF MetaOf
  <2> QED
    BY <2>1, <2>6, <2>7 DEF Progress
<1>9. CASE Crash \/ Restart \/ ReplayEntry
  <2>1. /\ UNCHANGED <<wal, meta, tomb, acked>> /\ phase' # "up" /\ lost \subseteq lost'
        /\ \A i : <<"clear", i>> \in lost' <=> <<"clear", i>> \in lost
    BY <1>9 DEF Crash, Restart, ReplayEntry, durable
  <2>2. pc' = "idle"
    BY <1>0, <2>1 DEF TypeInv, ReqShape
  <2>3. \A i \in Ids : /\ Clean(i) => Clean(i)'
                       /\ Cleared(i) => Cleared(i)'
                       /\ MetaHas(i, acked[i].meta) => MetaHas(i, acked[i].meta)'
    BY <2>1 DEF Clean, Cleared, MetaHas
  <2>4. ASSUME NEW i \in Ids PROVE MetaOf(i)'
    <3>1. CASE pc = "delete" /\ req[1].id = i
      <4>1. Crash
        BY <1>0, <1>9, <3>1 DEF Restart, ReplayEntry, TypeInv, ReqShape
      <4>2. meta[i] # NoMeta => <<"delete", i>> \in lost'
        BY <3>1, <4>1 DEF Crash
      <4> QED
        BY <2>1, <4>2 DEF MetaOf, Clean
    <3>2. CASE ~(pc = "delete" /\ req[1].id = i)
      BY <1>0, <2>1, <2>3, <3>2 DEF MetaOf
    <3> QED
      BY <3>1, <3>2
  <2>5. ASSUME NEW i \in Ids PROVE AckedOK(i)'
    BY <1>0, <2>1, <2>3 DEF AckedOK
  <2> QED
    BY <2>2, <2>4, <2>5 DEF Progress
<1>10. CASE ReplayDone
  <2>1. UNCHANGED <<wal, meta, tomb, lost, acked>> /\ phase = "replay" /\ pos = Len(wal)
    BY <1>10 DEF ReplayDone, durable
  <2>2. \A i \in Ids : Contents(i)' = Contents(i)
    BY <1>10, QuietContents DEF QuietStep
  <2>3. \A i \in Ids : Contents(i) = LogValue(wal, Len(wal), i)
    BY <1>0, <2>1 DEF LogInv, IndexFollowsLog, IndexPos
  <2>4. pc = "idle" /\ pc' = "idle"
    BY <1>0, <1>10 DEF ReplayDone, request, TypeInv, ReqShape
  <2>a. \A i \in Ids : SameRows(i)
    BY <1>a, <2>1
  <2>5. ASSUME NEW i \in Ids PROVE AckedOK(i)'
    BY <1>0, <2>1, <2>2, <2>3, <2>a, RowsFrame DEF AckedOK
  <2>6. ASSUME NEW i \in Ids PROVE MetaOf(i)'
    BY <1>0, <2>1, <2>4, <2>a, RowsFrame DEF MetaOf
  <2> QED
    BY <2>4, <2>5, <2>6 DEF Progress
<1> QED
  BY <1>1, <1>2, <1>3, <1>4, <1>5, <1>6, <1>7, <1>8, <1>9, <1>10 DEF Next

\* With one vector per call, no crash, restart, refusal or later write ever
\* takes back what InsertVectors and DeleteVector acknowledged; only the SysDB
\* writes that fail behind a warning leave metadata or a tombstone behind.
THEOREM AcknowledgedIsDurable ==
  ASSUME MaxBatch = 1
  PROVE  Spec => []AckedDurable
<1>1. AckInv /\ [Next]_vars => AckInv'
  BY AckInvStep
<1>2. AckInv => AckedDurable
  BY DEF AckInv, AckedOK, MetaHas, Clean, Cleared, AckedDurable
<1> QED
  BY <1>1, <1>2, AckInvInit, PTL DEF Spec

-----------------------------------------------------------------------------
(* The collection implements VectorStore.                                  *)

\* The answer a write in progress will get is a Boolean.
LEMMA WillSucceedBool == WillSucceed \in BOOLEAN
  BY Zenon DEF WillSucceed, CanInsert

\* Between writes the index, the log and the abstract map agree.
LEMMA IdleStore ==
  ASSUME LogInv, phase = "up", pc \notin {"logged", "insert", "delete"}, NEW i \in Ids
  PROVE  Store[i] = Contents(i)
<1>1. IndexPos = Len(wal)
  BY DEF IndexPos
<1> QED
  BY <1>1 DEF LogInv, IndexFollowsLog, Store

\* A step that keeps the log, the answer, the last search and the write in
\* progress with its outcome is invisible.
LEMMA Invisible ==
  ASSUME wal' = wal, answer' = answer, seen' = seen, Pending' = Pending
  PROVE  UNCHANGED VS!vars
<1>1. Store' = Store
  BY DEF Store
<1> QED
  BY <1>1 DEF VS!vars

\* Answering the write in progress.
LEMMA AnswerStep ==
  ASSUME pc # "idle", pc' = "idle", wal' = wal, seen' = seen,
         answer' = IF WillSucceed THEN "ok" ELSE "error"
  PROVE  VS!Answer
<1>1. Store' = Store
  BY DEF Store
<1>2. Pending' = VS!Idle
  BY DEF Pending, VS!Idle
<1>3. Pending # VS!Idle /\ Pending.ok = WillSucceed
  <2>1. Pending.kind \in {"insert", "delete"} /\ Pending.ok = WillSucceed
    BY DEF Pending
  <2>2. VS!Idle.kind = "none"
    BY DEF VS!Idle
  <2> QED
    BY <2>1, <2>2
<1> QED
  BY <1>1, <1>2, <1>3 DEF VS!Answer

\* Initial states are initial states of the durable map.
LEMMA RefinementInit == Init => VS!Init
<1> SUFFICES ASSUME Init PROVE VS!Init
  OBVIOUS
<1>1. ASSUME NEW i \in Ids PROVE LogValue(wal, Len(wal), i) = None
  <2>1. LiveInserts(wal, 0, i) = {} /\ Len(wal) = 0
    BY DEF LiveInserts, Init
  <2> QED
    BY <2>1, LogValueNone
<1>2. Store = [i \in Ids |-> None]
  BY <1>1 DEF Store
<1>3. Pending = VS!Idle
  BY DEF Pending, VS!Idle, Init
<1> QED
  BY <1>2, <1>3 DEF VS!Init, Init

\* Every step is a step of the durable map or leaves it alone.
LEMMA RefinementStep ==
  ASSUME MaxBatch = 1, LogInv, [Next]_vars
  PROVE  [VS!Next]_VS!vars
<1>0. TypeInv /\ LastEntry /\ IndexFollowsLog /\ Len(wal) \in Nat
      /\ None \notin Vectors /\ None \notin Vecs
  BY ConstantsAssumption DEF LogInv, TypeInv, TypeOK, Vectors
<1>1. ASSUME NEW b \in Batches, InsertLog(b) PROVE VS!Insert(b[1].id, b[1].vec) /\ VS!Next
  <2> DEFINE i == b[1].id
             v == b[1].vec
             ok == Store[i] = None /\ v \in Vecs
  <2>1. /\ LogEntry("insert", b[1]) \in Entry /\ b[1] \in Item
        /\ wal' = Append(wal, LogEntry("insert", b[1]))
    BY <1>0, <1>1, InsertLogAppends
  <2>2. i \in Ids /\ v \in Vecs \cup BadVecs /\ v # None
    BY <1>0, <2>1 DEF Item, Vectors
  <2>3. \A j \in Ids : LogValue(wal', Len(wal'), j)
                         = After(LogEntry("insert", b[1]), j, LogValue(wal, Len(wal), j))
    BY <1>0, <2>1, LogAppend
  <2>4. Store' = [Store EXCEPT ![i] = IF ok THEN v ELSE @]
    BY <2>2, <2>3 DEF Store, After, LogEntry
  <2>5. phase = "up" /\ pc = "idle" /\ pc' = "logged" /\ req' = b
        /\ idToRow' = idToRow /\ answer' = answer /\ seen' = seen
    BY <1>1 DEF InsertLog, AppendBatch, memory
  <2>6. WillSucceed' <=> ok
    <3>1. WillSucceed' <=> v \in Vecs /\ idToRow[i] = 0
      BY <2>5 DEF WillSucceed, CanInsert
    <3>2. Store[i] = Contents(i)
      BY <2>2, <2>5, IdleStore
    <3> QED
      BY <1>0, <2>2, <3>1, <3>2, ContentsNone
  <2>7. WillSucceed' = ok
    BY <2>6, WillSucceedBool, Zenon DEF WillSucceed, CanInsert
  <2>8. Pending = VS!Idle
    BY <2>5 DEF Pending, VS!Idle
  <2>9. Pending' = [kind |-> "insert", id |-> i, ok |-> ok]
    BY <2>2, <2>5, <2>7 DEF Pending
  <2>10. VS!Insert(i, v)
    BY <2>4, <2>5, <2>8, <2>9 DEF VS!Insert
  <2> QED
    BY <2>2, <2>10 DEF VS!Next
<1>2. ASSUME NEW d \in Ids, DeleteLog(d) PROVE VS!Delete(d) /\ VS!Next
  <2> DEFINE it == [id |-> d, vec |-> None, meta |-> NoMeta]
  <2>1. LogEntry("delete", it) \in Entry /\ wal' = Append(wal, LogEntry("delete", it))
    BY <1>2, DeleteLogAppends
  <2>2. \A i \in Ids : LogValue(wal', Len(wal'), i)
                         = After(LogEntry("delete", it), i, LogValue(wal, Len(wal), i))
    <3> HIDE DEF it
    <3> QED BY <1>0, <2>1, LogAppend
  <2>3. Store' = [Store EXCEPT ![d] = None]
    BY <2>2 DEF Store, After, LogEntry
  <2>4. phase = "up" /\ pc = "idle" /\ pc' = "delete" /\ req' = <<it>>
        /\ idToRow' = idToRow /\ answer' = answer /\ seen' = seen
    BY <1>2 DEF DeleteLog, AppendOp, memory
  <2>5. WillSucceed' <=> Store[d] # None
    <3>1. WillSucceed' <=> idToRow[d] # 0
      BY <2>4 DEF WillSucceed
    <3>2. Store[d] = Contents(d)
      BY <2>4, IdleStore
    <3> QED
      BY <1>0, <3>1, <3>2, ContentsNone
  <2>6. WillSucceed' = (Store[d] # None)
    BY <2>5, Zenon DEF WillSucceed, CanInsert
  <2>7. Pending = VS!Idle
    BY <2>4 DEF Pending, VS!Idle
  <2>8. Pending' = [kind |-> "delete", id |-> d, ok |-> Store[d] # None]
    BY <2>4, <2>6 DEF Pending
  <2>9. VS!Delete(d)
    BY <2>3, <2>4, <2>7, <2>8 DEF VS!Delete
  <2> QED
    BY <2>9 DEF VS!Next
<1>3. CASE InsertClearTombstones
  <2>1. /\ pc = "logged" /\ pc' = "insert" /\ UNCHANGED <<wal, req, idToRow, answer, seen>>
    BY <1>3 DEF InsertClearTombstones, RemoveTombstonesBatch, memory
  <2>2. Pending' = Pending
    BY <2>1 DEF Pending, WillSucceed, CanInsert
  <2> QED
    BY <2>1, <2>2, Invisible
<1>4. CASE InsertApply
  <2>1. /\ pc = "insert" /\ CanInsert(req[nxt].id, req[nxt].vec)
        /\ UNCHANGED <<wal, req, answer, seen>>
        /\ pc' = IF nxt = Len(req) THEN "finish" ELSE "insert"
    BY <1>4 DEF InsertApply, SaveVectorMetadata
  <2>2. Len(req) = 1 /\ nxt \in 1..Len(req)
    BY <1>0, <2>1, OneItem DEF TypeInv, ReqShape
  <2>3. nxt = 1 /\ pc' = "finish"
    BY <2>1, <2>2
  <2>4. WillSucceed /\ WillSucceed'
    BY <2>1, <2>3 DEF WillSucceed
  <2>5. Pending' = Pending
    BY <2>1, <2>3, <2>4, WillSucceedBool DEF Pending
  <2> QED
    BY <2>1, <2>5, Invisible
<1>5. CASE InsertRefused
  <2>1. /\ pc = "insert" /\ ~CanInsert(req[nxt].id, req[nxt].vec)
        /\ UNCHANGED <<wal, seen>> /\ answer' = "error" /\ pc' = "idle"
    BY <1>5 DEF InsertRefused, durable
  <2>2. nxt = 1
    BY <1>0, <2>1, OneItem DEF TypeInv, ReqShape
  <2>3. ~WillSucceed
    BY <2>1, <2>2 DEF WillSucceed
  <2>4. VS!Answer
    BY <2>1, <2>3, AnswerStep
  <2> QED
    BY <2>4 DEF VS!Next
<1>6. CASE DeleteApply
  <2>1. /\ pc = "delete" /\ pc' = "tombstone" /\ idToRow[req[1].id] # 0
        /\ UNCHANGED <<wal, req, answer, seen>>
    BY <1>6 DEF DeleteApply, DeleteVectorMetadata
  <2>2. WillSucceed /\ WillSucceed'
    BY <2>1 DEF WillSucceed
  <2>3. Pending' = Pending
    BY <2>1, <2>2, WillSucceedBool DEF Pending
  <2> QED
    BY <2>1, <2>3, Invisible
<1>7. CASE DeleteRefused
  <2>1. /\ pc = "delete" /\ idToRow[req[1].id] = 0
        /\ UNCHANGED <<wal, seen>> /\ answer' = "error" /\ pc' = "idle"
    BY <1>7 DEF DeleteRefused, durable
  <2>2. ~WillSucceed
    BY <2>1 DEF WillSucceed
  <2>3. VS!Answer
    BY <2>1, <2>2, AnswerStep
  <2> QED
    BY <2>3 DEF VS!Next
<1>8. CASE DeleteTombstone
  <2>1. pc = "tombstone" /\ pc' = "finish" /\ UNCHANGED <<wal, req, answer, seen>>
    BY <1>8 DEF DeleteTombstone, AddTombstone
  <2>2. WillSucceed /\ WillSucceed'
    BY <2>1 DEF WillSucceed
  <2>3. Pending' = Pending
    BY <2>1, <2>2, WillSucceedBool DEF Pending
  <2> QED
    BY <2>1, <2>3, Invisible
<1>a. CASE DeleteTombstoneFails
  <2>1. pc = "tombstone" /\ pc' = "idle" /\ UNCHANGED <<wal, seen>> /\ answer' = "error"
    BY <1>a DEF DeleteTombstoneFails, durable
  <2>2. req[1].vec = None
    BY <1>0, <2>1 DEF TypeInv, ReqShape, DeleteItem
  <2>3. Pending.kind = "delete" /\ Pending # VS!Idle
    BY <2>1, <2>2 DEF Pending, VS!Idle
  <2>4. Pending' = VS!Idle /\ Store' = Store
    BY <2>1 DEF Pending, VS!Idle, Store
  <2>5. VS!Answer
    BY <2>1, <2>3, <2>4 DEF VS!Answer
  <2> QED
    BY <2>5 DEF VS!Next
<1>b. CASE LogFails
  <2>1. pc = "idle" /\ pc' = "idle" /\ UNCHANGED <<wal, seen>> /\ answer' = "error"
    BY <1>b DEF LogFails, durable, request
  <2>2. Pending = VS!Idle /\ Pending' = Pending /\ Store' = Store
    BY <2>1 DEF Pending, VS!Idle, Store
  <2>3. VS!Refuse
    BY <2>1, <2>2 DEF VS!Refuse
  <2> QED
    BY <2>3 DEF VS!Next
<1>9. CASE Finish
  <2>1. pc = "finish" /\ pc' = "idle" /\ UNCHANGED <<wal, seen>> /\ answer' = "ok"
    BY <1>9 DEF Finish, durable
  <2>2. WillSucceed
    BY <2>1 DEF WillSucceed
  <2>3. VS!Answer
    BY <2>1, <2>2, AnswerStep
  <2> QED
    BY <2>3 DEF VS!Next
<1>10. CASE Search
  <2>1. /\ phase = "up" /\ pc = "idle" /\ UNCHANGED <<wal, pc, answer>>
        /\ seen' = {<<rows[r].id, rows[r].vec>> : r \in 1..Len(rows)}
    BY <1>10 DEF Search, durable, request
  <2>2. \A i \in Ids : Store[i] = Contents(i)
    BY <2>1, IdleStore
  <2>3. ASSUME NEW r \in 1..Len(rows)
        PROVE  \E i \in {j \in Ids : Store[j] # None} :
                  <<rows[r].id, rows[r].vec>> = <<i, Store[i]>>
    <3>1. rows \in Seq([id : Ids, vec : Vecs]) /\ idToRow[rows[r].id] = r
      BY <1>0 DEF TypeInv, TypeOK, RowsMatchMap
    <3>2. rows[r] \in [id : Ids, vec : Vecs]
      BY <3>1, ElementOfSeq
    <3>3. rows[r].id \in Ids /\ rows[r].vec \in Vecs /\ r # 0
      BY <3>2
    <3>4. Store[rows[r].id] = rows[r].vec
      BY <2>2, <3>1, <3>3 DEF Contents
    <3> QED
      BY <1>0, <3>3, <3>4
  <2>4. ASSUME NEW i \in Ids, Store[i] # None
        PROVE  \E r \in 1..Len(rows) : <<i, Store[i]>> = <<rows[r].id, rows[r].vec>>
    <3>1. idToRow[i] # 0 /\ Store[i] = rows[idToRow[i]].vec
      BY <2>2, <2>4 DEF Contents
    <3>2. idToRow[i] \in 1..Len(rows) /\ rows[idToRow[i]].id = i
      BY <1>0, <3>1 DEF TypeInv, RowsMatchMap
    <3> QED
      BY <3>1, <3>2
  <2>5. seen' = {<<i, Store[i]>> : i \in {j \in Ids : Store[j] # None}}
    <3> DEFINE S == {<<rows[r].id, rows[r].vec>> : r \in 1..Len(rows)}
               T == {<<i, Store[i]>> : i \in {j \in Ids : Store[j] # None}}
    <3>1. S \subseteq T
      BY <2>3, Zenon
    <3>2. T \subseteq S
      <4> SUFFICES ASSUME NEW i \in Ids, Store[i] # None PROVE <<i, Store[i]>> \in S
        BY Zenon
      <4> QED
        BY <2>4, ZenonT(30)
    <3>3. seen' = S
      BY <2>1
    <3> HIDE DEF S, T
    <3>4. seen' = T
      BY <3>1, <3>2, <3>3
    <3> QED
      BY <3>4 DEF T
  <2>6. Pending = VS!Idle /\ Pending' = Pending /\ Store' = Store
    BY <2>1 DEF Pending, VS!Idle, Store
  <2>7. VS!Search
    BY <2>1, <2>5, <2>6, Zenon DEF VS!Search
  <2> QED
    BY <2>7 DEF VS!Next
<1>11. CASE Crash
  <2>1. UNCHANGED <<wal, answer, seen>> /\ pc' = "idle"
    BY <1>11 DEF Crash, durable
  <2>2. Pending' = VS!Idle /\ Store' = Store
    BY <2>1 DEF Pending, VS!Idle, Store
  <2>3. VS!Crash
    BY <2>1, <2>2 DEF VS!Crash
  <2> QED
    BY <2>3 DEF VS!Next
<1>12. CASE Restart \/ ReplayEntry \/ ReplayDone
  <2>1. phase # "up" /\ UNCHANGED <<wal, pc, answer, seen>>
    BY <1>12 DEF Restart, ReplayEntry, ReplayDone, durable, request
  <2>2. pc = "idle" /\ pc' = "idle"
    BY <1>0, <2>1 DEF TypeInv, ReqShape
  <2>3. Pending' = Pending
    BY <2>2 DEF Pending
  <2> QED
    BY <2>1, <2>3, Invisible
<1>13. CASE UNCHANGED vars
  <2>1. Pending' = Pending /\ UNCHANGED <<wal, answer, seen>>
    BY <1>13 DEF vars, durable, request, memory, Pending, WillSucceed, CanInsert
  <2> QED
    BY <2>1, Invisible
<1> QED
  BY <1>1, <1>2, <1>3, <1>4, <1>5, <1>6, <1>7, <1>8, <1>9, <1>10, <1>11, <1>12, <1>13,
     <1>a, <1>b DEF Next

\* With one vector per call the collection, with its log, its index, its
\* crashes and its replays, behaves as the durable map of VectorStore: a write
\* takes effect at its log entry, or never when it is refused; an answer of ok
\* is only given to one that did.
THEOREM ImplementsVectorStore ==
  ASSUME MaxBatch = 1
  PROVE  Spec => RefinesVectorStore
<1>1. LogInv /\ [Next]_vars => LogInv'
  BY LogInvStep
<1>2. LogInv /\ [Next]_vars => [VS!Next]_VS!vars
  BY RefinementStep
<1> QED
  BY <1>1, <1>2, LogInvInit, RefinementInit, PTL DEF Spec, RefinesVectorStore, VS!Spec
=============================================================================
