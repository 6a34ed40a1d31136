---------------------------- MODULE StorageProofs ----------------------------
(***************************************************************************)
(* Proofs about the segment collector, the SPANN index and the IVF index,  *)
(* for any segments, readers, ids, vectors and bounds.                     *)
(***************************************************************************)
EXTENDS SegmentGC, Spann, Ivf, FiniteSetTheorems, WellFoundedInduction, TLAPS

-----------------------------------------------------------------------------
(* Lemmas on sequences and sets.                                           *)

\* A function on an initial segment of the numbers is a sequence.
LEMMA FunIsSeq ==
  ASSUME NEW S, NEW n \in Nat, NEW f \in [1..n -> S]
  PROVE  f \in Seq(S) /\ Len(f) = n
OBVIOUS

\* Adding to one counter of a list leaves a list of the same length.
LEMMA CounterAdd ==
  ASSUME NEW q \in Seq(Int), NEW c, NEW d \in Int
  PROVE  /\ [q EXCEPT ![c] = @ + d] \in Seq(Int)
         /\ Len([q EXCEPT ![c] = @ + d]) = Len(q)
<1>1. PICK p : p = [q EXCEPT ![c] = @ + d]
  OBVIOUS
<1>2. Len(q) \in Nat /\ q \in [1..Len(q) -> Int]
  OBVIOUS
<1>3. p \in [1..Len(q) -> Int]
  <2>1. DOMAIN p = 1..Len(q) /\ p = [k \in 1..Len(q) |-> p[k]]
    BY <1>1, <1>2
  <2>2. ASSUME NEW k \in 1..Len(q) PROVE p[k] \in Int
    <3>1. q[k] \in Int
      BY <1>2
    <3>2. CASE k = c
      BY <1>1, <1>2, <3>1, <3>2
    <3>3. CASE k # c
      BY <1>1, <1>2, <3>1, <3>3
    <3> QED
      BY <3>2, <3>3
  <2> QED
    BY <2>1, <2>2
<1>4. p \in Seq(Int) /\ Len(p) = Len(q)
  BY <1>2, <1>3, FunIsSeq
<1> QED
  BY <1>1, <1>4

-----------------------------------------------------------------------------
(* The segment collector.                                                  *)

GCTypeOK ==
  /\ file \subseteq Segments
  /\ pins \in [Segments -> Nat] /\ count \in [Segments -> Seq(Int)]
  /\ reader \in [Readers -> {Resting} \cup
                   [phase : {"pinning", "reading"}, segment : Segments, counter : Nat]]
  /\ marked \in Seq(Segments)
  /\ sweep \in [phase : {"idle", "age", "pins", "delete", "forget"}, pending : Seq(Segments),
                next : Nat \ {0}, remaining : Seq(Segments), collected : Nat]
  /\ fenced \subseteq Readers

\* The readers whose pin of s is complete.
Reading(s) == {r \in Readers : reader[r].phase = "reading" /\ reader[r].segment = s}

\* A segment whose file is there has never lost its counter, and the counter
\* is the number of its readers.
PinsCounted ==
  \A s \in file :
    \/ /\ pins[s] = 0 /\ count[s] = <<>>
       /\ \A r \in Readers : reader[r].phase # "idle" => reader[r].segment # s
    \/ /\ pins[s] = 1 /\ Len(count[s]) = 1 /\ count[s][1] = Cardinality(Reading(s))
       /\ \A r \in Readers : reader[r].phase # "idle" /\ reader[r].segment = s
                             => reader[r].counter = 1

\* What the sweep has in hand: once the fence has let a segment through, no
\* fenced reader has it, and a counter is forgotten after its file.
SweepOK ==
  /\ sweep.phase \in {"pins", "delete", "forget"} => sweep.next <= Len(sweep.pending)
  /\ sweep.phase = "delete" => \A r \in fenced : reader[r].segment # sweep.pending[sweep.next]
  /\ sweep.phase = "forget" => sweep.pending[sweep.next] \notin file

FencedRead == \A r \in fenced : reader[r].phase = "reading"

FenceInv == GCTypeOK /\ PinsCounted /\ SweepOK /\ FencedRead /\ FenceHolds

LEMMA ReadersFinite ==
  ASSUME NEW s
  PROVE  /\ IsFiniteSet(Reading(s)) /\ Cardinality(Reading(s)) \in Nat
         /\ Cardinality(Reading(s)) = 0 <=> Reading(s) = {}
<1>1. IsFiniteSet(Reading(s))
  BY FS_Subset, SegmentGCAssumption DEF Reading
<1> QED
  BY <1>1, FS_CardinalityType, FS_EmptySet

LEMMA FenceInit == ASSUME GCInit PROVE FenceInv
<1>1. GCTypeOK
  BY DEF GCInit, GCTypeOK, Resting, NoSweep
<1>2. PinsCounted
  BY DEF GCInit, PinsCounted, Resting
<1> QED
  BY <1>1, <1>2 DEF GCInit, FenceInv, SweepOK, FencedRead, FenceHolds, NoSweep

LEMMA PinLookupFence ==
  ASSUME FenceInv, NEW r \in Readers, NEW s \in Segments, PinLookup(r, s)
  PROVE  FenceInv'
<1> USE DEF FenceInv
<1>1. /\ reader[r].phase = "idle" /\ r \notin fenced
      /\ UNCHANGED <<file, old, marked, sweep, fenced, late>>
      /\ count' = IF pins[s] = 0 THEN [count EXCEPT ![s] = Append(@, 0)] ELSE count
      /\ pins' = IF pins[s] = 0 THEN [pins EXCEPT ![s] = Len(count[s]) + 1] ELSE pins
      /\ reader' = [reader EXCEPT ![r] = [phase |-> "pinning", segment |-> s, counter |-> pins'[s]]]
  BY DEF PinLookup, FencedRead
<1>2. /\ pins' \in [Segments -> Nat] /\ count' \in [Segments -> Seq(Int)]
      /\ \A t \in Segments : t # s => pins'[t] = pins[t] /\ count'[t] = count[t]
  BY <1>1 DEF GCTypeOK
<1>3. /\ reader'[r].phase = "pinning" /\ reader'[r].segment = s /\ reader'[r].counter = pins'[s]
      /\ \A p \in Readers : p # r => reader'[p] = reader[p]
  BY <1>1 DEF GCTypeOK
<1>4. GCTypeOK'
  <2>1. reader' \in [Readers -> {Resting} \cup
                   [phase : {"pinning", "reading"}, segment : Segments, counter : Nat]]
    BY <1>1, <1>2 DEF GCTypeOK
  <2> QED
    BY <1>1, <1>2, <2>1 DEF GCTypeOK
<1>5. \A t : Reading(t)' = Reading(t)
  BY <1>1, <1>3 DEF Reading
<1>6. PinsCounted'
  <2> SUFFICES ASSUME NEW t \in file
               PROVE  \/ /\ pins'[t] = 0 /\ count'[t] = <<>>
                         /\ \A p \in Readers : reader'[p].phase # "idle" => reader'[p].segment # t
                      \/ /\ pins'[t] = 1 /\ Len(count'[t]) = 1
                         /\ count'[t][1] = Cardinality(Reading(t)')
                         /\ \A p \in Readers : reader'[p].phase # "idle" /\ reader'[p].segment = t
                                               => reader'[p].counter = 1
    BY <1>1 DEF PinsCounted
  <2>0. t \in Segments
    BY DEF GCTypeOK
  <2>1. CASE t # s
    <3>1. pins'[t] = pins[t] /\ count'[t] = count[t] /\ Reading(t)' = Reading(t)
      BY <1>2, <1>5, <2>0, <2>1
    <3>2. \A p \in Readers : reader'[p].segment = t => reader'[p] = reader[p]
      BY <1>3, <2>1
    <3> QED
      BY <3>1, <3>2 DEF PinsCounted
  <2>2. CASE t = s /\ pins[s] = 0
    <3>1. count[s] = <<>> /\ \A p \in Readers : reader[p].phase # "idle" => reader[p].segment # s
      BY <2>2 DEF PinsCounted
    <3>2. pins'[s] = 1 /\ count'[s] = <<0>>
      BY <1>1, <2>2, <3>1 DEF GCTypeOK
    <3>3. Reading(s)' = {}
      BY <1>5, <3>1 DEF Reading
    <3>4. Cardinality(Reading(s)') = 0
      BY <3>3, FS_EmptySet
    <3> QED
      BY <1>3, <2>2, <3>1, <3>2, <3>4
  <2>3. CASE t = s /\ pins[s] # 0
    <3>1. pins' = pins /\ count' = count
      BY <1>1, <2>3
    <3> QED
      BY <1>3, <1>5, <2>3, <3>1 DEF PinsCounted
  <2> QED
    BY <2>1, <2>2, <2>3
<1>7. SweepOK' /\ FencedRead' /\ FenceHolds'
  BY <1>1, <1>3 DEF SweepOK, FencedRead, FenceHolds, GCTypeOK
<1> QED
  BY <1>4, <1>6, <1>7

LEMMA PinAddFence ==
  ASSUME FenceInv, NEW r \in Readers, PinAdd(r)
  PROVE  FenceInv'
<1> USE DEF FenceInv
<1>1. PICK s : s = reader[r].segment
  OBVIOUS
<1>2. PICK c : c = reader[r].counter
  OBVIOUS
<1>3. /\ reader[r].phase = "pinning"
      /\ count' = [count EXCEPT ![s] = [count[s] EXCEPT ![c] = @ + 1]]
      /\ fenced' = IF s \in file /\ ~InHand(s) THEN fenced \cup {r} ELSE fenced
      /\ reader' = [reader EXCEPT ![r] = [reader[r] EXCEPT !.phase = "reading"]]
      /\ UNCHANGED <<file, old, pins, marked, sweep, late>>
  BY <1>1, <1>2 DEF PinAdd
<1>4. /\ s \in Segments /\ c \in Nat /\ count[s] \in Seq(Int)
      /\ reader[r] \in [phase : {"pinning", "reading"}, segment : Segments, counter : Nat]
  BY <1>1, <1>2, <1>3 DEF GCTypeOK, Resting
<1>5. /\ reader'[r] \in [phase : {"pinning", "reading"}, segment : Segments, counter : Nat]
      /\ reader'[r].phase = "reading" /\ reader'[r].segment = s /\ reader'[r].counter = c
      /\ \A p \in Readers : p # r => reader'[p] = reader[p]
  BY <1>1, <1>2, <1>3, <1>4 DEF GCTypeOK
<1>6. /\ count' \in [Segments -> Seq(Int)] /\ count'[s] = [count[s] EXCEPT ![c] = @ + 1]
      /\ Len(count'[s]) = Len(count[s]) /\ \A t \in Segments : t # s => count'[t] = count[t]
  <2>1. PICK q : q = [count[s] EXCEPT ![c] = @ + 1]
    OBVIOUS
  <2>2. q \in Seq(Int) /\ Len(q) = Len(count[s])
    <3>1. 1 \in Int /\ count[s] \in Seq(Int)
      BY <1>4
    <3> QED
      BY <2>1, <3>1, CounterAdd, Zenon
  <2>3. count' = [count EXCEPT ![s] = q]
    BY <1>3, <2>1
  <2> QED
    BY <1>4, <2>1, <2>2, <2>3 DEF GCTypeOK
<1>7. GCTypeOK'
  <2>1. reader' \in [Readers -> {Resting} \cup
                   [phase : {"pinning", "reading"}, segment : Segments, counter : Nat]]
    BY <1>3, <1>5 DEF GCTypeOK
  <2> QED
    BY <1>3, <1>6, <2>1 DEF GCTypeOK
<1>8. /\ Reading(s)' = Reading(s) \cup {r} /\ r \notin Reading(s)
      /\ \A t : t # s => Reading(t)' = Reading(t)
  BY <1>3, <1>5 DEF Reading
<1>9. Cardinality(Reading(s)') = Cardinality(Reading(s)) + 1
  BY <1>8, ReadersFinite, FS_AddElement
<1>10. PinsCounted'
  <2> SUFFICES ASSUME NEW t \in file
               PROVE  \/ /\ pins'[t] = 0 /\ count'[t] = <<>>
                         /\ \A p \in Readers : reader'[p].phase # "idle" => reader'[p].segment # t
                      \/ /\ pins'[t] = 1 /\ Len(count'[t]) = 1
                         /\ count'[t][1] = Cardinality(Reading(t)')
                         /\ \A p \in Readers : reader'[p].phase # "idle" /\ reader'[p].segment = t
                                               => reader'[p].counter = 1
    BY <1>3 DEF PinsCounted
  <2>0. t \in Segments /\ pins' = pins
    BY <1>3 DEF GCTypeOK
  <2>1. CASE t # s
    <3>1. count'[t] = count[t] /\ Reading(t)' = Reading(t)
      BY <1>6, <1>8, <2>0, <2>1
    <3>2. \A p \in Readers : reader'[p].segment = t => reader'[p] = reader[p]
      BY <1>5, <2>1
    <3> QED
      BY <2>0, <3>1, <3>2 DEF PinsCounted
  <2>2. CASE t = s
    <3>1. /\ pins[s] = 1 /\ Len(count[s]) = 1 /\ count[s][1] = Cardinality(Reading(s)) /\ c = 1
          /\ \A p \in Readers : reader[p].phase # "idle" /\ reader[p].segment = s
                                => reader[p].counter = 1
      BY <1>1, <1>2, <1>3, <2>2 DEF PinsCounted
    <3>2. count'[s][1] = Cardinality(Reading(s)) + 1
      BY <1>4, <1>6, <3>1
    <3>3. \A p \in Readers : reader'[p].phase # "idle" /\ reader'[p].segment = s
                             => reader'[p].counter = 1
      BY <1>5, <3>1
    <3> QED
      BY <1>6, <1>9, <2>0, <2>2, <3>1, <3>2, <3>3
  <2> QED
    BY <2>1, <2>2
<1>11. \A p \in fenced' : \/ p \in fenced /\ p # r /\ reader'[p] = reader[p]
                          \/ p = r /\ s \in file /\ ~InHand(s)
  <2>1. r \notin fenced
    BY <1>3 DEF FencedRead
  <2> QED
    BY <1>3, <1>5, <2>1 DEF GCTypeOK
<1>12. SweepOK' /\ FencedRead' /\ FenceHolds'
  <2>1. SweepOK'
    BY <1>3, <1>5, <1>11 DEF SweepOK, InHand, Current
  <2>2. FencedRead' /\ FenceHolds'
    BY <1>3, <1>5, <1>11 DEF FencedRead, FenceHolds
  <2> QED
    BY <2>1, <2>2
<1> QED
  BY <1>7, <1>10, <1>12

LEMMA UnpinFence ==
  ASSUME FenceInv, NEW r \in Readers, Unpin(r)
  PROVE  FenceInv'
<1> USE DEF FenceInv
<1>1. PICK s : s = reader[r].segment
  OBVIOUS
<1>2. /\ reader[r].phase = "reading"
      /\ count' = IF pins[s] = 0 THEN count
                  ELSE [count EXCEPT ![s] = [count[s] EXCEPT ![pins[s]] = @ - 1]]
      /\ fenced' = fenced \ {r} /\ reader' = [reader EXCEPT ![r] = Resting]
      /\ UNCHANGED <<file, old, pins, marked, sweep, late>>
  BY <1>1 DEF Unpin
<1>3. s \in Segments /\ pins[s] \in Nat /\ count[s] \in Seq(Int) /\ Resting.phase = "idle"
  BY <1>1, <1>2 DEF GCTypeOK, Resting
<1>4. reader'[r].phase = "idle" /\ \A p \in Readers : p # r => reader'[p] = reader[p]
  BY <1>2, <1>3 DEF GCTypeOK
<1>5. /\ count' \in [Segments -> Seq(Int)] /\ Len(count'[s]) = Len(count[s])
      /\ pins[s] # 0 => count'[s] = [count[s] EXCEPT ![pins[s]] = @ - 1]
      /\ \A t \in Segments : t # s => count'[t] = count[t]
  <2>1. PICK q : q = [count[s] EXCEPT ![pins[s]] = @ + (-1)]
    OBVIOUS
  <2>2. q \in Seq(Int) /\ Len(q) = Len(count[s])
    <3>1. -1 \in Int /\ count[s] \in Seq(Int)
      BY <1>3
    <3> QED
      BY <2>1, <3>1, CounterAdd, Zenon
  <2>3. q = [count[s] EXCEPT ![pins[s]] = @ - 1]
    <3>1. \A k \in 1..Len(count[s]) : count[s][k] + (-1) = count[s][k] - 1
      BY <1>3
    <3>2. CASE pins[s] \in 1..Len(count[s])
      BY <1>3, <2>1, <3>1, <3>2
    <3>3. CASE pins[s] \notin 1..Len(count[s])
      BY <1>3, <2>1, <3>3
    <3> QED
      BY <3>2, <3>3
  <2>4. count' = IF pins[s] = 0 THEN count ELSE [count EXCEPT ![s] = q]
    BY <1>2, <2>3
  <2> QED
    BY <1>3, <2>2, <2>3, <2>4 DEF GCTypeOK
<1>6. GCTypeOK'
  <2>1. reader' \in [Readers -> {Resting} \cup
                   [phase : {"pinning", "reading"}, segment : Segments, counter : Nat]]
    BY <1>2 DEF GCTypeOK
  <2> QED
    BY <1>2, <1>5, <2>1 DEF GCTypeOK
<1>7. /\ Reading(s)' = Reading(s) \ {r} /\ r \in Reading(s)
      /\ \A t : t # s => Reading(t)' = Reading(t)
  BY <1>1, <1>2, <1>4 DEF Reading
<1>8. Cardinality(Reading(s)') = Cardinality(Reading(s)) - 1
  BY <1>7, ReadersFinite, FS_RemoveElement
<1>9. PinsCounted'
  <2> SUFFICES ASSUME NEW t \in file
               PROVE  \/ /\ pins'[t] = 0 /\ count'[t] = <<>>
                         /\ \A p \in Readers : reader'[p].phase # "idle" => reader'[p].segment # t
                      \/ /\ pins'[t] = 1 /\ Len(count'[t]) = 1
                         /\ count'[t][1] = Cardinality(Reading(t)')
                         /\ \A p \in Readers : reader'[p].phase # "idle" /\ reader'[p].segment = t
                                               => reader'[p].counter = 1
    BY <1>2 DEF PinsCounted
  <2>0. /\ t \in Segments /\ pins' = pins
        /\ \A p \in Readers : reader'[p].phase # "idle" => reader'[p] = reader[p]
    BY <1>2, <1>4 DEF GCTypeOK
  <2>1. CASE t # s
    <3>1. count'[t] = count[t] /\ Reading(t)' = Reading(t)
      BY <1>5, <1>7, <2>0, <2>1
    <3> QED
      BY <2>0, <3>1 DEF PinsCounted
  <2>2. CASE t = s
    <3>1. /\ pins[s] = 1 /\ Len(count[s]) = 1 /\ count[s][1] = Cardinality(Reading(s))
          /\ \A p \in Readers : reader[p].phase # "idle" /\ reader[p].segment = s
                                => reader[p].counter = 1
      BY <1>1, <1>2, <2>2 DEF PinsCounted
    <3>2. count'[s][1] = Cardinality(Reading(s)) - 1
      BY <1>3, <1>5, <3>1
    <3> QED
      BY <1>5, <1>8, <2>0, <2>2, <3>1, <3>2
  <2> QED
    BY <2>1, <2>2
<1>10. \A p \in fenced' : p \in fenced /\ reader'[p] = reader[p]
  BY <1>2, <1>4 DEF GCTypeOK
<1>11. SweepOK' /\ FencedRead' /\ FenceHolds'
  BY <1>2, <1>10 DEF SweepOK, FencedRead, FenceHolds
<1> QED
  BY <1>6, <1>9, <1>11

\* A step of the collector: readers and counters stay, files may go, and a
\* counter is forgotten only of a segment whose file is gone.
LEMMA ReadersStay ==
  ASSUME FenceInv, UNCHANGED <<count, reader, fenced>>, file' \subseteq file,
         \A s \in file' : pins'[s] = pins[s]
  PROVE  PinsCounted' /\ FencedRead'
<1>1. \A s : Reading(s)' = Reading(s)
  BY DEF Reading
<1> QED
  BY <1>1 DEF FenceInv, PinsCounted, FencedRead

SweepType == [phase : {"idle", "age", "pins", "delete", "forget"}, pending : Seq(Segments),
              next : Nat \ {0}, remaining : Seq(Segments), collected : Nat]

\* What a sweep does with the segment it looks at.
LEMMA KeepIs ==
  ASSUME sweep \in SweepType, sweep.next <= Len(sweep.pending)
  PROVE  /\ Keep \in SweepType /\ Keep.phase = "age" /\ Keep.next = sweep.next + 1
         /\ Keep.remaining = Append(sweep.remaining, sweep.pending[sweep.next])
         /\ Keep.pending = sweep.pending /\ Keep.collected = sweep.collected
<1>1. sweep.pending[sweep.next] \in Segments
  BY DEF SweepType
<1>2. Append(sweep.remaining, sweep.pending[sweep.next]) \in Seq(Segments) /\ sweep.next + 1 \in Nat \ {0}
  BY <1>1 DEF SweepType
<1> QED
  BY <1>2 DEF SweepType, Keep, Current

\* The cases of a step of the running sweep.
LEMMA SweepCases ==
  ASSUME FenceInv, SweepAge \/ SweepPins \/ SweepDelete \/ SweepForget
  PROVE  /\ UNCHANGED <<old, count, reader, marked, fenced, late>>
         /\ sweep.next <= Len(sweep.pending) /\ sweep.phase # "idle"
         /\ file' \subseteq file /\ pins' \in [Segments -> Nat]
         /\ \A s \in file : pins'[s] = pins[s]
         /\ sweep' \in SweepType /\ sweep'.phase # "idle" /\ sweep'.pending = sweep.pending
         /\ \/ /\ sweep' = Keep /\ file' = file
            \/ /\ sweep'.phase = "pins" /\ file' = file /\ sweep'.next = sweep.next
               /\ sweep'.remaining = sweep.remaining /\ sweep'.collected = sweep.collected
            \/ /\ sweep.phase = "pins" /\ sweep'.phase = "delete" /\ file' = file
               /\ ~(PinCount(sweep.pending[sweep.next]) > 0) /\ sweep'.next = sweep.next
               /\ sweep'.remaining = sweep.remaining /\ sweep'.collected = sweep.collected
            \/ /\ sweep'.phase = "forget" /\ file' = file \ {sweep.pending[sweep.next]}
               /\ sweep.phase = "delete" /\ sweep'.next = sweep.next
               /\ sweep'.remaining = sweep.remaining /\ sweep'.collected = sweep.collected
            \/ /\ sweep'.phase = "age" /\ file' = file /\ sweep'.next = sweep.next + 1
               /\ sweep.pending[sweep.next] \notin file
               /\ sweep'.remaining = sweep.remaining /\ sweep'.collected = sweep.collected + 1
<1>1. PICK w : w = sweep
  OBVIOUS
<1>2. w \in SweepType
  BY <1>1 DEF FenceInv, GCTypeOK, SweepType
<1>3. pins \in [Segments -> Nat]
  BY DEF FenceInv, GCTypeOK
<1>4. CASE SweepAge
  <2>1. /\ w.phase = "age" /\ w.next <= Len(w.pending)
        /\ sweep' = Keep \/ sweep' = [w EXCEPT !.phase = "pins"]
        /\ UNCHANGED <<file, old, pins, count, reader, marked, fenced, late>>
    BY <1>1, <1>2, <1>4 DEF SweepAge, Scanned, SweepType
  <2> QED
    BY <1>1, <1>2, <1>3, <2>1, KeepIs DEF SweepType
<1>5. CASE SweepPins
  <2>1. /\ w.phase = "pins" /\ w.next <= Len(w.pending)
        /\ \/ sweep' = Keep
           \/ sweep' = [w EXCEPT !.phase = "delete"] /\ ~(PinCount(w.pending[w.next]) > 0)
        /\ UNCHANGED <<file, old, pins, count, reader, marked, fenced, late>>
    BY <1>1, <1>5 DEF SweepPins, Current, FenceInv, SweepOK
  <2> QED
    BY <1>1, <1>2, <1>3, <2>1, KeepIs DEF SweepType
<1>6. CASE SweepDelete
  <2>1. /\ w.phase = "delete" /\ w.next <= Len(w.pending)
        /\ \/ sweep' = Keep /\ file' = file
           \/ sweep' = [w EXCEPT !.phase = "forget"] /\ file' = file \ {w.pending[w.next]}
        /\ UNCHANGED <<old, pins, count, reader, marked, fenced, late>>
    BY <1>1, <1>6 DEF SweepDelete, Current, FenceInv, SweepOK
  <2> QED
    BY <1>1, <1>2, <1>3, <2>1, KeepIs DEF SweepType
<1>7. CASE SweepForget
  <2>1. /\ w.phase = "forget" /\ w.next <= Len(w.pending) /\ w.pending[w.next] \notin file
        /\ sweep' = [w EXCEPT !.phase = "age", !.next = @ + 1, !.collected = @ + 1]
        /\ pins' = [pins EXCEPT ![w.pending[w.next]] = 0]
        /\ UNCHANGED <<file, old, count, reader, marked, fenced, late>>
    BY <1>1, <1>7 DEF SweepForget, Current, FenceInv, SweepOK
  <2>2. w.pending[w.next] \in Segments /\ file \subseteq Segments
    BY <1>2, <2>1 DEF SweepType, FenceInv, GCTypeOK
  <2>3. pins' \in [Segments -> Nat] /\ \A s \in file : pins'[s] = pins[s]
    BY <1>3, <2>1, <2>2
  <2>4. /\ sweep' \in SweepType /\ sweep'.phase = "age" /\ sweep'.next = w.next + 1
        /\ sweep'.remaining = w.remaining /\ sweep'.collected = w.collected + 1
        /\ sweep'.pending = w.pending
    <3>1. PICK n, c : n = w.next + 1 /\ c = w.collected + 1
      OBVIOUS
    <3>2. n \in Nat \ {0} /\ c \in Nat
      BY <1>2, <3>1 DEF SweepType
    <3>3. sweep' = [w EXCEPT !.phase = "age", !.next = n, !.collected = c]
      BY <2>1, <3>1
    <3> QED
      BY <1>2, <3>1, <3>2, <3>3 DEF SweepType
  <2> QED
    BY <1>1, <2>1, <2>3, <2>4
<1> QED
  BY <1>4, <1>5, <1>6, <1>7

LEMMA SweepFence ==
  ASSUME FenceInv,
         SweepAge \/ SweepPins \/ SweepDelete \/ SweepForget
  PROVE  FenceInv'
<1>1. PICK x : x = sweep.pending[sweep.next]
  OBVIOUS
<1>2. PinsCounted' /\ FencedRead'
  BY SweepCases, ReadersStay
<1>3. GCTypeOK'
  BY SweepCases DEF FenceInv, GCTypeOK, SweepType
<1>4. FenceHolds'
  <2>1. CASE file' = file
    BY <2>1, SweepCases DEF FenceInv, FenceHolds
  <2>2. CASE sweep.phase = "delete" /\ file' = file \ {x}
    <3>1. \A r \in fenced : reader[r].segment # x
      BY <1>1, <2>2 DEF FenceInv, SweepOK
    <3> QED
      BY <2>2, <3>1, SweepCases DEF FenceInv, FenceHolds
  <2> QED
    BY <1>1, <2>1, <2>2, SweepCases
<1>5. sweep.phase = "pins" /\ ~(PinCount(x) > 0) => \A r \in fenced : reader[r].segment # x
  <2> SUFFICES ASSUME ~(PinCount(x) > 0), NEW r \in fenced, reader[r].segment = x
               PROVE  FALSE
    OBVIOUS
  <2>1. x \in file /\ r \in Reading(x) /\ r \in Readers /\ reader[r].phase = "reading"
    BY DEF FenceInv, FencedRead, FenceHolds, Reading, GCTypeOK
  <2>2. pins[x] = 1 /\ count[x][1] = Cardinality(Reading(x))
    BY <2>1 DEF FenceInv, PinsCounted
  <2>3. Cardinality(Reading(x)) \in Nat /\ Cardinality(Reading(x)) # 0
    BY <2>1, ReadersFinite
  <2> QED
    BY <2>2, <2>3 DEF PinCount
<1>6. SweepOK'
  <2>1. sweep'.phase \in {"pins", "delete", "forget"} =>
          sweep'.next = sweep.next /\ sweep'.pending = sweep.pending
    BY SweepCases, KeepIs DEF FenceInv, GCTypeOK, SweepType
  <2>2. sweep'.phase = "delete" => \A r \in fenced : reader[r].segment # x
    BY <1>1, <1>5, SweepCases, KeepIs DEF FenceInv, GCTypeOK, SweepType
  <2>3. sweep'.phase = "forget" => x \notin file'
    BY <1>1, SweepCases, KeepIs DEF FenceInv, GCTypeOK, SweepType
  <2> QED
    BY <1>1, <2>1, <2>2, <2>3, SweepCases DEF SweepOK
<1> QED
  BY <1>2, <1>3, <1>4, <1>6 DEF FenceInv

\* The steps that begin and end a sweep, and the marks and the clock.
LEMMA ListFence ==
  ASSUME FenceInv, marked' \in Seq(Segments), UNCHANGED <<file, pins, count, reader, fenced>>,
         \/ sweep' = sweep
         \/ sweep' = NoSweep
         \/ sweep' = [NoSweep EXCEPT !.phase = "age", !.pending = marked]
  PROVE  FenceInv'
<1>1. PinsCounted' /\ FencedRead'
  BY ReadersStay
<1>2. marked \in Seq(Segments) /\ sweep \in SweepType
  BY DEF FenceInv, GCTypeOK, SweepType
<1>3. sweep' \in SweepType /\ (sweep' = sweep \/ sweep'.phase \in {"idle", "age"})
  <2>1. NoSweep \in SweepType /\ NoSweep.phase = "idle"
    BY DEF NoSweep, SweepType
  <2>2. PICK w : w = [NoSweep EXCEPT !.phase = "age", !.pending = marked]
    OBVIOUS
  <2>3. w \in SweepType /\ w.phase = "age"
    BY <1>2, <2>1, <2>2 DEF SweepType
  <2> QED
    BY <1>2, <2>1, <2>2, <2>3
<1>4. GCTypeOK'
  BY <1>3 DEF FenceInv, GCTypeOK, SweepType
<1>5. SweepOK'
  BY <1>3 DEF FenceInv, SweepOK
<1> QED
  BY <1>1, <1>4, <1>5 DEF FenceInv, FenceHolds

\* The list after a step that may change it is a list of segments.
LEMMA ListType ==
  ASSUME FenceInv
  PROVE  /\ \A s \in Segments : Mark(s) => marked' = Append(marked, s)
         /\ \A s \in Segments : Mark(s) => marked' \in Seq(Segments)
         /\ SweepCancel \/ SweepEnd => marked' \in Seq(Segments)
<1>1. marked \in Seq(Segments) /\ sweep.pending \in Seq(Segments) /\ sweep.remaining \in Seq(Segments)
      /\ sweep.collected \in Nat
  BY DEF FenceInv, GCTypeOK
<1>2. \A s \in Segments : Mark(s) => marked' = Append(marked, s) /\ marked' \in Seq(Segments)
  BY <1>1 DEF Mark
<1>3. SweepEnd => marked' \in Seq(Segments)
  BY <1>1 DEF SweepEnd
<1>4. ASSUME SweepCancel PROVE marked' \in Seq(Segments)
  <2>1. PICK q : q = SubSeq(sweep.pending, sweep.collected + 1, Len(sweep.pending))
    OBVIOUS
  <2>2. q \in Seq(Segments)
    BY <1>1, <2>1
  <2>3. marked' = sweep.remaining \o q
    BY <1>4, <2>1 DEF SweepCancel
  <2> QED
    BY <1>1, <2>2, <2>3
<1> QED
  BY <1>2, <1>3, <1>4

LEMMA FenceStep ==
  ASSUME FenceInv, [GCNext]_gcVars
  PROVE  FenceInv'
<1>1. CASE UNCHANGED gcVars
  BY <1>1, ListFence DEF gcVars, FenceInv, GCTypeOK
<1>2. ASSUME NEW r \in Readers, PinAdd(r) PROVE FenceInv'
  BY <1>2, PinAddFence
<1>3. ASSUME NEW r \in Readers, Unpin(r) PROVE FenceInv'
  BY <1>3, UnpinFence
<1>4. ASSUME NEW r \in Readers, NEW s \in Segments, PinLookup(r, s) PROVE FenceInv'
  BY <1>4, PinLookupFence
<1>5. ASSUME NEW s \in Segments, Mark(s) \/ Age(s) PROVE FenceInv'
  <2>1. marked' \in Seq(Segments)
    BY <1>5, ListType DEF Age, FenceInv, GCTypeOK
  <2> QED
    BY <1>5, <2>1, ListFence DEF Mark, Age
<1>6. CASE SweepBegin
  BY <1>6, ListFence DEF SweepBegin, FenceInv, GCTypeOK
<1>7. CASE SweepAge \/ SweepPins \/ SweepDelete \/ SweepForget
  BY <1>7, SweepFence
<1>8. CASE SweepCancel \/ SweepEnd
  <2>1. marked' \in Seq(Segments)
    BY <1>8, ListType
  <2> QED
    BY <1>8, <2>1, ListFence DEF SweepCancel, SweepEnd
<1> QED
  BY <1>1, <1>2, <1>3, <1>4, <1>5, <1>6, <1>7, <1>8 DEF GCNext

\* FenceHolds: a reader whose pin is complete before the sweep looks at its
\* segment keeps the file until it unpins, over any number of segments and
\* readers (Pin, Unpin, Sweep).
THEOREM FenceHeld == GCSpec => []FenceHolds
<1>1. GCInit => FenceInv
  BY FenceInit
<1>2. FenceInv /\ [GCNext]_gcVars => FenceInv'
  BY FenceStep
<1>3. FenceInv => FenceHolds
  BY DEF FenceInv
<1> QED
  BY <1>1, <1>2, <1>3, PTL DEF GCSpec

\* s is one of the list q.
On(s, q) == \E k \in 1..Len(q) : q[k] = s

LEMMA OnRange ==
  ASSUME NEW S, NEW q \in Seq(S), NEW s
  PROVE  s \in Range(q) <=> On(s, q)
BY DEF Range, On

LEMMA OnAppend ==
  ASSUME NEW S, NEW q \in Seq(S), NEW x \in S, NEW s
  PROVE  On(s, Append(q, x)) <=> On(s, q) \/ s = x
<1>1. PICK p : p = Append(q, x)
  OBVIOUS
<1>2. /\ Len(q) \in Nat /\ Len(p) = Len(q) + 1 /\ p[Len(q) + 1] = x
      /\ \A k \in 1..Len(q) : p[k] = q[k]
  BY <1>1
<1>3. /\ \A k \in 1..Len(p) : k \in 1..Len(q) \/ k = Len(q) + 1
      /\ \A k \in 1..Len(q) : k \in 1..Len(p)
      /\ Len(q) + 1 \in 1..Len(p)
  BY <1>2
<1> QED
  BY <1>1, <1>2, <1>3 DEF On

\* What a cancelled sweep puts back: the ones it kept and the pending ones
\* from a position on.
LEMMA OnRest ==
  ASSUME NEW S, NEW q \in Seq(S), NEW p \in Seq(S), NEW n \in Nat, NEW s,
         On(s, q) \/ \E k \in 1..Len(p) : k > n /\ p[k] = s
  PROVE  On(s, q \o SubSeq(p, n + 1, Len(p)))
<1>1. PICK t : t = SubSeq(p, n + 1, Len(p))
  OBVIOUS
<1>2. PICK u : u = q \o t
  OBVIOUS
<1>3. /\ Len(q) \in Nat /\ Len(p) \in Nat /\ t \in Seq(S) /\ Len(t) \in Nat
  BY <1>1
<1>4. /\ Len(u) = Len(q) + Len(t) /\ \A k \in 1..Len(q) : k \in 1..Len(u) /\ u[k] = q[k]
      /\ \A k \in 1..Len(t) : Len(q) + k \in 1..Len(u) /\ u[Len(q) + k] = t[k]
  BY <1>2, <1>3
<1>5. CASE On(s, q)
  BY <1>1, <1>2, <1>4, <1>5 DEF On
<1>6. CASE \E k \in 1..Len(p) : k > n /\ p[k] = s
  <2>1. PICK k \in 1..Len(p) : k > n /\ p[k] = s
    BY <1>6
  <2>2. Len(t) = Len(p) - n /\ k - n \in 1..Len(t)
    BY <1>1, <1>3, <2>1
  <2>3. t[k - n] = p[(k - n) + (n + 1) - 1]
    BY <1>1, <1>3, <2>1, <2>2
  <2>4. t[k - n] = s
    BY <1>3, <2>1, <2>3
  <2> QED
    BY <1>1, <1>2, <1>4, <2>2, <2>4 DEF On
<1> QED
  BY <1>5, <1>6

\* The segments that have to be on the list.
Due == (file \cap old) \ late

\* During a sweep all that is due is pending, and what the sweep has passed was
\* kept or is gone; the count of deleted ones never runs ahead of it.
MarksKept ==
  IF sweep.phase = "idle" THEN \A s \in Due : On(s, marked)
  ELSE /\ \A s : s \notin late /\ On(s, marked) => On(s, sweep.pending)
       /\ \A s \in Due : On(s, sweep.pending)
       /\ \A k \in 1..Len(sweep.pending) : k < sweep.next =>
            On(sweep.pending[k], sweep.remaining) \/ sweep.pending[k] \notin file
       /\ sweep.collected < sweep.next

MarkInv == FenceInv /\ MarksKept

LEMMA MarkInit == ASSUME GCInit PROVE MarkInv
BY FenceInit DEF MarkInv, MarksKept, Due, GCInit, NoSweep

LEMMA MarkStep ==
  ASSUME MarkInv, [GCNext]_gcVars
  PROVE  MarkInv'
<1>0. FenceInv /\ FenceInv' /\ MarksKept
  BY FenceStep DEF MarkInv
<1> SUFFICES MarksKept'
  BY <1>0 DEF MarkInv
<1>1. /\ marked \in Seq(Segments) /\ sweep \in SweepType /\ sweep.pending \in Seq(Segments)
      /\ sweep.remaining \in Seq(Segments) /\ sweep.collected \in Nat /\ sweep.next \in Nat
  BY <1>0 DEF FenceInv, GCTypeOK, SweepType
<1>2. CASE UNCHANGED <<file, old, marked, sweep, late>>
  BY <1>0, <1>2 DEF MarksKept, Due
<1>3. ASSUME NEW s \in Segments, Mark(s) PROVE MarksKept'
  <2>1. /\ marked' = Append(marked, s) /\ UNCHANGED <<file, old, sweep>>
        /\ late' = IF sweep.phase # "idle" /\ ~On(s, sweep.pending) THEN late \cup {s}
                                                                   ELSE late \ {s}
    BY <1>1, <1>3, OnRange DEF Mark, Sweeping
  <2>2. \A t : On(t, marked') <=> On(t, marked) \/ t = s
    BY <1>1, <2>1, OnAppend
  <2> QED
    BY <1>0, <2>1, <2>2 DEF MarksKept, Due
<1>4. ASSUME NEW s \in Segments, Age(s) PROVE MarksKept'
  <2>1. /\ On(s, marked) /\ old' = old \cup {s} /\ UNCHANGED <<file, marked, sweep, late>>
    BY <1>1, <1>4, OnRange DEF Age
  <2> QED
    BY <1>0, <2>1 DEF MarksKept, Due
<1>5. CASE SweepBegin
  <2>1. /\ sweep.phase = "idle" /\ sweep'.phase = "age" /\ sweep'.pending = marked
        /\ sweep'.next = 1 /\ sweep'.collected = 0
        /\ UNCHANGED <<file, old, marked, late>>
    BY <1>5 DEF SweepBegin, NoSweep
  <2>2. \A k \in 1..Len(marked) : ~(k < 1)
    BY <1>1
  <2> QED
    BY <1>0, <2>1, <2>2 DEF MarksKept, Due
<1>6. CASE SweepAge \/ SweepPins \/ SweepDelete \/ SweepForget
  <2>1. /\ UNCHANGED <<old, marked, late>> /\ sweep.phase # "idle" /\ sweep'.phase # "idle"
        /\ file' \subseteq file /\ sweep'.pending = sweep.pending
        /\ sweep.next <= Len(sweep.pending)
    BY <1>0, <1>6, SweepCases
  <2>2. \/ /\ sweep'.next = sweep.next + 1
           /\ sweep'.remaining = Append(sweep.remaining, sweep.pending[sweep.next])
           /\ sweep'.collected = sweep.collected
        \/ /\ sweep'.next = sweep.next /\ sweep'.remaining = sweep.remaining
           /\ sweep'.collected = sweep.collected
        \/ /\ sweep'.next = sweep.next + 1 /\ sweep'.remaining = sweep.remaining
           /\ sweep.pending[sweep.next] \notin file /\ sweep'.collected = sweep.collected + 1
    BY <1>0, <1>1, <1>6, SweepCases, KeepIs
  <2>3. sweep'.collected < sweep'.next
    BY <1>0, <1>1, <2>1, <2>2 DEF MarksKept
  <2>4. ASSUME NEW k \in 1..Len(sweep.pending), k < sweep'.next
        PROVE  On(sweep.pending[k], sweep'.remaining) \/ sweep.pending[k] \notin file
    <3>1. k < sweep.next \/ (k = sweep.next /\ sweep'.next = sweep.next + 1)
      BY <1>1, <2>2, <2>4
    <3>2. sweep.pending[sweep.next] \in Segments
      BY <1>1, <2>1, <3>1
    <3>3. \A t : On(t, Append(sweep.remaining, sweep.pending[sweep.next]))
                 <=> On(t, sweep.remaining) \/ t = sweep.pending[sweep.next]
      BY <1>1, <3>2, OnAppend
    <3>4. CASE k < sweep.next
      <4>1. On(sweep.pending[k], sweep.remaining) \/ sweep.pending[k] \notin file
        BY <1>0, <2>1, <3>4 DEF MarksKept
      <4>2. On(sweep.pending[k], sweep.remaining) => On(sweep.pending[k], sweep'.remaining)
        BY <2>2, <3>3
      <4> QED
        BY <4>1, <4>2
    <3>5. CASE k = sweep.next /\ sweep'.next = sweep.next + 1
      <4>1. sweep'.next # sweep.next
        BY <1>1, <3>5
      <4>2. \/ sweep'.remaining = Append(sweep.remaining, sweep.pending[sweep.next])
            \/ sweep.pending[sweep.next] \notin file
        BY <2>2, <4>1
      <4> QED
        BY <3>3, <3>5, <4>2
    <3> QED
      BY <3>1, <3>4, <3>5
  <2>5. Due' \subseteq Due
    BY <2>1 DEF Due
  <2> QED
    BY <1>0, <2>1, <2>3, <2>4, <2>5 DEF MarksKept
<1>7. CASE SweepEnd
  <2>1. /\ sweep.phase = "age" /\ sweep'.phase = "idle" /\ marked' = sweep.remaining
        /\ sweep.next > Len(sweep.pending) /\ UNCHANGED <<file, old, late>>
    BY <1>7 DEF SweepEnd, NoSweep, Scanned
  <2>2. ASSUME NEW s \in Due PROVE On(s, sweep.remaining)
    <3>1. PICK k \in 1..Len(sweep.pending) : sweep.pending[k] = s
      BY <1>0, <2>1 DEF MarksKept, On
    <3>2. k < sweep.next
      BY <1>1, <2>1
    <3> QED
      BY <1>0, <2>1, <3>1, <3>2 DEF MarksKept, Due
  <2> QED
    BY <2>1, <2>2 DEF MarksKept, Due
<1>8. CASE SweepCancel
  <2>1. /\ sweep.phase = "age" /\ sweep'.phase = "idle" /\ UNCHANGED <<file, old, late>>
        /\ marked' = sweep.remaining \o SubSeq(sweep.pending, sweep.collected + 1, Len(sweep.pending))
    BY <1>8 DEF SweepCancel, NoSweep
  <2>2. ASSUME NEW s \in Due PROVE On(s, marked')
    <3>1. PICK k \in 1..Len(sweep.pending) : sweep.pending[k] = s
      BY <1>0, <2>1 DEF MarksKept, On
    <3>2. k < sweep.next \/ k > sweep.collected
      BY <1>0, <1>1, <2>1 DEF MarksKept
    <3>3. On(s, sweep.remaining) \/ \E l \in 1..Len(sweep.pending) : l > sweep.collected /\ sweep.pending[l] = s
      BY <1>0, <2>1, <3>1, <3>2 DEF MarksKept, Due
    <3> QED
      BY <1>1, <2>1, <3>3, OnRest
  <2> QED
    BY <2>1, <2>2 DEF MarksKept, Due
<1> QED
  BY <1>2, <1>3, <1>4, <1>5, <1>6, <1>7, <1>8
     DEF GCNext, gcVars, PinAdd, Unpin, PinLookup

\* StillMarked: a segment marked between sweeps stays on the list while its
\* file is there, over cancelled sweeps and failed deletes of any length of
\* list (Sweep).
THEOREM MarksNotLost == GCSpec => []StillMarked
<1>1. GCInit => MarkInv
  BY MarkInit
<1>2. MarkInv /\ [GCNext]_gcVars => MarkInv'
  BY MarkStep
<1>3. MarkInv => StillMarked
  <2>1. MarkInv => marked \in Seq(Segments)
    BY DEF MarkInv, FenceInv, GCTypeOK
  <2> QED
    BY <2>1, OnRange DEF MarkInv, MarksKept, Due, StillMarked, Sweeping
<1> QED
  BY <1>1, <1>2, <1>3, PTL DEF GCSpec

-----------------------------------------------------------------------------
(* The SPANN index.                                                        *)

\* The postings the index holds, in the buffer or in a list.
Held(p) == p \in dirtyBuf \/ \E c \in Cents : p \in lists[c]

Navs == [graph : SUBSET Cents, flight : SUBSET Cents, buffer : SUBSET Cents]

SpannTypeOK ==
  /\ dirtyBuf \subseteq Posting /\ IsFiniteSet(dirtyBuf)
  /\ lists \in [Cents -> SUBSET Posting] /\ IsFiniteSet(Stored)
  /\ idToCentroid \in [Ids -> {None} \cup 0..NumCents]
  /\ deleted \subseteq Ids /\ given \in [Ids -> Vectors \cup {None}]
  /\ nav \in Navs

\* Without a committed rebuild there is the buffer alone.
StoreOK ==
  /\ built => store = "open"
  /\ ~built => store = "none" /\ (\A c \in Cents : lists[c] = {})
                 /\ \A x \in Ids : idToCentroid[x] = None

\* idToCentroid says where a posting is, and that it is there.
PlacesOK ==
  /\ \A p, q \in dirtyBuf : p.id = q.id => p = q
  /\ \A c \in Cents : \A p, q \in lists[c] : p.id = q.id => p = q
  /\ built => \A p \in dirtyBuf : idToCentroid[p.id] = 0
  /\ \A c \in Cents : \A p \in lists[c] : idToCentroid[p.id] = c
  /\ \A x \in Ids : idToCentroid[x] = 0 => \E p \in dirtyBuf : p.id = x
  /\ \A x \in Ids : idToCentroid[x] \in Cents => \E p \in lists[idToCentroid[x]] : p.id = x

\* The index holds what was given, and the soft-deleted ids beside it.
GivenOK ==
  /\ \A x \in deleted : given[x] = None /\ \E p : Held(p) /\ p.id = x
  /\ \A p : Held(p) /\ p.id \notin deleted => given[p.id] = p.vector
  /\ \A x \in Ids : given[x] # None => Held([id |-> x, vector |-> given[x]])

\* Every posting list that is not empty has its centroid somewhere in the
\* centroid index.
NavOK == \A c \in Cents : lists[c] # {} => c \in nav.graph \cup nav.flight \cup nav.buffer

SpannInv ==
  SpannTypeOK /\ (Intact => StoreOK /\ PlacesOK /\ GivenOK /\ NavOK)

LEMMA SpannNone ==
  /\ NumCents \in Nat \ {0} /\ None \notin Vectors /\ None # 0 /\ None \notin Cents
  /\ 0 \notin Cents
BY SpannAssumption DEF Cents

\* A new index.
LEMMA SpannEmpty ==
  ASSUME dirtyBuf = {}, store = "none", lists = NoLists,
         idToCentroid = [x \in Ids |-> None], deleted = {}, built = FALSE,
         nav = [graph |-> {}, flight |-> {}, buffer |-> {}], given = [x \in Ids |-> None]
  PROVE  SpannInv
<1> USE SpannNone
<1>1. lists = [c \in Cents |-> {}] /\ \A c \in Cents : lists[c] = {}
  BY DEF NoLists
<1>2. Stored = {}
  BY <1>1 DEF Stored
<1>3. SpannTypeOK
  BY <1>1, <1>2, FS_EmptySet DEF SpannTypeOK, Navs
<1>4. StoreOK /\ PlacesOK /\ NavOK
  BY <1>1 DEF StoreOK, PlacesOK, NavOK
<1>5. GivenOK
  BY <1>1 DEF GivenOK, Held
<1> QED
  BY <1>3, <1>4, <1>5 DEF SpannInv

\* Nothing is known that is not held.
LEMMA KnownHeld ==
  ASSUME SpannInv, Intact, NEW x \in Ids
  PROVE  /\ Known(x) <=> \E p : Held(p) /\ p.id = x
         /\ \A p, q : Held(p) /\ Held(q) /\ p.id = q.id => p = q
<1> USE SpannNone
<1>1. SpannTypeOK /\ StoreOK /\ PlacesOK /\ GivenOK
  BY DEF SpannInv
<1>2. ASSUME Known(x) PROVE \E p : Held(p) /\ p.id = x
  <2>1. CASE \E p \in dirtyBuf : p.id = x
    BY <2>1 DEF Held
  <2>2. CASE idToCentroid[x] # None
    <3>1. idToCentroid[x] = 0 \/ idToCentroid[x] \in Cents
      BY <1>1, <2>2 DEF SpannTypeOK, Cents
    <3> QED
      BY <1>1, <3>1 DEF PlacesOK, Held
  <2> QED
    BY <1>2, <2>1, <2>2 DEF Known, IdsIn
<1>3. ASSUME NEW p, Held(p), p.id = x PROVE Known(x)
  <2>1. CASE p \in dirtyBuf
    BY <1>3, <2>1 DEF Known, IdsIn
  <2>2. CASE \E c \in Cents : p \in lists[c]
    BY <1>1, <1>3, <2>2 DEF PlacesOK, Known
  <2> QED
    BY <1>3, <2>1, <2>2 DEF Held
<1>4. ASSUME NEW p, NEW q, Held(p), Held(q), p.id = q.id PROVE p = q
  <2>1. CASE p \in dirtyBuf /\ q \in dirtyBuf
    BY <1>1, <1>4, <2>1 DEF PlacesOK
  <2>2. ASSUME NEW c \in Cents, NEW d \in Cents, p \in lists[c], q \in lists[d] PROVE p = q
    <3>1. c = d
      BY <1>1, <1>4, <2>2 DEF PlacesOK
    <3> QED
      BY <1>1, <1>4, <2>2, <3>1 DEF PlacesOK
  <2>3. ASSUME NEW u \in dirtyBuf, NEW c \in Cents, NEW w \in lists[c], u.id = w.id PROVE FALSE
    BY <1>1, <2>3 DEF PlacesOK, StoreOK
  <2> QED
    BY <1>4, <2>1, <2>2, <2>3 DEF Held
<1> QED
  BY <1>2, <1>3, <1>4

LEMMA SpannInsertKeeps ==
  ASSUME SpannInv, NEW x \in Ids, NEW v \in Vectors, SpannInsert(x, v)
  PROVE  SpannInv'
<1> USE SpannNone
<1>1. PICK e : e = [id |-> x, vector |-> v]
  OBVIOUS
<1>2. /\ ~Known(x) /\ dirtyBuf' = dirtyBuf \cup {e} /\ given' = [given EXCEPT ![x] = v]
      /\ idToCentroid' = IF built THEN [idToCentroid EXCEPT ![x] = 0] ELSE idToCentroid
      /\ UNCHANGED <<store, lists, deleted, built, nav, diskFull, dropped>>
  BY <1>1 DEF SpannInsert, Buffered
<1>3. SpannTypeOK /\ e \in Posting /\ e.id = x /\ e.vector = v
  BY <1>1 DEF SpannInv, Posting
<1>4. SpannTypeOK'
  <2>1. IsFiniteSet(dirtyBuf') /\ dirtyBuf' \subseteq Posting
    BY <1>2, <1>3, FS_AddElement DEF SpannTypeOK
  <2>2. Stored' = Stored
    BY <1>2 DEF Stored
  <2>3. idToCentroid' \in [Ids -> {None} \cup 0..NumCents]
    BY <1>2, <1>3 DEF SpannTypeOK
  <2>4. given' \in [Ids -> Vectors \cup {None}]
    BY <1>2, <1>3 DEF SpannTypeOK
  <2> QED
    BY <1>2, <1>3, <2>1, <2>2, <2>3, <2>4 DEF SpannTypeOK
<1>5. ASSUME Intact' PROVE StoreOK' /\ PlacesOK' /\ GivenOK' /\ NavOK'
  <2>1. Intact /\ StoreOK /\ PlacesOK /\ GivenOK /\ NavOK
    BY <1>2, <1>5 DEF Intact, SpannInv
  <2>2. ~(\E p : Held(p) /\ p.id = x)
    BY <1>2, <2>1, KnownHeld
  <2>3. x \notin deleted /\ idToCentroid[x] = None
    BY <1>2, <2>1, <2>2 DEF GivenOK, Known
  <2>4. /\ \A p : Held(p)' <=> Held(p) \/ p = e
        /\ \A p : Held(p) => p.id # x /\ p.id \in Ids
    BY <1>2, <1>3, <2>2 DEF Held, SpannTypeOK, Posting
  <2>5. /\ \A y \in Ids : y # x => idToCentroid'[y] = idToCentroid[y] /\ given'[y] = given[y]
        /\ given'[x] = v /\ (built => idToCentroid'[x] = 0) /\ (~built => idToCentroid'[x] = None)
    BY <1>2, <1>3, <2>3 DEF SpannTypeOK
  <2>6. StoreOK' /\ NavOK'
    BY <1>2, <2>1 DEF StoreOK, NavOK
  <2>7. PlacesOK'
    <3>1. \A p \in dirtyBuf : Held(p)
      BY DEF Held
    <3>2. \A c \in Cents : \A p \in lists[c] : Held(p)
      BY DEF Held
    <3>3. \A p, q \in dirtyBuf' : p.id = q.id => p = q
      BY <1>2, <1>3, <2>1, <2>4, <3>1 DEF PlacesOK
    <3>4. built => \A p \in dirtyBuf' : idToCentroid'[p.id] = 0
      BY <1>2, <1>3, <2>1, <2>4, <2>5, <3>1 DEF PlacesOK
    <3>5. \A c \in Cents : \A p \in lists[c] : idToCentroid'[p.id] = c
      BY <2>1, <2>4, <2>5, <3>2 DEF PlacesOK
    <3>6. \A y \in Ids : idToCentroid'[y] = 0 => \E p \in dirtyBuf' : p.id = y
      BY <1>2, <1>3, <2>1, <2>5 DEF PlacesOK
    <3>7. \A y \in Ids : idToCentroid'[y] \in Cents => \E p \in lists[idToCentroid'[y]] : p.id = y
      BY <2>1, <2>3, <2>5 DEF PlacesOK
    <3> QED
      BY <1>2, <2>1, <3>3, <3>4, <3>5, <3>6, <3>7 DEF PlacesOK
  <2>8. GivenOK'
    <3>1. \A y \in deleted : given'[y] = None /\ \E p : Held(p)' /\ p.id = y
      BY <1>3, <2>1, <2>3, <2>4, <2>5 DEF GivenOK, SpannTypeOK
    <3>2. \A p : Held(p)' /\ p.id \notin deleted => given'[p.id] = p.vector
      BY <1>3, <2>1, <2>4, <2>5 DEF GivenOK
    <3>3. ASSUME NEW y \in Ids, given'[y] # None PROVE Held([id |-> y, vector |-> given[y]])'
      BY <1>1, <2>1, <2>4, <2>5, <3>3 DEF GivenOK
    <3> QED
      BY <1>2, <3>1, <3>2, <3>3 DEF GivenOK
  <2> QED
    BY <2>6, <2>7, <2>8
<1> QED
  BY <1>4, <1>5 DEF SpannInv

LEMMA SpannDeleteKeeps ==
  ASSUME SpannInv, NEW x \in Ids, SpannDelete(x)
  PROVE  SpannInv'
<1> USE SpannNone
<1>1. /\ Known(x) /\ deleted' = deleted \cup {x} /\ given' = [given EXCEPT ![x] = None]
      /\ UNCHANGED <<dirtyBuf, store, lists, idToCentroid, built, nav, diskFull, dropped>>
  BY DEF SpannDelete
<1>2. SpannTypeOK
  BY DEF SpannInv
<1>3. SpannTypeOK'
  <2>1. Stored' = Stored
    BY <1>1 DEF Stored
  <2> QED
    BY <1>1, <1>2, <2>1 DEF SpannTypeOK
<1>4. ASSUME Intact' PROVE StoreOK' /\ PlacesOK' /\ GivenOK' /\ NavOK'
  <2>1. Intact /\ StoreOK /\ PlacesOK /\ GivenOK /\ NavOK
    BY <1>1, <1>4 DEF Intact, SpannInv
  <2>2. \E p : Held(p) /\ p.id = x
    BY <1>1, <2>1, KnownHeld
  <2>3. \A p : Held(p)' <=> Held(p)
    BY <1>1 DEF Held
  <2>4. given'[x] = None /\ \A y \in Ids : y # x => given'[y] = given[y]
    BY <1>1, <1>2 DEF SpannTypeOK
  <2>5. \A p : Held(p) => p.id \in Ids
    BY <1>2 DEF Held, SpannTypeOK, Posting
  <2>6. GivenOK'
    <3>1. \A y \in deleted' : given'[y] = None /\ \E p : Held(p)' /\ p.id = y
      BY <1>1, <1>2, <2>1, <2>2, <2>3, <2>4 DEF GivenOK, SpannTypeOK
    <3>2. \A p : Held(p)' /\ p.id \notin deleted' => given'[p.id] = p.vector
      BY <1>1, <2>1, <2>3, <2>4, <2>5 DEF GivenOK
    <3>3. ASSUME NEW y \in Ids, given'[y] # None PROVE Held([id |-> y, vector |-> given[y]])'
      BY <2>1, <2>3, <2>4, <3>3 DEF GivenOK
    <3> QED
      BY <3>1, <3>2, <3>3 DEF GivenOK
  <2> QED
    BY <1>1, <2>1, <2>6 DEF StoreOK, PlacesOK, NavOK
<1> QED
  BY <1>3, <1>4 DEF SpannInv

\* A step that moves centroids from the buffer to the graph, closes the store
\* or fails to rebuild.
LEMMA SpannQuietKeeps ==
  ASSUME SpannInv,
         UNCHANGED <<dirtyBuf, idToCentroid, deleted, built, given, dropped>>,
         lists' \in [Cents -> SUBSET Posting], \A c \in Cents : lists'[c] \subseteq lists[c],
         Intact' => Intact /\ lists' = lists /\ store' = store,
         nav' \in Navs,
         nav'.graph \cup nav'.flight \cup nav'.buffer = nav.graph \cup nav.flight \cup nav.buffer
  PROVE  SpannInv'
<1> USE SpannNone
<1>1. Stored' \subseteq Stored
  BY DEF Stored
<1>2. IsFiniteSet(Stored')
  BY <1>1, FS_Subset DEF SpannInv, SpannTypeOK
<1>3. SpannTypeOK'
  BY <1>2 DEF SpannInv, SpannTypeOK
<1>4. ASSUME Intact' PROVE StoreOK' /\ PlacesOK' /\ GivenOK' /\ NavOK'
  <2>1. lists' = lists /\ store' = store /\ StoreOK /\ PlacesOK /\ GivenOK /\ NavOK
    BY <1>4 DEF SpannInv
  <2>2. \A p : Held(p)' <=> Held(p)
    BY <2>1 DEF Held
  <2>3. GivenOK'
    BY <2>1, <2>2 DEF GivenOK
  <2>4. StoreOK' /\ PlacesOK'
    BY <2>1 DEF StoreOK, PlacesOK
  <2>5. NavOK'
    BY <2>1 DEF NavOK
  <2> QED
    BY <2>3, <2>4, <2>5
<1> QED
  BY <1>3, <1>4 DEF SpannInv

\* The new centroid index has the centroids 1..k, each of them once.
LEMMA NewNavHas ==
  ASSUME NEW k \in Nat, NEW n \in NewNavs(k)
  PROVE  /\ n.graph \cup n.flight \cup n.buffer = 1..k
         /\ k <= NumCents /\ NumCents \in Nat => n \in Navs
<1>1. PICK g \in 0..k : \E f \in g..k :
         n = [graph |-> 1..g, flight |-> (g + 1)..f, buffer |-> (f + 1)..k]
  BY DEF NewNavs
<1>2. PICK f \in g..k : n = [graph |-> 1..g, flight |-> (g + 1)..f, buffer |-> (f + 1)..k]
  BY <1>1
<1>3. n.graph = 1..g /\ n.flight = (g + 1)..f /\ n.buffer = (f + 1)..k
  BY <1>2
<1>4. n.graph \cup n.flight \cup n.buffer = 1..k
  BY <1>3
<1>5. ASSUME k <= NumCents, NumCents \in Nat PROVE n \in Navs
  <2>1. 1..g \subseteq Cents /\ (g + 1)..f \subseteq Cents /\ (f + 1)..k \subseteq Cents
    BY <1>5 DEF Cents
  <2> QED
    BY <1>2, <2>1 DEF Navs
<1> QED
  BY <1>4, <1>5

LEMMA SmallerOf ==
  ASSUME NEW a \in Nat, NEW b \in Nat
  PROVE  Min({a, b}) \in Nat /\ Min({a, b}) <= a
<1>1. \E m \in {a, b} : \A n \in {a, b} : m <= n
  OBVIOUS
<1> QED
  BY <1>1 DEF Min

LEMMA SpannCommitKeeps ==
  ASSUME SpannInv, Rebuild
  PROVE  SpannInv'
<1> USE SpannNone
<1>1. PICK ps : ps = ExportVectors
  OBVIOUS
<1>2. PICK k : k = Min({NumCents, Cardinality(ps)})
  OBVIOUS
<1>3. PICK nearest \in [ps -> 1..k] : Commit(ps, k, nearest) /\ store \in {"none", "open"}
  BY <1>1, <1>2 DEF Rebuild, SpannAssignments
<1>4. SpannTypeOK
  BY DEF SpannInv
<1>5. /\ ps \subseteq dirtyBuf \cup Stored /\ \A p \in ps : Held(p) /\ p.id \notin deleted
      /\ \A p : p \in dirtyBuf /\ p.id \notin deleted => p \in ps
      /\ store = "open" => \A p : Held(p) /\ p.id \notin deleted => p \in ps
  BY <1>1 DEF ExportVectors, Live, Stored, Held
<1>6. IsFiniteSet(ps) /\ ps \subseteq Posting
  <2>1. IsFiniteSet(dirtyBuf \cup Stored)
    BY <1>4, FS_Union DEF SpannTypeOK
  <2> QED
    BY <1>4, <1>5, <2>1, FS_Subset DEF SpannTypeOK, Held
<1>7. k \in Nat /\ k <= NumCents /\ 1..k \subseteq Cents
  <2>1. Cardinality(ps) \in Nat
    BY <1>6, FS_CardinalityType
  <2>2. k \in Nat /\ k <= NumCents
    BY <1>2, <2>1, SmallerOf
  <2> QED
    BY <2>2 DEF Cents
<1>8. /\ lists' = [c \in Cents |-> {p \in ps : ~diskFull /\ nearest[p] = c}]
      /\ nav' \in NewNavs(k) /\ dirtyBuf' = {} /\ deleted' = {} /\ built' = TRUE
      /\ store' = "open" /\ dropped' = (dropped \/ diskFull) /\ given' = given
      /\ idToCentroid' = [x \in Ids |-> IF x \in IdsIn(ps)
                                        THEN nearest[CHOOSE p \in ps : p.id = x] ELSE None]
  BY <1>3 DEF Commit, Written
<1>9. \A c \in Cents : \A p : p \in lists'[c] <=> p \in ps /\ ~diskFull /\ nearest[p] = c
  BY <1>8
<1>10. \A p \in ps : nearest[p] \in Cents /\ nearest[p] \in 1..k
  BY <1>3, <1>7
<1>11. nav'.graph \cup nav'.flight \cup nav'.buffer = 1..k
  BY <1>7, <1>8, NewNavHas
<1>12. SpannTypeOK'
  <2>1. lists' \in [Cents -> SUBSET Posting]
    BY <1>6, <1>8
  <2>2. Stored' \subseteq ps
    BY <1>9 DEF Stored
  <2>3. IsFiniteSet(Stored')
    BY <1>6, <2>2, FS_Subset
  <2>4. idToCentroid' \in [Ids -> {None} \cup 0..NumCents]
    <3> SUFFICES ASSUME NEW x \in Ids, x \in IdsIn(ps)
                 PROVE  nearest[CHOOSE p \in ps : p.id = x] \in 0..NumCents
      BY <1>8
    <3>1. (CHOOSE p \in ps : p.id = x) \in ps
      BY DEF IdsIn
    <3> QED
      BY <1>10, <3>1 DEF Cents
  <2>5. nav' \in Navs
    BY <1>7, <1>8, NewNavHas
  <2> QED
    BY <1>4, <1>8, <2>1, <2>3, <2>4, <2>5, FS_EmptySet DEF SpannTypeOK
<1>13. ASSUME Intact' PROVE StoreOK' /\ PlacesOK' /\ GivenOK' /\ NavOK'
  <2>1. ~diskFull /\ Intact /\ StoreOK /\ PlacesOK /\ GivenOK /\ NavOK
    BY <1>3, <1>8, <1>13 DEF Intact, SpannInv
  <2>2. \A p, q \in ps : p.id = q.id => p = q
    <3>1. \A p \in ps : p.id \in Ids
      BY <1>6 DEF Posting
    <3> QED
      BY <1>5, <2>1, <3>1, KnownHeld
  <2>3. \A p : Held(p) /\ p.id \notin deleted => p \in ps
    BY <1>3, <1>5, <2>1 DEF StoreOK, Held
  <2>4. \A p : Held(p)' <=> p \in ps
    BY <1>8, <1>9, <1>10, <2>1 DEF Held
  <2>5. ASSUME NEW p \in ps PROVE idToCentroid'[p.id] = nearest[p]
    <3>1. p.id \in Ids /\ p.id \in IdsIn(ps)
      BY <1>6 DEF Posting, IdsIn
    <3>2. PICK q : q = CHOOSE z \in ps : z.id = p.id
      OBVIOUS
    <3>3. q \in ps /\ q.id = p.id
      BY <3>2
    <3>4. q = p
      BY <2>2, <3>3
    <3> QED
      BY <1>8, <3>1, <3>2, <3>4
  <2>6. \A x \in Ids : (\A p \in ps : p.id # x) => idToCentroid'[x] = None
    BY <1>8 DEF IdsIn
  <2>7. StoreOK'
    BY <1>8 DEF StoreOK
  <2>8. PlacesOK'
    <3>1. \A c \in Cents : \A p, q \in lists'[c] : p.id = q.id => p = q
      BY <1>9, <2>2
    <3>2. \A c \in Cents : \A p \in lists'[c] : idToCentroid'[p.id] = c
      BY <1>9, <2>5
    <3>3. \A x \in Ids : idToCentroid'[x] # 0
      BY <1>10, <2>5, <2>6
    <3>4. ASSUME NEW x \in Ids, idToCentroid'[x] \in Cents
          PROVE  \E p \in lists'[idToCentroid'[x]] : p.id = x
      <4>1. PICK p \in ps : p.id = x
        BY <2>6, <3>4
      <4>2. p \in lists'[idToCentroid'[x]]
        BY <1>9, <1>10, <2>1, <2>5, <4>1
      <4> QED
        BY <4>1, <4>2
    <3> QED
      BY <1>8, <3>1, <3>2, <3>3, <3>4 DEF PlacesOK
  <2>9. GivenOK'
    <3>1. \A p : Held(p)' => given'[p.id] = p.vector
      BY <1>5, <1>8, <2>1, <2>4 DEF GivenOK
    <3>2. ASSUME NEW x \in Ids, given'[x] # None PROVE Held([id |-> x, vector |-> given[x]])'
      <4>1. PICK p : p = [id |-> x, vector |-> given[x]]
        OBVIOUS
      <4>2. Held(p) /\ p.id = x /\ x \notin deleted
        BY <1>8, <2>1, <3>2, <4>1 DEF GivenOK
      <4> QED
        BY <1>8, <2>3, <2>4, <4>1, <4>2
    <3> QED
      BY <1>8, <3>1, <3>2 DEF GivenOK
  <2>10. NavOK'
    BY <1>9, <1>10, <1>11 DEF NavOK
  <2> QED
    BY <2>7, <2>8, <2>9, <2>10
<1> QED
  BY <1>12, <1>13 DEF SpannInv

LEMMA SpannStep ==
  ASSUME SpannInv, [SpannNext]_spannVars
  PROVE  SpannInv'
<1> USE SpannNone
<1>0. lists \in [Cents -> SUBSET Posting] /\ nav \in Navs
  BY DEF SpannInv, SpannTypeOK
<1>1. CASE UNCHANGED spannVars
  BY <1>0, <1>1, SpannQuietKeeps DEF spannVars, Intact
<1>2. ASSUME NEW x \in Ids, SpannDelete(x) PROVE SpannInv'
  BY <1>2, SpannDeleteKeeps
<1>3. ASSUME NEW x \in Ids, NEW v \in Vectors, SpannInsert(x, v) PROVE SpannInv'
  BY <1>3, SpannInsertKeeps
<1>4. CASE Rebuild
  BY <1>4, SpannCommitKeeps
<1>5. CASE RebuildFails
  <2>1. /\ UNCHANGED <<dirtyBuf, lists, idToCentroid, deleted, built, nav, given, dropped>>
        /\ store \in {"none", "open"} /\ store' \in {"unmapped", store}
    BY <1>5 DEF RebuildFails
  <2> QED
    BY <1>0, <2>1, SpannQuietKeeps DEF Intact
<1>6. CASE ApplierTake
  <2>1. /\ UNCHANGED <<dirtyBuf, store, lists, idToCentroid, deleted, built, given, dropped>>
        /\ nav' = [nav EXCEPT !.buffer = {}, !.flight = nav.buffer] /\ nav.flight = {}
    BY <1>6 DEF ApplierTake
  <2>2. nav' \in Navs /\ nav'.graph = nav.graph /\ nav'.flight = nav.buffer /\ nav'.buffer = {}
    BY <1>0, <2>1 DEF Navs
  <2>3. nav'.graph \cup nav'.flight \cup nav'.buffer = nav.graph \cup nav.flight \cup nav.buffer
    BY <2>1, <2>2
  <2> QED
    BY <1>0, <2>1, <2>2, <2>3, SpannQuietKeeps DEF Intact
<1>10. CASE ApplierApply
  <2>1. /\ UNCHANGED <<dirtyBuf, store, lists, idToCentroid, deleted, built, given, dropped>>
        /\ nav' = [nav EXCEPT !.flight = {}, !.graph = @ \cup nav.flight]
    BY <1>10 DEF ApplierApply
  <2>2. /\ nav' \in Navs /\ nav'.graph = nav.graph \cup nav.flight
        /\ nav'.flight = {} /\ nav'.buffer = nav.buffer
    BY <1>0, <2>1 DEF Navs
  <2>3. nav'.graph \cup nav'.flight \cup nav'.buffer = nav.graph \cup nav.flight \cup nav.buffer
    BY <2>2
  <2> QED
    BY <1>0, <2>1, <2>2, <2>3, SpannQuietKeeps DEF Intact
<1>7. CASE DiskChanges
  BY <1>0, <1>7, SpannQuietKeeps DEF DiskChanges, Intact
<1>8. CASE Fault
  <2>1. /\ dirtyBuf' = {} /\ store' = "none" /\ lists' = [c \in Cents |-> {}]
        /\ idToCentroid' = [x \in Ids |-> None] /\ deleted' = {} /\ built' = FALSE
        /\ nav' = [graph |-> {}, flight |-> {}, buffer |-> {}] /\ given' = [x \in Ids |-> None]
    BY <1>8 DEF Fault, NoLists
  <2>2. Stored' = {}
    BY <2>1 DEF Stored
  <2>3. SpannTypeOK'
    BY <2>1, <2>2, FS_EmptySet DEF SpannTypeOK, Navs
  <2>4. StoreOK' /\ PlacesOK' /\ NavOK'
    BY <2>1 DEF StoreOK, PlacesOK, NavOK
  <2>5. GivenOK'
    BY <2>1 DEF GivenOK, Held
  <2> QED
    BY <2>3, <2>4, <2>5 DEF SpannInv
<1>9. CASE SpannClose
  <2>1. /\ store' = "closed" /\ lists' = [c \in Cents |-> {}]
        /\ UNCHANGED <<dirtyBuf, idToCentroid, deleted, built, nav, given, dropped>>
    BY <1>9 DEF SpannClose, NoLists
  <2> QED
    BY <1>0, <2>1, SpannQuietKeeps DEF Intact
<1> QED
  BY <1>1, <1>2, <1>3, <1>4, <1>5, <1>6, <1>7, <1>8, <1>9, <1>10 DEF SpannNext

\* The invariant gives both properties.
LEMMA SpannHeldOnce ==
  ASSUME SpannInv
  PROVE  HeldOnce
<1> USE SpannNone
<1> DEFINE held(x) == {<<p, Buffered>> : p \in {q \in dirtyBuf : q.id = x}} \cup
                      UNION {{<<p, c>> : p \in {q \in lists[c] : q.id = x}} : c \in Cents}
<1> SUFFICES ASSUME Intact, NEW x \in Ids
             PROVE  /\ Cardinality(held(x)) <= 1
                    /\ Known(x) <=> held(x) # {}
                    /\ built => \A h \in held(x) : idToCentroid[x] = h[2]
  BY DEF HeldOnce
<1>1. StoreOK /\ PlacesOK
  BY DEF SpannInv
<1>2. \A h : h \in held(x) <=> \/ \E p \in dirtyBuf : p.id = x /\ h = <<p, 0>>
                               \/ \E c \in Cents : \E p \in lists[c] : p.id = x /\ h = <<p, c>>
  BY DEF Buffered
<1>3. PICK H : H = held(x)
  OBVIOUS
<1> HIDE DEF held
<1>4. Known(x) <=> H # {}
  <2>1. (\E p : Held(p) /\ p.id = x) <=> H # {}
    BY <1>2, <1>3 DEF Held
  <2> QED
    BY <2>1, KnownHeld
<1>5. built => \A h \in H : idToCentroid[x] = h[2]
  BY <1>1, <1>2, <1>3 DEF PlacesOK
<1>6. ASSUME NEW g \in H, NEW h \in H PROVE g = h
  <2>1. /\ Held(g[1]) /\ g[1].id = x /\ Held(h[1]) /\ h[1].id = x
        /\ g = <<g[1], g[2]>> /\ h = <<h[1], h[2]>>
    BY <1>2, <1>3 DEF Held
  <2>2. g[1] = h[1]
    BY <2>1, KnownHeld
  <2>3. g[2] = h[2]
    <3>1. CASE built
      BY <1>5, <3>1
    <3>2. CASE ~built
      BY <1>1, <1>2, <1>3, <3>2 DEF StoreOK
    <3> QED
      BY <3>1, <3>2
  <2> QED
    BY <2>1, <2>2, <2>3
<1>7. Cardinality(H) <= 1
  <2>1. CASE H = {}
    BY <2>1, FS_EmptySet
  <2>2. CASE H # {}
    <3>1. PICK h : H = {h}
      BY <1>6, <2>2
    <3>2. Cardinality(H) = 1
      BY <3>1, FS_Singleton
    <3> QED
      BY <3>2
  <2> QED
    BY <2>1, <2>2
<1> QED
  BY <1>3, <1>4, <1>5, <1>7

LEMMA SpannProbes ==
  ASSUME SpannInv
  PROVE  ProbesFindGiven
<1> USE SpannNone
<1> SUFFICES ASSUME Intact
             PROVE  /\ \A P \in SUBSET Visible : SpannSearch(P) \subseteq Given
                    /\ Given \subseteq SpannSearch(Visible) \cup
                                             UNION {lists[c] : c \in nav.flight}
                    /\ SpannSearch(nav.flight \cup Visible) = ExportVectors
  BY DEF ProbesFindGiven
<1>1. SpannTypeOK /\ StoreOK /\ PlacesOK /\ GivenOK /\ NavOK
  BY DEF SpannInv
<1>2. nav.flight \subseteq Cents /\ Visible \subseteq Cents
  BY <1>1 DEF SpannTypeOK, Navs, Visible
<1>3. ASSUME NEW P, P \subseteq Cents, NEW p
      PROVE  p \in SpannSearch(P) <=>
               /\ p \in dirtyBuf \/ \E c \in P : p \in lists[c]
               /\ p.id \notin deleted
  BY <1>1, <1>3 DEF SpannSearch, BruteForceSearch, Live, StoreOK
<1>4. \A p : p \in Given <=> p \in Posting /\ given[p.id] = p.vector
  BY DEF Given
<1>5. \A p : p \in ExportVectors <=> Held(p) /\ p.id \notin deleted
  <2>1. \A p : p \in Stored <=> \E c \in Cents : p \in lists[c]
    BY DEF Stored
  <2> QED
    BY <1>1, <2>1 DEF ExportVectors, Live, Held, StoreOK
<1>6. \A p : Held(p) => p \in Posting
  BY <1>1 DEF Held, SpannTypeOK
<1>7. ASSUME NEW P \in SUBSET Visible, NEW p \in SpannSearch(P) PROVE p \in Given
  <2>1. Held(p) /\ p.id \notin deleted
    BY <1>2, <1>3 DEF Held
  <2> QED
    BY <1>1, <1>4, <1>6, <2>1 DEF GivenOK
<1>8. ASSUME NEW p \in Given
      PROVE  p \in SpannSearch(Visible) \/ \E c \in nav.flight : p \in lists[c]
  <2>1. p \in Posting /\ p.id \in Ids /\ p.vector \in Vectors /\ given[p.id] = p.vector
        /\ p = [id |-> p.id, vector |-> p.vector]
    BY <1>4 DEF Posting
  <2>2. given[p.id] # None
    BY <2>1
  <2>3. Held(p) /\ p.id \notin deleted
    BY <1>1, <2>1, <2>2 DEF GivenOK
  <2>4. CASE p \in dirtyBuf
    BY <1>2, <1>3, <2>3, <2>4
  <2>5. ASSUME NEW c \in Cents, p \in lists[c]
        PROVE  c \in Visible \/ c \in nav.flight
    BY <1>1, <2>5 DEF NavOK, Visible
  <2> QED
    BY <1>2, <1>3, <2>3, <2>4, <2>5 DEF Held
<1>9. SpannSearch(nav.flight \cup Visible) = ExportVectors
  <2>1. \A p : Held(p) <=> p \in dirtyBuf \/ \E c \in nav.flight \cup Visible : p \in lists[c]
    BY <1>1, <1>2 DEF Held, NavOK, Visible
  <2>2. \A p : p \in SpannSearch(nav.flight \cup Visible) <=> Held(p) /\ p.id \notin deleted
    BY <1>2, <1>3, <2>1
  <2>3. \A p : p \in SpannSearch(nav.flight \cup Visible) <=> p \in ExportVectors
    BY <1>5, <2>2
  <2> QED
    BY <2>3
<1> QED
  BY <1>7, <1>8, <1>9

LEMMA SpannInvariance == SpannSpec => []SpannInv
<1>1. SpannInit => SpannInv
  BY SpannEmpty DEF SpannInit
<1>2. SpannInv /\ [SpannNext]_spannVars => SpannInv'
  BY SpannStep
<1> QED
  BY <1>1, <1>2, PTL DEF SpannSpec

\* HeldOnce: over any inserts, soft deletes, rebuilds and failed rebuilds an
\* id is in the buffer or in the list idToCentroid names, and in no second
\* place (Insert's duplicate checks, Rebuild's commit).
THEOREM SpannHoldsOnce == SpannSpec => []HeldOnce
<1>1. SpannInv => HeldOnce
  BY SpannHeldOnce
<1> QED
  BY <1>1, SpannInvariance, PTL

\* ProbesFindGiven: searches answer with vectors given and not deleted, and
\* miss only the lists whose centroid is in flight in the centroid index
\* (Search, Rebuild, HNSWIndex.drainDirtyBuffer).
THEOREM SpannFindsGiven == SpannSpec => []ProbesFindGiven
<1>1. SpannInv => ProbesFindGiven
  BY SpannProbes
<1> QED
  BY <1>1, SpannInvariance, PTL
-----------------------------------------------------------------------------
(* The IVF index.                                                          *)

Mains == [ids : Seq(Ids), row : [Ids -> Nat], cluster : [Ids -> 1..K \cup {None}],
          posting : [1..K -> [Ids -> Nat]]]

\* An id outside T is on the list at most once.
Once(q, T) == \A x \in Ids \ T : \A i, j \in 1..Len(q) : q[i] = x /\ q[j] = x => i = j

\* The row of an id holds it; an id outside T has one row and is known by it.
RowsOK(m, T) ==
  /\ \A x \in Ids : m.row[x] # 0 => m.row[x] \in 1..Len(m.ids) /\ m.ids[m.row[x]] = x
  /\ Once(m.ids, T)
  /\ \A x \in Ids \ T : On(x, m.ids) => m.row[x] # 0

\* An id outside T has one posting, in its cluster, when it has a row.
PostingsOK(m, T) ==
  \A x \in Ids \ T :
    /\ \A c \in 1..K : m.posting[c][x] = IF m.cluster[x] = c THEN 1 ELSE 0
    /\ m.row[x] # 0 <=> m.cluster[x] # None

IvfTypeOK ==
  /\ main \in Mains /\ all \in Seq(Ids)
  /\ dirty \subseteq Ids /\ IsFiniteSet(dirty)
  /\ live \subseteq Ids /\ gone \subseteq Ids
  /\ rebuild \in {"idle", "due", "clustering", "collected", "closed"}

\* While a rebuild runs it holds every id that has a row, so that it never
\* finds a delete it missed.
Drained ==
  /\ stale = {} /\ Once(all, twice)
  /\ Running => \A x : On(x, main.ids) => On(x, all)
  /\ ~Running => all = <<>>
  /\ (\E x : On(x, main.ids)) => built

\* An id that is not inserted twice is in one place, and one that was deleted
\* while no rebuild ran is nowhere.
Apart ==
  /\ \A x \in dirty \ twice : ~On(x, main.ids) /\ ~On(x, all)
  /\ \A x \in gone \ twice : ~On(x, main.ids) /\ ~On(x, all) /\ x \notin dirty

\* An acknowledged vector is in the buffer, in a row or in the running rebuild.
Kept == rebuild # "closed" => \A x \in live : x \in dirty \/ main.row[x] # 0 \/ On(x, all)

IvfInv ==
  IvfTypeOK /\ RowsOK(main, twice) /\ PostingsOK(main, twice) /\ Drained /\ Apart /\ Kept

LEMMA IvfConstants ==
  K \in Nat \ {0} /\ None \notin 1..K /\ Clusters = 1..K /\ NoRow = 0
BY IvfAssumption DEF Clusters, NoRow

\* Among natural numbers below a bound there is a greatest one.
LEMMA GreatestNat ==
  ASSUME NEW n \in Nat, NEW S, S \subseteq 0..n, S # {}
  PROVE  \E m \in S : \A k \in S : m >= k
<1>1. PICK D : D = {n - k : k \in S}
  OBVIOUS
<1>2. D \subseteq Nat /\ D # {}
  <2>1. \A k \in S : n - k \in Nat
    OBVIOUS
  <2>2. D \subseteq Nat
    BY <1>1, <2>1
  <2>3. D # {}
    BY <1>1
  <2> QED
    BY <2>2, <2>3
<1>3. \E d \in D : \A e \in D : <<e, d>> \notin OpToRel(<, Nat)
  BY <1>2, WFMin, NatLessThanWellFounded, Zenon
<1>4. PICK d \in D : \A e \in D : <<e, d>> \notin OpToRel(<, Nat)
  BY <1>3
<1>5. \A e \in D : ~(e < d)
  BY <1>2, <1>4 DEF OpToRel
<1>6. PICK m \in S : d = n - m
  BY <1>1
<1>7. \A k \in S : m >= k
  BY <1>1, <1>5, <1>6
<1> QED
  BY <1>7

\* The last row of an id holds it, and it is NoRow when there is none.
LEMMA LastRowHolds ==
  ASSUME NEW q \in Seq(Ids), NEW x
  PROVE  /\ LastRow(q, x) \in 0..Len(q)
         /\ LastRow(q, x) # 0 => q[LastRow(q, x)] = x
         /\ LastRow(q, x) # 0 <=> On(x, q)
<1>1. PICK S : S = {i \in 1..Len(q) : q[i] = x} \cup {0}
  OBVIOUS
<1>2. Len(q) \in Nat /\ S \subseteq 0..Len(q) /\ S # {}
  BY <1>1
<1>3. \E m \in S : \A k \in S : m >= k
  BY <1>2, GreatestNat
<1>4. PICK m : m = LastRow(q, x)
  OBVIOUS
<1>5. m = Max(S)
  BY <1>1, <1>4, IvfConstants DEF LastRow
<1>6. m \in S /\ \A k \in S : m >= k
  BY <1>3, <1>5 DEF Max
<1>7. m \in 0..Len(q) /\ (m # 0 => m \in 1..Len(q) /\ q[m] = x)
  BY <1>1, <1>2, <1>6
<1>8. ASSUME NEW k \in 1..Len(q), q[k] = x PROVE m # 0
  BY <1>1, <1>2, <1>6, <1>8
<1> QED
  BY <1>4, <1>7, <1>8 DEF On

\* From m to n the row r of x is removed: the last row takes its place.
RowTaken(m, x, n, r, last, z) ==
  /\ r \in 1..last /\ m.ids[r] = x /\ last \in 1..last /\ last \in Nat
  /\ z \in Ids /\ m.ids[last] = z /\ Len(m.ids) = last
  /\ n.ids \in Seq(Ids) /\ Len(n.ids) = last - 1
  /\ \A i \in 1..(last - 1) : n.ids[i] = IF i = r THEN z ELSE m.ids[i]
  /\ n.row \in [Ids -> Nat] /\ n.row[x] = 0
  /\ \A y \in Ids \ {x} : n.row[y] = IF y = z THEN r ELSE m.row[y]

\* From m to n the posting of x is removed.
PostingTaken(m, x, n) ==
  /\ n.cluster = [m.cluster EXCEPT ![x] = None]
  /\ n.cluster \in [Ids -> 1..K \cup {None}] /\ n.posting \in [1..K -> [Ids -> Nat]]
  /\ \A c \in 1..K : \A y \in Ids : y # x => n.posting[c][y] = m.posting[c][y]
  /\ \A c \in 1..K : n.posting[c][x] =
       IF m.cluster[x] = c /\ m.posting[c][x] # 0 THEN m.posting[c][x] - 1 ELSE m.posting[c][x]

LEMMA RemoveRowIs ==
  ASSUME NEW m \in Mains, NEW x \in Ids, NEW T, RowsOK(m, T), m.row[x] # 0,
         NEW n, n = RemoveRow(m, x)
  PROVE  \E r, last, z : RowTaken(m, x, n, r, last, z)
<1>1. /\ m.ids \in Seq(Ids) /\ m.row \in [Ids -> Nat] /\ Len(m.ids) \in Nat
  BY DEF Mains
<1>2. m.row[x] \in 1..Len(m.ids) /\ m.ids[m.row[x]] = x
  BY DEF RowsOK
<1>3. PICK r : r = m.row[x]
  OBVIOUS
<1>4. PICK last : last = Len(m.ids)
  OBVIOUS
<1>5. r \in 1..last /\ last \in 1..last /\ last \in Nat /\ m.ids[last] \in Ids
  BY <1>1, <1>2, <1>3, <1>4
<1>6. PICK moved : moved = [m.ids EXCEPT ![r] = m.ids[last]]
  OBVIOUS
<1>7. /\ moved \in [1..last -> Ids] /\ moved[r] = m.ids[last]
      /\ \A i \in 1..last : i # r => moved[i] = m.ids[i]
  BY <1>1, <1>4, <1>5, <1>6
<1>8. n.ids = SubSeq(moved, 1, last - 1) /\ n.row = [m.row EXCEPT ![m.ids[last]] = r, ![x] = 0]
  BY <1>3, <1>4, <1>6, IvfConstants DEF RemoveRow
<1>9. n.ids = [i \in 1..(last - 1) |-> moved[i]]
  <2>1. moved \in Seq(Ids) /\ Len(moved) = last
    BY <1>5, <1>7, FunIsSeq
  <2> QED
    BY <1>5, <1>8, <2>1
<1>10. n.ids \in Seq(Ids) /\ Len(n.ids) = last - 1
  <2>1. last - 1 \in Nat /\ n.ids \in [1..(last - 1) -> Ids]
    BY <1>5, <1>7, <1>9
  <2> QED
    BY <2>1, FunIsSeq
<1>11. \A i \in 1..Len(n.ids) : n.ids[i] = IF i = r THEN m.ids[last] ELSE m.ids[i]
  BY <1>5, <1>7, <1>9, <1>10
<1>12. /\ n.row \in [Ids -> Nat] /\ n.row[x] = 0
       /\ \A y \in Ids \ {x} : n.row[y] = IF y = m.ids[last] THEN r ELSE m.row[y]
  <2>1. PICK z : z = m.ids[last]
    OBVIOUS
  <2>2. PICK f : f = [m.row EXCEPT ![z] = r]
    OBVIOUS
  <2>3. f \in [Ids -> Nat] /\ \A y \in Ids : f[y] = IF y = z THEN r ELSE m.row[y]
    BY <1>1, <1>5, <2>1, <2>2
  <2>4. n.row = [f EXCEPT ![x] = 0]
    BY <1>8, <2>1, <2>2
  <2> QED
    BY <2>1, <2>3, <2>4
<1>13. RowTaken(m, x, n, r, last, m.ids[last])
  BY <1>2, <1>3, <1>4, <1>5, <1>10, <1>11, <1>12 DEF RowTaken
<1> QED
  BY <1>13

LEMMA RemoveRowPostings ==
  ASSUME NEW m \in Mains, NEW x \in Ids, NEW n, n = RemoveRow(m, x)
  PROVE  PostingTaken(m, x, n)
<1> USE DEF PostingTaken
<1>1. m.cluster \in [Ids -> 1..K \cup {None}] /\ m.posting \in [1..K -> [Ids -> Nat]]
  BY DEF Mains
<1>2. PICK d : d = m.cluster[x]
  OBVIOUS
<1>3. /\ n.cluster = [m.cluster EXCEPT ![x] = None]
      /\ n.posting = IF d = None \/ m.posting[d][x] = 0 THEN m.posting
                     ELSE [m.posting EXCEPT ![d][x] = @ - 1]
  BY <1>2, IvfConstants DEF RemoveRow
<1>4. n.cluster \in [Ids -> 1..K \cup {None}]
  BY <1>1, <1>3
<1>5. CASE d = None \/ m.posting[d][x] = 0
  BY <1>1, <1>2, <1>3, <1>4, <1>5, IvfConstants
<1>6. CASE ~(d = None \/ m.posting[d][x] = 0)
  <2>1. d \in 1..K /\ m.posting[d] \in [Ids -> Nat] /\ m.posting[d][x] - 1 \in Nat
    <3>1. d \in 1..K
      BY <1>1, <1>2, <1>6
    <3>2. m.posting[d] \in [Ids -> Nat]
      BY <1>1, <3>1
    <3>3. m.posting[d][x] \in Nat /\ m.posting[d][x] # 0
      BY <1>6, <3>2
    <3> QED
      BY <3>1, <3>2, <3>3
  <2>2. PICK p : p = [m.posting[d] EXCEPT ![x] = m.posting[d][x] - 1]
    OBVIOUS
  <2>3. /\ p \in [Ids -> Nat] /\ p[x] = m.posting[d][x] - 1
        /\ \A y \in Ids : y # x => p[y] = m.posting[d][y]
    BY <2>1, <2>2
  <2>4. n.posting = [m.posting EXCEPT ![d] = p]
    BY <1>3, <1>6, <2>2
  <2>5. n.posting \in [1..K -> [Ids -> Nat]] /\ n.posting[d] = p
    BY <1>1, <2>1, <2>3, <2>4
  <2>6. \A c \in 1..K : c # d => n.posting[c] = m.posting[c]
    BY <1>1, <2>4
  <2>7. \A c \in 1..K : \A y \in Ids : y # x => n.posting[c][y] = m.posting[c][y]
    BY <2>3, <2>5, <2>6
  <2>8. ASSUME NEW c \in 1..K
        PROVE  n.posting[c][x] = IF d = c /\ m.posting[c][x] # 0 THEN m.posting[c][x] - 1
                                 ELSE m.posting[c][x]
    <3>1. CASE c = d
      BY <1>6, <2>3, <2>5, <3>1
    <3>2. CASE c # d
      BY <2>6, <3>2
    <3> QED
      BY <3>1, <3>2
  <2> QED
    BY <1>2, <1>3, <1>4, <2>5, <2>7, <2>8
<1> QED
  BY <1>5, <1>6

\* The index agrees with itself after the removal, and has no id it did not
\* have before.
LEMMA RemoveRowOK ==
  ASSUME NEW m \in Mains, NEW x \in Ids, NEW T, RowsOK(m, T),
         PostingsOK(m, T), m.row[x] # 0, NEW n, n = RemoveRow(m, x)
  PROVE  /\ n \in Mains /\ RowsOK(n, T) /\ PostingsOK(n, T)
         /\ \A y : On(y, n.ids) => On(y, m.ids)
         /\ On(x, m.ids) /\ (x \notin T => ~On(x, n.ids))
         /\ \A y \in Ids \ {x} : m.row[y] # 0 => n.row[y] # 0
<1>1. PICK r, last, z : RowTaken(m, x, n, r, last, z)
  BY RemoveRowIs
<1>2. last = Len(m.ids)
  BY <1>1 DEF RowTaken
<1>3. z = m.ids[last]
  BY <1>1 DEF RowTaken
<1>4. /\ r \in 1..last /\ m.ids[r] = x /\ last \in 1..last /\ z \in Ids /\ last \in Nat
      /\ n.ids \in Seq(Ids) /\ Len(n.ids) = last - 1
      /\ \A i \in 1..(last - 1) : n.ids[i] = IF i = r THEN z ELSE m.ids[i]
      /\ n.row \in [Ids -> Nat] /\ n.row[x] = 0
      /\ \A y \in Ids \ {x} : n.row[y] = IF y = z THEN r ELSE m.row[y]
  BY <1>1 DEF RowTaken
<1>5. /\ n.cluster = [m.cluster EXCEPT ![x] = None]
      /\ n.cluster \in [Ids -> 1..K \cup {None}] /\ n.posting \in [1..K -> [Ids -> Nat]]
      /\ \A c \in 1..K : \A y \in Ids : y # x => n.posting[c][y] = m.posting[c][y]
      /\ \A c \in 1..K : n.posting[c][x] =
              IF m.cluster[x] = c /\ m.posting[c][x] # 0 THEN m.posting[c][x] - 1
              ELSE m.posting[c][x]
  <2>1. PostingTaken(m, x, n)
    BY RemoveRowPostings
  <2> QED
    BY <2>1 DEF PostingTaken
<1>6. n \in Mains
  BY <1>4, <1>5 DEF Mains, RemoveRow
<1>7. ASSUME NEW y, On(y, n.ids) PROVE On(y, m.ids)
  <2>1. PICK i \in 1..(last - 1) : n.ids[i] = y
    BY <1>4, <1>7 DEF On
  <2>2. y = z \/ y = m.ids[i]
    BY <1>4, <2>1
  <2>3. i \in 1..last
    BY <1>4, <2>1
  <2> QED
    BY <1>2, <1>3, <1>4, <2>2, <2>3 DEF On
<1>8. On(x, m.ids)
  BY <1>2, <1>4 DEF On
<1>9. ASSUME x \notin T PROVE ~On(x, n.ids)
  <2> SUFFICES ASSUME NEW i \in 1..(last - 1), n.ids[i] = x PROVE FALSE
    BY <1>4 DEF On
  <2>1. i \in 1..last /\ i # last
    BY <1>4
  <2>0. \A a, b \in 1..last : m.ids[a] = x /\ m.ids[b] = x => a = b
    BY <1>2, <1>9 DEF RowsOK, Once
  <2>2. m.ids[i] = x => i = r
    BY <1>4, <2>0, <2>1
  <2>3. i = r /\ z = x
    BY <1>4, <2>2
  <2>4. last = r
    <3>1. m.ids[last] = x
      BY <1>3, <2>3
    <3> QED
      BY <1>4, <2>0, <3>1
  <2> QED
    BY <2>1, <2>3, <2>4
<1>10. \A y \in Ids \ {x} : m.row[y] # 0 => n.row[y] # 0
  BY <1>4
<1>11. \A y \in Ids : n.row[y] # 0 => n.row[y] \in 1..Len(n.ids) /\ n.ids[n.row[y]] = y
  <2> SUFFICES ASSUME NEW y \in Ids, n.row[y] # 0
               PROVE  n.row[y] \in 1..(last - 1) /\ n.ids[n.row[y]] = y
    BY <1>4
  <2>1. y # x
    BY <1>4
  <2>2. CASE y = z
    <3>1. n.row[y] = r /\ r # last
      BY <1>3, <1>4, <2>1, <2>2
    <3> QED
      BY <1>4, <2>2, <3>1
  <2>3. CASE y # z
    <3>1. n.row[y] = m.row[y]
      BY <1>4, <2>1, <2>3
    <3>2. n.row[y] \in 1..last /\ m.ids[n.row[y]] = y
      BY <1>2, <3>1 DEF RowsOK
    <3>3. n.row[y] # last /\ n.row[y] # r
      BY <1>3, <1>4, <2>1, <2>3, <3>2
    <3>4. n.row[y] \in 1..(last - 1)
      BY <1>4, <3>2, <3>3
    <3> QED
      BY <1>4, <3>2, <3>3, <3>4
  <2> QED
    BY <2>2, <2>3
<1>12. Once(n.ids, T)
  <2> SUFFICES ASSUME NEW y \in Ids \ T, NEW i \in 1..(last - 1), NEW j \in 1..(last - 1),
                      n.ids[i] = y, n.ids[j] = y
               PROVE  i = j
    BY <1>4 DEF Once
  <2>0. i \in 1..last /\ j \in 1..last /\ i # last /\ j # last
    BY <1>4
  <2>1. \A a, b \in 1..last : m.ids[a] = y /\ m.ids[b] = y => a = b
    BY <1>2 DEF RowsOK, Once
  <2>2. CASE y = z
    <3>1. m.ids[i] # y /\ m.ids[j] # y
      BY <1>3, <1>4, <2>0, <2>1, <2>2
    <3>2. \A a \in 1..(last - 1) : a # r => n.ids[a] = m.ids[a]
      BY <1>4
    <3>3. i = r /\ j = r
      BY <3>1, <3>2
    <3> QED
      BY <3>3
  <2>3. CASE y # z
    <3>1. m.ids[i] = y /\ m.ids[j] = y
      BY <1>4, <2>3
    <3> QED
      BY <2>0, <2>1, <3>1
  <2> QED
    BY <2>2, <2>3
<1>13. \A y \in Ids \ T : On(y, n.ids) => n.row[y] # 0
  BY <1>7, <1>9, <1>10 DEF RowsOK
<1>14. RowsOK(n, T)
  BY <1>11, <1>12, <1>13 DEF RowsOK
<1>15. PostingsOK(n, T)
  <2> SUFFICES ASSUME NEW y \in Ids \ T
               PROVE  /\ \A c \in 1..K : n.posting[c][y] = IF n.cluster[y] = c THEN 1 ELSE 0
                      /\ n.row[y] # 0 <=> n.cluster[y] # None
    BY DEF PostingsOK
  <2>0. m.cluster \in [Ids -> 1..K \cup {None}]
    BY DEF Mains
  <2>1. /\ \A c \in 1..K : m.posting[c][y] = IF m.cluster[y] = c THEN 1 ELSE 0
        /\ m.row[y] # 0 <=> m.cluster[y] # None
    BY DEF PostingsOK
  <2>2. CASE y = x
    <3>1. n.cluster[y] = None /\ n.row[y] = 0
      BY <1>4, <1>5, <2>0, <2>2
    <3>2. ASSUME NEW c \in 1..K PROVE n.posting[c][y] = 0
      <4>1. CASE m.cluster[x] = c
        <5>1. m.posting[c][x] = 1
          BY <2>1, <2>2, <4>1
        <5>2. n.posting[c][x] =
                IF m.cluster[x] = c /\ m.posting[c][x] # 0 THEN m.posting[c][x] - 1
                ELSE m.posting[c][x]
          BY <1>5
        <5> QED
          BY <2>2, <4>1, <5>1, <5>2
      <4>2. CASE m.cluster[x] # c
        <5>1. m.posting[c][x] = 0
          BY <2>1, <2>2, <4>2
        <5> QED
          BY <1>5, <2>2, <4>2, <5>1
      <4> QED
        BY <4>1, <4>2
    <3> QED
      BY <3>1, <3>2, IvfConstants
  <2>3. CASE y # x
    <3>1. n.cluster[y] = m.cluster[y] /\ \A c \in 1..K : n.posting[c][y] = m.posting[c][y]
      BY <1>5, <2>0, <2>3
    <3>2. n.row[y] # 0 <=> m.row[y] # 0
      <4>1. n.row[y] # 0 => On(y, n.ids)
        BY <1>11 DEF On
      <4> QED
        BY <1>7, <1>10, <2>3, <4>1 DEF RowsOK
    <3> QED
      BY <2>1, <3>1, <3>2
  <2> QED
    BY <2>2, <2>3
<1> QED
  BY <1>6, <1>7, <1>8, <1>9, <1>10, <1>14, <1>15

LEMMA AssignmentIs ==
  ASSUME NEW n \in Nat, NEW f \in IvfAssignments(n)
  PROVE  f \in [1..n -> 1..K]
<1>1. CASE n <= K
  <2>1. f = [i \in 1..n |-> i]
    BY <1>1 DEF IvfAssignments
  <2> QED
    BY <1>1, <2>1, IvfConstants
<1>2. CASE ~(n <= K)
  BY <1>2, IvfConstants DEF IvfAssignments
<1> QED
  BY <1>1, <1>2

\* The index made from the drained rows agrees with itself.
LEMMA ClusteredOK ==
  ASSUME all \in Seq(Ids), NEW T, Once(all, T),
         NEW f \in IvfAssignments(Len(all)), NEW n, n = Clustered(f)
  PROVE  /\ n \in Mains /\ n.ids = all /\ RowsOK(n, T) /\ PostingsOK(n, T)
         /\ \A x \in Ids : On(x, all) => n.row[x] # 0
<1>1. Len(all) \in Nat /\ f \in [1..Len(all) -> 1..K]
  BY AssignmentIs
<1>2. PICK last : last = [x \in Ids |-> LastRow(all, x)]
  OBVIOUS
<1>3. \A x \in Ids : /\ last[x] \in 0..Len(all) /\ (last[x] # 0 => all[last[x]] = x)
                     /\ last[x] # 0 <=> On(x, all)
  BY <1>2, LastRowHolds
<1>4. PICK at : at = [c \in 1..K |-> [x \in Ids |-> {i \in 1..Len(all) : all[i] = x /\ f[i] = c}]]
  OBVIOUS
<1>5. /\ n.ids = all /\ n.row = last
      /\ n.cluster = [x \in Ids |-> IF last[x] = 0 THEN None ELSE f[last[x]]]
      /\ n.posting = [c \in 1..K |-> [x \in Ids |-> Cardinality(at[c][x])]]
      /\ n = [ids |-> n.ids, row |-> n.row, cluster |-> n.cluster, posting |-> n.posting]
  <2>1. n = [ids |-> all,
             row |-> [x \in Ids |-> LastRow(all, x)],
             cluster |-> [x \in Ids |-> IF LastRow(all, x) = 0 THEN None
                                        ELSE f[LastRow(all, x)]],
             posting |-> [c \in 1..K |-> [x \in Ids |->
               Cardinality({i \in 1..Len(all) : all[i] = x /\ f[i] = c})]]]
    BY IvfConstants DEF Clustered
  <2>2. n.ids = all /\ n.row = last
    BY <1>2, <2>1
  <2>3. n.cluster = [x \in Ids |-> IF last[x] = 0 THEN None ELSE f[last[x]]]
    BY <1>2, <2>1
  <2>4. n.posting = [c \in 1..K |-> [x \in Ids |->
               Cardinality({i \in 1..Len(all) : all[i] = x /\ f[i] = c})]]
    BY <2>1
  <2>5. \A c \in 1..K : \A x \in Ids :
          Cardinality({i \in 1..Len(all) : all[i] = x /\ f[i] = c}) = Cardinality(at[c][x])
    BY <1>4
  <2>6. n.posting = [c \in 1..K |-> [x \in Ids |-> Cardinality(at[c][x])]]
    BY <2>4, <2>5
  <2> QED
    BY <2>1, <2>2, <2>3, <2>6
<1>6. \A c \in 1..K : \A x \in Ids : Cardinality(at[c][x]) \in Nat
  <2>1. IsFiniteSet(1..Len(all))
    BY <1>1, FS_Interval
  <2>2. \A c \in 1..K : \A x \in Ids : at[c][x] \subseteq 1..Len(all)
    BY <1>4
  <2>3. \A c \in 1..K : \A x \in Ids : IsFiniteSet(at[c][x])
    BY <2>1, <2>2, FS_Subset
  <2> QED
    BY <2>3, FS_CardinalityType
<1>7. n \in Mains
  <2>1. n.row \in [Ids -> Nat]
    BY <1>2, <1>3, <1>5
  <2>2. n.cluster \in [Ids -> 1..K \cup {None}]
    BY <1>1, <1>3, <1>5
  <2>3. n.posting \in [1..K -> [Ids -> Nat]]
    BY <1>5, <1>6
  <2> QED
    BY <1>5, <2>1, <2>2, <2>3 DEF Mains
<1>8. RowsOK(n, T)
  BY <1>1, <1>3, <1>5 DEF RowsOK
<1>9. PostingsOK(n, T)
  <2> SUFFICES ASSUME NEW x \in Ids \ T
               PROVE  /\ \A c \in 1..K : n.posting[c][x] = IF n.cluster[x] = c THEN 1 ELSE 0
                      /\ n.row[x] # 0 <=> n.cluster[x] # None
    BY DEF PostingsOK
  <2>1. CASE last[x] = 0
    <3>1. n.cluster[x] = None /\ n.row[x] = 0
      BY <1>5, <2>1
    <3>2. \A c \in 1..K : at[c][x] = {}
      BY <1>3, <1>4, <2>1 DEF On
    <3>3. ASSUME NEW c \in 1..K PROVE n.posting[c][x] = 0
      <4>1. n.posting[c][x] = Cardinality(at[c][x])
        BY <1>5
      <4> QED
        BY <3>2, <4>1, FS_EmptySet
    <3> QED
      BY <3>1, <3>3, IvfConstants
  <2>2. CASE last[x] # 0
    <3>1. last[x] \in 1..Len(all) /\ all[last[x]] = x
      BY <1>1, <1>3, <2>2
    <3>2. n.cluster[x] = f[last[x]] /\ n.cluster[x] \in 1..K /\ n.row[x] # 0
      BY <1>1, <1>5, <2>2, <3>1
    <3>3. \A i \in 1..Len(all) : all[i] = x <=> i = last[x]
      BY <3>1 DEF Once
    <3>4. ASSUME NEW c \in 1..K PROVE n.posting[c][x] = IF n.cluster[x] = c THEN 1 ELSE 0
      <4>1. n.posting[c][x] = Cardinality(at[c][x])
        BY <1>5
      <4>2. at[c][x] = {i \in 1..Len(all) : all[i] = x /\ f[i] = c}
        BY <1>4
      <4>3. CASE n.cluster[x] = c
        <5>1. at[c][x] = {last[x]}
          BY <3>1, <3>2, <3>3, <4>2, <4>3
        <5> QED
          BY <4>1, <4>3, <5>1, FS_Singleton
      <4>4. CASE n.cluster[x] # c
        <5>1. at[c][x] = {}
          BY <3>1, <3>2, <3>3, <4>2, <4>4
        <5> QED
          BY <4>1, <4>4, <5>1, FS_EmptySet
      <4> QED
        BY <4>3, <4>4
    <3> QED
      BY <3>2, <3>4, IvfConstants
  <2> QED
    BY <2>1, <2>2
<1> QED
  BY <1>3, <1>5, <1>7, <1>8, <1>9

\* Phase 3 finds no delete to repeat: what it swaps in is what it clustered.
LEMMA SwapIs ==
  ASSUME Swap, stale = {}
  PROVE  \E f \in IvfAssignments(Len(all)) : main' = Clustered(f)
<1>1. PICK f \in IvfAssignments(Len(all)) :
        main' = FoldSet(LAMBDA x, m : IF Has(m, x) THEN RemoveRow(m, x) ELSE m,
                            Clustered(f), stale)
  BY DEF Swap
<1>2. main' = Clustered(f)
  BY <1>1, Zenon DEF FoldSet, MapThenFoldSet
<1> QED
  BY <1>2

LEMMA LenConcat ==
  ASSUME NEW S, NEW p \in Seq(S), NEW q \in Seq(S)
  PROVE  Len(p \o q) = Len(p) + Len(q)
OBVIOUS

\* What phase 1 copies: the rows, then each id of the buffer once.
LEMMA DrainedAre ==
  ASSUME Drain, main.ids \in Seq(Ids), dirty \subseteq Ids, IsFiniteSet(dirty),
         NEW T, Once(main.ids, T), \A x \in dirty \ T : ~On(x, main.ids)
  PROVE  /\ all' \in Seq(Ids) /\ Once(all', T)
         /\ \A x : On(x, all') <=> On(x, main.ids) \/ x \in dirty
<1>1. PICK n : n = Cardinality(dirty)
  OBVIOUS
<1>2. n \in Nat /\ n = Cardinality(dirty)
  BY <1>1, FS_CardinalityType
<1>3. PICK t \in [1..n -> dirty] : Range(t) = dirty /\ all' = main.ids \o t
  BY <1>2 DEF Drain
<1>4. \A x \in dirty : \E i \in 1..n : t[i] = x
  BY <1>3 DEF Range
<1>5. \A i, j \in 1..n : t[i] = t[j] => i = j
  <2>1. t \in Surjection(1..n, dirty)
    BY <1>3, <1>4 DEF Surjection
  <2>2. IsFiniteSet(1..n) /\ Cardinality(1..n) = n
    BY <1>2, FS_Interval
  <2>3. t \in Injection(1..n, dirty)
    BY <1>1, <2>1, <2>2, FS_SurjSameCardinalityImpliesInj
  <2> QED
    BY <2>3 DEF Injection, IsInjective
<1>6. PICK q : q = main.ids
  OBVIOUS
<1>7. PICK k : k = Len(q)
  OBVIOUS
<1>8. k \in Nat /\ q \in Seq(Ids) /\ t \in Seq(Ids) /\ Len(t) = n
  <2>1. t \in [1..n -> Ids]
    BY <1>3
  <2> QED
    BY <1>2, <1>6, <1>7, <2>1, FunIsSeq
<1>9. PICK u : u = q \o t
  OBVIOUS
<1>10. /\ u \in Seq(Ids) /\ Len(u) = k + n
       /\ \A i \in 1..k : u[i] = q[i]
       /\ \A i \in 1..(k + n) : i > k => u[i] = t[i - k] /\ i - k \in 1..n
       /\ \A i \in 1..n : u[k + i] = t[i] /\ k + i \in 1..(k + n)
  <2>0. u \in Seq(Ids)
    BY <1>8, <1>9
  <2>1. Len(u) = k + n
    <3>1. Len(q \o t) = Len(q) + Len(t)
      BY <1>8, LenConcat
    <3> QED
      BY <1>7, <1>8, <1>9, <3>1
  <2>2. \A i \in 1..(k + n) : u[i] = IF i <= k THEN q[i] ELSE t[i - k]
    BY <1>2, <1>7, <1>8, <1>9
  <2>3. \A i \in 1..k : i \in 1..(k + n) /\ i <= k
    BY <1>2, <1>8
  <2>4. \A i \in 1..(k + n) : i > k => i - k \in 1..n /\ ~(i <= k)
    BY <1>2, <1>8
  <2>5. \A i \in 1..n : k + i \in 1..(k + n) /\ ~(k + i <= k) /\ (k + i) - k = i
    BY <1>2, <1>8
  <2>6. \A i \in 1..k : u[i] = q[i]
    BY <2>2, <2>3
  <2>7. \A i \in 1..(k + n) : i > k => u[i] = t[i - k]
    BY <2>2, <2>4
  <2>8. \A i \in 1..n : u[k + i] = t[i]
    BY <2>2, <2>5
  <2> QED
    BY <2>0, <2>1, <2>4, <2>5, <2>6, <2>7, <2>8
<1>11. Once(u, T)
  <2> SUFFICES ASSUME NEW x \in Ids \ T, NEW i \in 1..(k + n), NEW j \in 1..(k + n),
                      u[i] = x, u[j] = x
               PROVE  i = j
    BY <1>10 DEF Once
  <2>0. \A a \in 1..(k + n) : a \in 1..k \/ a > k
    BY <1>2, <1>8
  <2>1. \A a \in 1..k : q[a] = x => x \notin dirty
    BY <1>6, <1>7 DEF On
  <2>2. \A a \in 1..n : t[a] \in dirty
    BY <1>3
  <2>3. CASE i \in 1..k /\ j \in 1..k
    <3>1. \A a, b \in 1..k : q[a] = x /\ q[b] = x => a = b
      BY <1>6, <1>7 DEF Once
    <3> QED
      BY <1>10, <2>3, <3>1
  <2>4. CASE i > k /\ j > k
    <3>1. i - k = j - k
      BY <1>5, <1>10, <2>4
    <3> QED
      BY <1>8, <3>1
  <2>5. CASE i \in 1..k /\ j > k
    BY <1>10, <2>1, <2>2, <2>5
  <2>6. CASE i > k /\ j \in 1..k
    BY <1>10, <2>1, <2>2, <2>6
  <2> QED
    BY <2>0, <2>3, <2>4, <2>5, <2>6
<1>12. ASSUME NEW x PROVE On(x, u) <=> On(x, q) \/ x \in dirty
  <2>1. ASSUME On(x, u) PROVE On(x, q) \/ x \in dirty
    <3>1. PICK i \in 1..(k + n) : u[i] = x
      BY <1>10, <2>1 DEF On
    <3>2. CASE i \in 1..k
      BY <1>7, <1>10, <3>1, <3>2 DEF On
    <3>3. CASE i > k
      BY <1>3, <1>10, <3>1, <3>3
    <3> QED
      BY <1>2, <1>8, <3>2, <3>3
  <2>2. ASSUME On(x, q) PROVE On(x, u)
    <3>1. PICK i \in 1..k : q[i] = x
      BY <1>7, <2>2 DEF On
    <3>2. i \in 1..(k + n) /\ u[i] = x
      BY <1>2, <1>8, <1>10, <3>1
    <3> QED
      BY <1>10, <3>2 DEF On
  <2>3. ASSUME x \in dirty PROVE On(x, u)
    <3>1. PICK i \in 1..n : t[i] = x
      BY <1>4, <2>3
    <3> QED
      BY <1>10, <3>1 DEF On
  <2> QED
    BY <2>1, <2>2, <2>3
<1> QED
  BY <1>3, <1>6, <1>9, <1>10, <1>11, <1>12

LEMMA IvfInitKeeps == ASSUME IvfInit PROVE IvfInv
<1>1. /\ main = [ids |-> <<>>, row |-> [x \in Ids |-> 0], cluster |-> [x \in Ids |-> None],
                 posting |-> [c \in 1..K |-> [x \in Ids |-> 0]]]
      /\ dirty = {} /\ rebuild = "idle" /\ all = <<>> /\ stale = {} /\ live = {} /\ gone = {}
  BY IvfConstants DEF IvfInit
<1>2. /\ main.ids = <<>> /\ main.row = [x \in Ids |-> 0] /\ main.cluster = [x \in Ids |-> None]
      /\ main.posting = [c \in 1..K |-> [x \in Ids |-> 0]]
  BY <1>1
<1>3. main \in Mains /\ all \in Seq(Ids)
  <2>1. <<>> \in Seq(Ids)
    OBVIOUS
  <2> QED
    BY <1>1, <2>1 DEF Mains
<1>4. \A x : ~On(x, main.ids) /\ ~On(x, all)
  BY <1>1, <1>2 DEF On
<1>5. IvfTypeOK
  BY <1>1, <1>3, FS_EmptySet DEF IvfTypeOK
<1>6. Once(main.ids, twice) /\ Once(all, twice)
  BY <1>1, <1>2 DEF Once
<1>7. RowsOK(main, twice)
  BY <1>2, <1>4, <1>6 DEF RowsOK
<1>8. PostingsOK(main, twice)
  BY <1>2, IvfConstants DEF PostingsOK
<1>9. Drained
  BY <1>1, <1>4, <1>6 DEF Drained, Running
<1> QED
  BY <1>1, <1>5, <1>7, <1>8, <1>9 DEF IvfInv, Apart, Kept

\* An insert: an id the running rebuild holds joins the ids inserted twice.
LEMMA IvfInsertKeeps ==
  ASSUME IvfInv, NEW x \in Ids, IvfInsert(x)
  PROVE  IvfInv'
<1>1. /\ IvfTypeOK /\ RowsOK(main, twice) /\ PostingsOK(main, twice)
      /\ Drained /\ Apart /\ Kept
  BY DEF IvfInv
<1>2. /\ main.row[x] = 0 /\ x \notin dirty /\ dirty' = dirty \cup {x} /\ live' = live \cup {x}
      /\ gone' = gone \ {x} /\ UNCHANGED <<main, built, rebuild, all, stale>>
      /\ twice' = IF Running /\ x \in Range(all) THEN twice \cup {x} ELSE twice
  BY IvfConstants DEF IvfInsert, Has
<1>3. twice \subseteq twice' /\ (x \notin twice' => x \notin twice /\ ~On(x, all))
  <2>1. x \in Range(all) <=> On(x, all)
    BY <1>1, OnRange DEF IvfTypeOK
  <2>2. ~Running => ~On(x, all)
    BY <1>1 DEF Drained, On
  <2> QED
    BY <1>2, <2>1, <2>2
<1>4. IvfTypeOK'
  BY <1>1, <1>2, FS_AddElement DEF IvfTypeOK
<1>5. Once(main'.ids, twice') /\ Once(all', twice')
  BY <1>1, <1>2, <1>3 DEF Once, RowsOK, Drained
<1>6. RowsOK(main, twice)'
  BY <1>1, <1>2, <1>3, <1>5 DEF RowsOK
<1>7. PostingsOK(main, twice)'
  BY <1>1, <1>2, <1>3 DEF PostingsOK
<1>8. Drained'
  BY <1>1, <1>2, <1>5 DEF Drained, Running
<1>9. Apart'
  BY <1>1, <1>2, <1>3 DEF Apart, RowsOK
<1>10. Kept'
  BY <1>1, <1>2 DEF Kept
<1> QED
  BY <1>4, <1>6, <1>7, <1>8, <1>9, <1>10 DEF IvfInv

\* A delete: from the rows, or from the buffer.
LEMMA IvfDeleteKeeps ==
  ASSUME IvfInv, NEW x \in Ids, IvfDelete(x)
  PROVE  IvfInv'
<1>1. /\ IvfTypeOK /\ RowsOK(main, twice) /\ PostingsOK(main, twice)
      /\ Drained /\ Apart /\ Kept
  BY DEF IvfInv
<1>2. /\ rebuild # "closed" /\ live' = live \ {x} /\ UNCHANGED <<built, rebuild, all, stale, twice>>
      /\ gone' = IF Running THEN gone ELSE gone \cup {x}
      /\ IF main.row[x] # 0 THEN main' = RemoveRow(main, x) /\ dirty' = dirty
         ELSE main' = main /\ dirty' = dirty \ {x}
  BY IvfConstants DEF IvfDelete, Has
\* What both cases leave: less in the rows and the buffer, and no x.
<1>3. /\ main' \in Mains /\ RowsOK(main', twice) /\ PostingsOK(main', twice)
      /\ \A y : On(y, main'.ids) => On(y, main.ids)
      /\ \A y \in Ids \ {x} : main.row[y] # 0 => main'.row[y] # 0
      /\ dirty' \subseteq dirty /\ dirty \subseteq dirty' \cup {x}
      /\ x \notin twice => ~On(x, main'.ids) /\ x \notin dirty'
  <2>1. CASE main.row[x] # 0
    <3>1. main' = RemoveRow(main, x) /\ dirty' = dirty
      BY <1>2, <2>1
    <3>2. main \in Mains
      BY <1>1 DEF IvfTypeOK
    <3>3. /\ main' \in Mains /\ RowsOK(main', twice) /\ PostingsOK(main', twice)
          /\ \A y : On(y, main'.ids) => On(y, main.ids)
          /\ On(x, main.ids) /\ (x \notin twice => ~On(x, main'.ids))
          /\ \A y \in Ids \ {x} : main.row[y] # 0 => main'.row[y] # 0
      BY <1>1, <2>1, <3>1, <3>2, RemoveRowOK
    <3> QED
      BY <1>1, <3>1, <3>3 DEF Apart
  <2>2. CASE main.row[x] = 0
    <3>1. main' = main /\ dirty' = dirty \ {x}
      BY <1>2, <2>2
    <3>2. x \notin twice => ~On(x, main.ids)
      BY <1>1, <2>2 DEF RowsOK
    <3> QED
      BY <1>1, <3>1, <3>2 DEF IvfTypeOK
  <2> QED
    BY <2>1, <2>2
<1>4. IvfTypeOK'
  <2>1. IsFiniteSet(dirty')
    BY <1>1, <1>3, FS_Subset DEF IvfTypeOK
  <2> QED
    BY <1>1, <1>2, <1>3, <2>1 DEF IvfTypeOK
<1>5. Drained'
  BY <1>1, <1>2, <1>3 DEF Drained, Running
<1>6. Apart'
  <2>1. ~Running => ~On(x, all)
    BY <1>1 DEF Drained, On
  <2> QED
    BY <1>1, <1>2, <1>3, <2>1 DEF Apart
<1>7. Kept'
  BY <1>1, <1>2, <1>3 DEF Kept, IvfTypeOK
<1>8. RowsOK(main, twice)' /\ PostingsOK(main, twice)'
  BY <1>2, <1>3
<1> QED
  BY <1>4, <1>5, <1>6, <1>7, <1>8 DEF IvfInv

LEMMA IvfDrainKeeps ==
  ASSUME IvfInv, Drain
  PROVE  IvfInv'
<1>1. /\ IvfTypeOK /\ RowsOK(main, twice) /\ PostingsOK(main, twice)
      /\ Drained /\ Apart /\ Kept
  BY DEF IvfInv
<1>2. /\ rebuild = "due" /\ dirty' = {}
      /\ \/ rebuild' = "idle" /\ all' = <<>>
         \/ rebuild' = "clustering"
      /\ UNCHANGED <<main, built, stale, live, gone, twice>>
  BY DEF Drain
<1>3. /\ all' \in Seq(Ids) /\ Once(all', twice)
      /\ \A x : On(x, all') <=> On(x, main.ids) \/ x \in dirty
  <2>1. /\ main.ids \in Seq(Ids) /\ dirty \subseteq Ids /\ IsFiniteSet(dirty)
        /\ Once(main.ids, twice) /\ \A x \in dirty \ twice : ~On(x, main.ids)
    BY <1>1 DEF IvfTypeOK, Mains, RowsOK, Apart
  <2> QED
    BY <2>1, DrainedAre
<1>4. IvfTypeOK'
  BY <1>1, <1>2, <1>3, FS_EmptySet DEF IvfTypeOK
<1>5. RowsOK(main, twice)' /\ PostingsOK(main, twice)'
  BY <1>1, <1>2 DEF RowsOK, PostingsOK, Once
<1>6. Drained'
  BY <1>1, <1>2, <1>3 DEF Drained, Running
<1>7. Apart'
  BY <1>1, <1>2, <1>3 DEF Apart
<1>8. ASSUME NEW x \in live PROVE main.row[x] # 0 \/ On(x, all')
  <2>1. all = <<>>
    BY <1>1, <1>2 DEF Drained, Running
  <2>2. ~On(x, all)
    BY <2>1 DEF On
  <2> QED
    BY <1>1, <1>2, <1>3, <2>2 DEF Kept
<1>9. Kept'
  BY <1>2, <1>8 DEF Kept
<1> QED
  BY <1>4, <1>5, <1>6, <1>7, <1>9 DEF IvfInv

LEMMA IvfSwapKeeps ==
  ASSUME IvfInv, Swap
  PROVE  IvfInv'
<1>1. /\ IvfTypeOK /\ RowsOK(main, twice) /\ PostingsOK(main, twice)
      /\ Drained /\ Apart /\ Kept
  BY DEF IvfInv
<1>2. /\ rebuild = "collected" /\ rebuild' = "idle" /\ all' = <<>> /\ stale' = {}
      /\ built' = TRUE /\ UNCHANGED <<dirty, live, gone, twice>>
  BY DEF Swap
<1>3. PICK f \in IvfAssignments(Len(all)) : main' = Clustered(f)
  BY <1>1, SwapIs DEF Drained
<1>4. /\ main' \in Mains /\ main'.ids = all /\ RowsOK(main', twice) /\ PostingsOK(main', twice)
      /\ \A x \in Ids : On(x, all) => main'.row[x] # 0
  BY <1>1, <1>3, ClusteredOK DEF IvfTypeOK, Drained
<1>5. \A x : ~On(x, all')
  BY <1>2 DEF On
<1>6. IvfTypeOK'
  BY <1>1, <1>2, <1>4 DEF IvfTypeOK
<1>7. Drained'
  BY <1>2, <1>5 DEF Drained, Running, Once
<1>8. Apart'
  BY <1>1, <1>2, <1>4, <1>5 DEF Apart
<1>9. Kept'
  <2>1. \A x \in Ids : main.row[x] # 0 => On(x, main.ids)
    BY <1>1 DEF RowsOK, On
  <2>2. \A x \in Ids : main.row[x] # 0 => On(x, all)
    BY <1>1, <1>2, <2>1 DEF Drained, Running
  <2> QED
    BY <1>1, <1>2, <1>4, <2>2 DEF Kept, IvfTypeOK
<1>10. RowsOK(main, twice)' /\ PostingsOK(main, twice)'
  BY <1>2, <1>4
<1> QED
  BY <1>6, <1>7, <1>8, <1>9, <1>10 DEF IvfInv

LEMMA IvfStep ==
  ASSUME IvfInv, [IvfNext]_ivfVars
  PROVE  IvfInv'
<1>1. /\ IvfTypeOK /\ RowsOK(main, twice) /\ PostingsOK(main, twice)
      /\ Drained /\ Apart /\ Kept
  BY DEF IvfInv
<1>2. CASE UNCHANGED ivfVars
  <2>1. UNCHANGED <<main, dirty, built, rebuild, all, stale, live, gone, twice>>
    BY <1>2 DEF ivfVars
  <2> QED
    BY <1>1, <2>1 DEF IvfInv, IvfTypeOK, RowsOK, PostingsOK, Drained, Apart, Kept, Once, Running
<1>3. ASSUME NEW x \in Ids, IvfInsert(x) PROVE IvfInv'
  BY <1>3, IvfInsertKeeps
<1>4. ASSUME NEW x \in Ids, IvfDelete(x) PROVE IvfInv'
  BY <1>4, IvfDeleteKeeps
<1>5. CASE Drain
  BY <1>5, IvfDrainKeeps
<1>9. CASE Tick
  <2>1. /\ rebuild = "idle" /\ rebuild' = "due"
        /\ UNCHANGED <<main, dirty, built, all, stale, live, gone, twice>>
    BY <1>9 DEF Tick
  <2> QED
    BY <1>1, <2>1 DEF IvfInv, IvfTypeOK, RowsOK, PostingsOK, Drained, Apart, Kept, Once, Running
<1>6. CASE Collect
  <2>1. /\ rebuild = "clustering" /\ rebuild' = "collected"
        /\ stale' = {x \in Ids : Has(main, x) /\ x \notin Range(all)}
        /\ UNCHANGED <<main, dirty, built, all, live, gone, twice>>
    BY <1>6 DEF Collect
  <2>2. \A x \in Ids : main.row[x] # 0 => On(x, main.ids)
    BY <1>1 DEF RowsOK, On
  <2>3. \A x \in Ids : main.row[x] # 0 => x \in Range(all)
    BY <1>1, <2>1, <2>2, OnRange DEF Drained, Running, IvfTypeOK
  <2>4. stale' = {}
    BY <2>1, <2>3, IvfConstants DEF Has
  <2>5. IvfTypeOK' /\ RowsOK(main, twice)' /\ PostingsOK(main, twice)'
    BY <1>1, <2>1 DEF IvfTypeOK, RowsOK, PostingsOK, Once
  <2>6. Drained'
    BY <1>1, <2>1, <2>4 DEF Drained, Running, Once
  <2>7. Apart' /\ Kept'
    BY <1>1, <2>1 DEF Apart, Kept
  <2> QED
    BY <2>5, <2>6, <2>7 DEF IvfInv
<1>7. CASE Swap
  BY <1>7, IvfSwapKeeps
<1>8. CASE IvfClose
  <2>1. /\ rebuild' = "closed" /\ all' = <<>> /\ stale' = {}
        /\ UNCHANGED <<main, dirty, built, live, gone, twice>>
    BY <1>8 DEF IvfClose
  <2>2. \A x : ~On(x, all')
    BY <2>1 DEF On
  <2>3. IvfTypeOK'
    BY <1>1, <2>1 DEF IvfTypeOK
  <2>4. RowsOK(main, twice)' /\ PostingsOK(main, twice)'
    BY <1>1, <2>1 DEF RowsOK, PostingsOK, Once
  <2>5. Drained'
    BY <1>1, <2>1, <2>2 DEF Drained, Running, Once
  <2>6. Apart' /\ Kept'
    BY <1>1, <2>1, <2>2 DEF Apart, Kept
  <2> QED
    BY <2>3, <2>4, <2>5, <2>6 DEF IvfInv
<1> QED
  BY <1>2, <1>3, <1>4, <1>5, <1>6, <1>7, <1>8, <1>9 DEF IvfNext

LEMMA IvfInvariance == IvfSpec => []IvfInv
<1>1. IvfInit => IvfInv
  BY IvfInitKeeps
<1>2. IvfInv /\ [IvfNext]_ivfVars => IvfInv'
  BY IvfStep
<1> QED
  BY <1>1, <1>2, PTL DEF IvfSpec

\* The rows, the clusters and the posting lists of the IVF index agree after
\* any inserts, deletes and rebuilds (Delete's swap with the last row and
\* RebuildCtx's swap of the whole index).
THEOREM IvfRowsAgree == IvfSpec => []RowsAgree
<1>1. ASSUME IvfInv PROVE RowsAgree
  <2>1. IvfTypeOK /\ RowsOK(main, twice) /\ PostingsOK(main, twice)
    BY <1>1 DEF IvfInv
  <2>2. main.ids \in Seq(Ids)
    BY <2>1 DEF IvfTypeOK, Mains
  <2>3. \A x : x \in Range(main.ids) <=> On(x, main.ids)
    BY <2>2, OnRange
  <2>4. \A x \in Ids : main.row[x] # 0 => main.row[x] <= Len(main.ids) /\ main.ids[main.row[x]] = x
    BY <2>1 DEF RowsOK
  <2>5. \A x \in Ids \ twice : main.row[x] # 0 <=> On(x, main.ids)
    BY <2>1 DEF RowsOK, On
  <2> QED
    BY <2>1, <2>3, <2>4, <2>5, IvfConstants DEF RowsAgree, Has, PostingsOK
<1> QED
  BY <1>1, IvfInvariance, PTL

\* A vector whose insert was acknowledged and that was not deleted is in the
\* buffer, in a row, or held by the rebuild that runs (Insert, RebuildCtx).
THEOREM IvfNeverLost == IvfSpec => []NeverLost
<1>1. ASSUME IvfInv PROVE NeverLost
  <2>1. IvfTypeOK /\ Kept
    BY <1>1 DEF IvfInv
  <2>2. \A x : x \in Range(all) <=> On(x, all)
    BY <2>1, OnRange DEF IvfTypeOK
  <2> QED
    BY <2>1, <2>2, IvfConstants DEF NeverLost, Exported, Has, IvfTypeOK, Kept
<1> QED
  BY <1>1, IvfInvariance, PTL

\* When no rebuild runs a search that probes every cluster finds the acknowledged
\* vectors and none whose delete was acknowledged while no rebuild ran, save
\* the ids that were inserted again during one (Search, Delete).
THEOREM IvfSearchExact == IvfSpec => []SearchExact
<1>1. ASSUME IvfInv, ~Running, rebuild # "closed"
      PROVE  /\ live \ twice \subseteq IvfSearch(Clusters)
             /\ IvfSearch(Clusters) \cap (gone \ twice) = {}
  <2>1. /\ IvfTypeOK /\ RowsOK(main, twice) /\ PostingsOK(main, twice)
        /\ Drained /\ Apart /\ Kept
    BY <1>1 DEF IvfInv
  <2>2. main.cluster \in [Ids -> 1..K \cup {None}]
    BY <2>1 DEF IvfTypeOK, Mains
  <2>3. \A x \in Ids : main.row[x] # 0 => On(x, main.ids)
    BY <2>1 DEF RowsOK, On
  <2>4. \A x : ~On(x, all)
    BY <1>1, <2>1 DEF Drained, Running, On
  <2>5. ASSUME NEW x \in live \ twice PROVE x \in IvfSearch(1..K)
    <3>1. CASE x \in dirty
      BY <3>1 DEF IvfSearch
    <3>2. CASE x \notin dirty
      <4>1. x \in Ids /\ main.row[x] # 0 /\ built
        BY <1>1, <2>1, <2>3, <2>4, <3>2 DEF Kept, Drained, IvfTypeOK
      <4>2. main.cluster[x] \in 1..K /\ main.posting[main.cluster[x]][x] = 1
        BY <2>1, <2>2, <4>1 DEF PostingsOK
      <4>3. \E c \in 1..K : main.posting[c][x] > 0
        BY <4>2
      <4> QED
        BY <4>1, <4>3, IvfConstants DEF IvfSearch, Has
    <3> QED
      BY <3>1, <3>2
  <2>6. ASSUME NEW x \in IvfSearch(1..K), x \in gone \ twice PROVE FALSE
    <3>1. x \in dirty \/ (x \in Ids /\ main.row[x] # 0)
      BY IvfConstants DEF IvfSearch, Has
    <3> QED
      BY <2>1, <2>3, <2>6, <3>1 DEF Apart
  <2> QED
    BY <2>5, <2>6, IvfConstants
<1>2. IvfInv => SearchExact
  BY <1>1 DEF SearchExact
<1> QED
  BY <1>2, IvfInvariance, PTL

\* Why a delete that is acknowledged while a rebuild runs is undone, for any
\* clusters and any threshold: an id that still has a row was drained, so the set
\* of missed deletes RebuildCtx collects for Phase 3 is always empty.
THEOREM IvfCollectsNothing == IvfSpec => [](stale = {})
<1>1. IvfInv => stale = {}
  BY DEF IvfInv, Drained
<1> QED
  BY <1>1, IvfInvariance, PTL
=============================================================================
