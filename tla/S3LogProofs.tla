----------------------------- MODULE S3LogProofs -----------------------------
(***************************************************************************)
(* Proofs about S3Log and its admission control, for any number of         *)
(* readers, appends, crashes and slots.                                    *)
(***************************************************************************)
EXTENDS S3Log, FiniteSetTheorems, SequenceTheorems, WellFoundedInduction, TLAPS

AdmissionOK ==
  /\ queue \in Seq(Clients)
  /\ holding \subseteq Clients /\ granted \subseteq Clients
  /\ SlotsAccounted

-----------------------------------------------------------------------------
(* Admission.                                                              *)

LEMMA ClientSets ==
  ASSUME NEW S, S \subseteq Clients
  PROVE  /\ IsFiniteSet(S) /\ Cardinality(S) \in Nat
         /\ \A c \in S : Cardinality(S \ {c}) = Cardinality(S) - 1 /\ Cardinality(S) >= 1
         /\ \A c \in Clients : c \notin S => Cardinality(S \cup {c}) = Cardinality(S) + 1
<1>1. IsFiniteSet(S)
  BY AdmissionAssumption, FS_Subset
<1>2. Cardinality(S) \in Nat
  BY <1>1, FS_CardinalityType
<1>3. ASSUME NEW c \in S
      PROVE  Cardinality(S \ {c}) = Cardinality(S) - 1 /\ Cardinality(S) >= 1
  <2>1. Cardinality(S \ {c}) = Cardinality(S) - 1
    BY <1>1, FS_RemoveElement
  <2>2. IsFiniteSet(S \ {c})
    BY <1>1, FS_RemoveElement
  <2> QED
    BY <1>2, <2>1, <2>2, FS_CardinalityType
<1>4. ASSUME NEW c \in Clients, c \notin S
      PROVE  Cardinality(S \cup {c}) = Cardinality(S) + 1
  BY <1>1, <1>4, FS_AddElement
<1> QED
  BY <1>1, <1>2, <1>3, <1>4

\* Acquire takes a slot that is free, or waits.
LEMMA AcquireAccounts ==
  ASSUME AdmissionOK, NEW c \in Clients, Acquire(c)
  PROVE  AdmissionOK'
<1> USE DEF AdmissionOK, SlotsAccounted
<1>1. CASE inFlight < MaxPerPrefix
  <2>1. /\ inFlight' = inFlight + 1 /\ holding' = holding \cup {c}
        /\ queue' = queue /\ granted' = granted /\ c \notin holding \cup granted /\ ~Queued(c)
    BY <1>1 DEF Acquire, Outside
  <2>2. Cardinality(holding') = Cardinality(holding) + 1
    BY <2>1, ClientSets
  <2>3. Cardinality(holding) \in Nat /\ Cardinality(granted) \in Nat
    BY ClientSets
  <2> QED
    BY <1>1, <2>1, <2>2, <2>3, AdmissionAssumption DEF Queued
<1>2. CASE ~(inFlight < MaxPerPrefix)
  <2>1. /\ queue' = Append(queue, c) /\ UNCHANGED <<inFlight, holding, granted>>
        /\ c \notin holding \cup granted /\ ~Queued(c)
    BY <1>2 DEF Acquire, Outside
  <2>2. /\ queue' \in Seq(Clients) /\ Len(queue') = Len(queue) + 1 /\ Len(queue) \in Nat
        /\ \A i \in 1..Len(queue) : queue'[i] = queue[i]
        /\ queue'[Len(queue) + 1] = c
    BY <2>1
  <2>3. \A i, j \in 1..Len(queue') : i # j => queue'[i] # queue'[j]
    BY <2>1, <2>2 DEF Queued
  <2>4. \A d \in holding' \cup granted' : ~Queued(d)'
    BY <2>1, <2>2 DEF Queued
  <2> QED
    BY <2>1, <2>2, <2>3, <2>4
<1> QED
  BY <1>1, <1>2

\* A waiter that sees its slot holds it.
LEMMA WokenAccounts ==
  ASSUME AdmissionOK, NEW c \in Clients, Woken(c)
  PROVE  AdmissionOK'
<1> USE DEF AdmissionOK, SlotsAccounted
<1>1. /\ c \in granted /\ c \notin holding
      /\ granted' = granted \ {c} /\ holding' = holding \cup {c}
      /\ UNCHANGED <<inFlight, queue>>
  BY DEF Woken
<1>2. Cardinality(holding') = Cardinality(holding) + 1
  BY <1>1, ClientSets
<1>3. Cardinality(granted') = Cardinality(granted) - 1
  BY <1>1, ClientSets
<1>4. Cardinality(holding) \in Nat /\ Cardinality(granted) \in Nat
  BY ClientSets
<1> QED
  BY <1>1, <1>2, <1>3, <1>4 DEF Queued

\* Release passes the slot to the first in the queue, or gives it back.
LEMMA ReleaseAccounts ==
  ASSUME AdmissionOK, NEW c \in Clients, Release(c)
  PROVE  AdmissionOK'
<1> USE DEF AdmissionOK, SlotsAccounted
<1>1. c \in holding /\ c \notin granted /\ ~Queued(c) /\ holding' = holding \ {c}
  BY DEF Release
<1>2. Cardinality(holding') = Cardinality(holding) - 1 /\ Cardinality(holding) >= 1
  BY <1>1, ClientSets
<1>3. Cardinality(holding) \in Nat /\ Cardinality(granted) \in Nat
  BY ClientSets
<1>4. CASE queue # <<>>
  <2>1. queue' = Tail(queue) /\ granted' = granted \cup {Head(queue)} /\ inFlight' = inFlight
    BY <1>4 DEF Release
  <2>2. /\ Len(queue) \in Nat \ {0} /\ Head(queue) = queue[1] /\ queue[1] \in Clients
        /\ queue' \in Seq(Clients) /\ Len(queue') = Len(queue) - 1
        /\ \A i \in 1..Len(queue') : queue'[i] = queue[i + 1]
    BY <1>4, <2>1
  <2>3. Head(queue) \notin granted /\ Head(queue) \notin holding
    BY <2>2 DEF Queued
  <2>4. Cardinality(granted') = Cardinality(granted) + 1
    BY <2>1, <2>2, <2>3, ClientSets
  <2>5. ASSUME NEW i \in 1..Len(queue'), NEW j \in 1..Len(queue'), i # j
        PROVE  queue'[i] # queue'[j]
    <3>1. i + 1 \in 1..Len(queue) /\ j + 1 \in 1..Len(queue) /\ i + 1 # j + 1
      BY <2>2, <2>5
    <3>2. queue[i + 1] # queue[j + 1]
      BY <3>1
    <3> QED
      BY <2>2, <3>2
  <2>6. \A d \in holding' \cup granted' : ~Queued(d)'
    <3>1. ASSUME NEW i \in 1..Len(queue') PROVE queue'[i] = queue[i + 1] /\ queue[i + 1] # queue[1] /\ queue[i + 1] \notin holding \cup granted
      BY <2>2 DEF Queued
    <3> QED
      BY <1>1, <2>1, <2>2, <3>1 DEF Queued
  <2> QED
    BY <1>1, <1>2, <1>3, <2>1, <2>2, <2>3, <2>4, <2>5, <2>6
<1>5. CASE queue = <<>>
  <2>1. inFlight' = inFlight - 1 /\ UNCHANGED <<queue, granted>>
    BY <1>5 DEF Release
  <2>2. inFlight' = Cardinality(holding') + Cardinality(granted') /\ inFlight' \in 0..MaxPerPrefix
    BY <1>2, <1>3, <2>1, AdmissionAssumption
  <2>3. \A d \in holding' \cup granted' : ~Queued(d)'
    BY <1>1, <2>1 DEF Queued
  <2> QED
    BY <1>1, <2>1, <2>2, <2>3
<1> QED
  BY <1>4, <1>5

\* What is left of a queue when the channel at i is cut out of it.
LEMMA CutOut ==
  ASSUME NEW q \in Seq(Clients), NEW i \in 1..Len(q)
  PROVE  LET t == SubSeq(q, 1, i - 1) \o SubSeq(q, i + 1, Len(q))
         IN /\ t \in Seq(Clients) /\ Len(t) = Len(q) - 1
            /\ \A j \in 1..Len(t) : t[j] = IF j < i THEN q[j] ELSE q[j + 1]
<1>1. Len(q) \in Nat /\ i \in Nat
  OBVIOUS
<1> DEFINE a == SubSeq(q, 1, i - 1)
           b == SubSeq(q, i + 1, Len(q))
           t == a \o b
<1>2. a \in Seq(Clients) /\ Len(a) = i - 1 /\ \A j \in 1..(i - 1) : a[j] = q[j]
  BY <1>1
<1>3. b \in Seq(Clients) /\ Len(b) = Len(q) - i /\ \A j \in 1..(Len(q) - i) : b[j] = q[i + j]
  BY <1>1
<1>4. t = a \o b
  OBVIOUS
<1> HIDE DEF a, b, t
<1>5. t \in Seq(Clients) /\ Len(t) = Len(a) + Len(b)
  BY <1>2, <1>3, <1>4, ConcatProperties, Zenon
<1>6. ASSUME NEW j \in 1..(Len(a) + Len(b))
      PROVE  t[j] = IF j <= Len(a) THEN a[j] ELSE b[j - Len(a)]
  <2>1. (a \o b)[j] = IF j <= Len(a) THEN a[j] ELSE b[j - Len(a)]
    BY <1>2, <1>3, ConcatProperties
  <2> QED
    BY <1>4, <2>1
<1>7. ASSUME NEW j \in 1..Len(t) PROVE t[j] = IF j < i THEN q[j] ELSE q[j + 1]
  <2>1. CASE j < i
    BY <1>1, <1>2, <1>6, <2>1
  <2>2. CASE ~(j < i)
    <3>1. t[j] = b[j - (i - 1)] /\ j - (i - 1) \in 1..(Len(q) - i)
      BY <1>1, <1>2, <1>3, <1>5, <1>6, <2>2
    <3>2. b[j - (i - 1)] = q[i + (j - (i - 1))] /\ i + (j - (i - 1)) = j + 1
      BY <1>1, <1>3, <3>1
    <3> QED
      BY <2>2, <3>1, <3>2
  <2> QED
    BY <2>1, <2>2
<1>8. Len(t) = Len(q) - 1
  BY <1>1, <1>2, <1>3, <1>5
<1>9. /\ t \in Seq(Clients) /\ Len(t) = Len(q) - 1
      /\ \A j \in 1..Len(t) : t[j] = IF j < i THEN q[j] ELSE q[j + 1]
  BY <1>5, <1>7, <1>8
<1> QED
  BY <1>9, Zenon DEF t, a, b

\* A waiter that gives up leaves no slot behind, given one or not.
LEMMA CancelAccounts ==
  ASSUME AdmissionOK, NEW c \in Clients, Cancel(c)
  PROVE  AdmissionOK'
<1> USE DEF AdmissionOK, SlotsAccounted
<1>1. /\ granted' = granted \ {c} /\ holding' = holding
      /\ inFlight' = IF c \in granted THEN inFlight - 1 ELSE inFlight
  BY DEF Cancel
<1>2. Cardinality(holding) \in Nat /\ Cardinality(granted) \in Nat
  BY ClientSets
<1>3. inFlight' = Cardinality(holding') + Cardinality(granted') /\ inFlight' \in 0..MaxPerPrefix
  <2>1. CASE c \in granted
    <3>1. Cardinality(granted') = Cardinality(granted) - 1 /\ Cardinality(granted) >= 1
      BY <1>1, <2>1, ClientSets
    <3>2. holding' = holding /\ inFlight' = inFlight - 1
      BY <1>1, <2>1
    <3> QED
      BY <1>2, <3>1, <3>2, AdmissionAssumption
  <2>2. CASE c \notin granted
    <3>1. granted' = granted
      BY <1>1, <2>2
    <3> QED
      BY <1>1, <2>2, <3>1
  <2> QED
    BY <2>1, <2>2
<1>4. /\ queue' \in Seq(Clients)
      /\ \A i, j \in 1..Len(queue') : i # j => queue'[i] # queue'[j]
      /\ \A d \in holding \cup granted : ~Queued(d)'
  <2>1. CASE Queued(c)
    <3>1. PICK i \in 1..Len(queue) :
             queue' = SubSeq(queue, 1, i - 1) \o SubSeq(queue, i + 1, Len(queue))
      BY <2>1 DEF Cancel, LeaveQueue
    <3>2. /\ queue' \in Seq(Clients) /\ Len(queue') = Len(queue) - 1
          /\ \A j \in 1..Len(queue') : queue'[j] = IF j < i THEN queue[j] ELSE queue[j + 1]
      <4>1. queue \in Seq(Clients)
        OBVIOUS
      <4> QED
        BY <3>1, <4>1, CutOut, Zenon
    <3>3. Len(queue) \in Nat /\ i \in Nat
      OBVIOUS
    <3>4. ASSUME NEW j \in 1..Len(queue'), NEW k \in 1..Len(queue'), j # k
          PROVE  queue'[j] # queue'[k]
      <4>1. PICK p \in 1..Len(queue), q \in 1..Len(queue) :
               /\ p = (IF j < i THEN j ELSE j + 1) /\ q = (IF k < i THEN k ELSE k + 1)
        BY <3>2, <3>3
      <4>2. p # q /\ queue'[j] = queue[p] /\ queue'[k] = queue[q]
        BY <3>2, <3>3, <3>4, <4>1
      <4> QED
        BY <4>2
    <3>5. ASSUME NEW d \in holding \cup granted PROVE ~Queued(d)'
      BY <3>2, <3>3 DEF Queued
    <3> QED
      BY <3>2, <3>4, <3>5
  <2>2. CASE ~Queued(c)
    <3>1. queue' = queue
      BY <2>2 DEF Cancel, LeaveQueue
    <3> QED
      BY <3>1 DEF Queued
  <2> QED
    BY <2>1, <2>2
<1> QED
  BY <1>1, <1>3, <1>4

LEMMA AdmissionInductive ==
  ASSUME AdmissionOK, [Next]_vars
  PROVE  AdmissionOK'
<1>1. ASSUME UNCHANGED admissionVars PROVE AdmissionOK'
  BY <1>1 DEF AdmissionOK, SlotsAccounted, Queued, admissionVars
<1>2. CASE Crash
  <2>1. inFlight' = 0 /\ queue' = <<>> /\ granted' = {} /\ holding' = {}
    BY <1>2 DEF Crash
  <2> QED
    BY <2>1, FS_EmptySet, AdmissionAssumption DEF AdmissionOK, SlotsAccounted, Queued
<1>3. ASSUME NEW c \in Clients, AskStore(c) PROVE AdmissionOK'
  BY <1>3, AcquireAccounts DEF AskStore
<1>4. ASSUME NEW c \in Clients, SeeSlot(c) PROVE AdmissionOK'
  BY <1>4, WokenAccounts DEF SeeSlot
<1>5. ASSUME NEW c \in Clients, UseStore(c) PROVE AdmissionOK'
  BY <1>5, ReleaseAccounts DEF UseStore
<1>6. ASSUME NEW c \in Clients, GiveUpWaiting(c) PROVE AdmissionOK'
  BY <1>6, CancelAccounts DEF GiveUpWaiting
<1>7. CASE \/ Open \/ OpenMissing \/ DeletesDone \/ UNCHANGED vars
           \/ \E n \in 1..2 : BeginAppend(n)
           \/ \E s \in Seqs : BeginAdvance(s)
           \/ \E r \in Readers : EndRead(r) \/ \E after \in 0..MaxSeq : BeginRead(r, after)
  BY <1>1, <1>7 DEF Open, OpenMissing, DeletesDone, vars, BeginAppend, BeginAdvance, EndRead, BeginRead
<1> QED
  BY <1>2, <1>3, <1>4, <1>5, <1>6, <1>7 DEF Next

\* No slot of a prefix is lost or handed out twice, whatever waiters give up
\* and whenever the process restarts: what is counted in flight is held or on
\* its way to one waiter, and never more than MaxPerPrefix (Acquire, Release).
THEOREM SlotsAlwaysAccounted == Spec => []SlotsAccounted
<1>1. Init => AdmissionOK
  BY FS_EmptySet, AdmissionAssumption
     DEF Init, AdmissionInit, AdmissionOK, SlotsAccounted, Queued
<1>2. AdmissionOK /\ [Next]_vars => AdmissionOK'
  BY AdmissionInductive
<1>3. AdmissionOK => SlotsAccounted
  BY DEF AdmissionOK
<1> QED
  BY <1>1, <1>2, <1>3, PTL DEF Spec
-----------------------------------------------------------------------------
(* The log.                                                                *)

LogTypeOK ==
  /\ manifest \in Manifests \cup {None} /\ stored \in Manifests \cup {None}
  /\ objects \in [Seqs -> Seq(Nat) \cup {None}]
  /\ job \in {Idle, Creating} \cup [kind : {"fragment", "manifest"}, batch : Seq(Nat)]
                 \cup [kind : {"delete"}, todo : SUBSET Fragments]
  /\ reader \in [Readers -> [phase : {"idle", "reading", "done"}, after : 0..MaxSeq,
                           todo : SUBSET Fragments, got : SUBSET [seq : Nat, rec : Nat],
                           due : SUBSET Seqs]]
  /\ appends \in Nat /\ consumed \in 0..MaxSeq
  /\ acked \in [Seqs -> Nat \cup {None}]

\* The last sequence id below the one being appended.
Floor == IF job.kind = "manifest" THEN manifest.head - Len(job.batch) ELSE manifest.head

\* Where there is no log, or none yet, nothing goes on.
Quiet ==
  /\ manifest = None => job \in {Idle, Creating} /\ \A r \in Readers : reader[r] = Resting
  /\ job = Creating => manifest = None
  /\ stored = None => Acked = {} /\ manifest = None
  /\ job.kind = "fragment" => manifest.head + Len(job.batch) <= MaxSeq /\ Len(job.batch) > 0

\* What a manifest in the store or in memory lists.
Listed(m) == IF m = None THEN {} ELSE m.fragments

Deleting == IF job.kind = "delete" THEN job.todo ELSE {}

\* The fragments of a manifest are below its head and hold every acknowledged
\* record from its cursor on.
ManifestOK(m) ==
  m # None =>
    /\ m.cursor <= consumed
    /\ \A f \in m.fragments : f.first <= f.last /\ f.last <= m.head
    /\ \A s \in Acked : s >= m.cursor => \E f \in m.fragments : Holds(f, s)

\* The fragment of the append under way is the last of the manifest.
LastFragment == [first |-> Floor + 1, last |-> manifest.head]

MemoryOK ==
  manifest # None =>
    /\ Floor >= 0
    /\ stored # None => stored.head <= Floor
    /\ \A f \in manifest.fragments \cup Deleting :
         f.first <= f.last /\ (f.last <= Floor \/ f = LastFragment)
    /\ \A f \in Deleting : f.last < consumed
    /\ job.kind = "manifest" /\ Len(job.batch) > 0 =>
         LastFragment \in manifest.fragments /\ objects[Floor + 1] = job.batch

AckedBelow == \A s \in Acked : stored # None /\ s <= stored.head

\* No two fragments of the log start at the same place.
OneByFirst ==
  \A f, g \in Listed(manifest) \cup Listed(stored) \cup Deleting :
    f.first = g.first => f = g

\* An object that is there has the records acknowledged in its range.
Faithful(f) ==
  objects[f.first] # None =>
    /\ Len(objects[f.first]) = f.last - f.first + 1
    /\ \A s \in Acked : Holds(f, s) => objects[f.first][s - f.first + 1] = acked[s]

ObjectsOK ==
  /\ \A f \in Listed(manifest) \cup Listed(stored) : Faithful(f)
  /\ \A f \in Listed(manifest) \cup Listed(stored) :
       f.last >= consumed => objects[f.first] # None

ReaderOK(r) ==
  /\ reader[r].phase # "reading" => reader[r].todo = {}
  /\ \A f \in reader[r].todo : f.first <= f.last /\ f.last <= Floor /\ Faithful(f)
  /\ \A x \in reader[r].got :
       x.seq <= Floor /\ (x.seq \in Acked => x.rec = acked[x.seq])
  /\ \A s \in reader[r].due :
       /\ s \in Acked /\ s > reader[r].after
       /\ \/ \E x \in reader[r].got : x.seq = s
          \/ \E f \in reader[r].todo : Holds(f, s)

ReadersOK == \A r \in Readers : ReaderOK(r)

LogInv ==
  /\ LogTypeOK /\ Quiet /\ MemoryOK /\ ManifestOK(manifest) /\ ManifestOK(stored)
  /\ AckedBelow /\ OneByFirst /\ ObjectsOK /\ ReadersOK

-----------------------------------------------------------------------------
(* Lemmas.                                                                 *)

\* Every set of sequence ids that is not empty has a least one.
LEMMA LeastNat ==
  ASSUME NEW S, S \subseteq Nat, S # {}
  PROVE  \E m \in S : \A n \in S : m <= n
<1>1. \E m \in S : \A n \in S : <<n, m>> \notin OpToRel(<, Nat)
  BY WFMin, NatLessThanWellFounded, Zenon
<1>2. PICK m \in S : \A n \in S : <<n, m>> \notin OpToRel(<, Nat)
  BY <1>1
<1>3. \A n \in S : ~(n < m)
  BY <1>2 DEF OpToRel
<1> QED
  BY <1>3

\* The fragment taken next from a list is one of the list.
LEMMA OldestIsListed ==
  ASSUME NEW fs, fs \subseteq Fragments, fs # {}
  PROVE  Oldest(fs) \in fs
<1> DEFINE firsts == {f.first : f \in fs}
<1>1. firsts \subseteq Nat /\ firsts # {}
  BY S3LogAssumption DEF Fragments, Seqs
<1>2. PICK m \in firsts : \A n \in firsts : m <= n
  BY <1>1, LeastNat, Zenon
<1>3. \E f \in fs : \A g \in fs : f.first <= g.first
  BY <1>2
<1> QED
  BY <1>3 DEF Oldest

LEMMA MaxOfTwo ==
  ASSUME NEW a \in Nat, NEW b \in Nat
  PROVE  Max({a, b}) \in {a, b} /\ Max({a, b}) >= a /\ Max({a, b}) >= b
<1>1. \E x \in {a, b} : \A y \in {a, b} : x >= y
  OBVIOUS
<1> QED
  BY <1>1 DEF Max

\* The log is as it was.
LEMMA LogUnchanged ==
  ASSUME LogInv,
         UNCHANGED <<manifest, stored, objects, job, reader, acked, consumed, appends>>
  PROVE  LogInv'
<1> USE DEF LogInv
<1>0. \A f : Faithful(f)' <=> Faithful(f)
  BY DEF Faithful, Acked, Holds
<1>1. LogTypeOK' /\ Quiet'
  BY DEF LogTypeOK, Quiet, Resting, Acked
<1>2. MemoryOK' /\ ManifestOK(manifest)' /\ ManifestOK(stored)' /\ AckedBelow'
  BY DEF MemoryOK, ManifestOK, AckedBelow, Acked, Holds, LastFragment, Deleting, Floor
<1>3. Listed(manifest)' = Listed(manifest) /\ Listed(stored)' = Listed(stored)
  BY DEF Listed
<1>4. OneByFirst' /\ ObjectsOK'
  <2>1. OneByFirst'
    BY <1>3 DEF OneByFirst, Deleting
  <2>2. ObjectsOK'
    BY <1>0, <1>3 DEF ObjectsOK
  <2> QED
    BY <2>1, <2>2
<1>5. ReadersOK'
  <2>1. Floor' = Floor /\ Acked' = Acked
    BY DEF Floor, Acked
  <2>2. \A r \in Readers : ReaderOK(r)'
    BY <1>0, <2>1 DEF ReadersOK, ReaderOK, Holds
  <2> QED
    BY <2>2 DEF ReadersOK
<1> QED
  BY <1>1, <1>2, <1>4, <1>5

-----------------------------------------------------------------------------
(* Each step keeps the invariant.                                          *)

LEMMA OpenKeeps ==
  ASSUME LogInv, Open
  PROVE  LogInv'
<1> USE S3LogAssumption DEF LogInv, Open
<1>1. /\ job = Idle /\ job' = Idle /\ \A r \in Readers : reader[r] = Resting
      /\ manifest' = stored /\ stored # None /\ stored \in Manifests
      /\ UNCHANGED <<stored, objects, reader, appends, acked, consumed>>
  BY DEF Quiet, LogTypeOK, history
<1>2. Floor' = stored.head /\ Deleting' = {} /\ Deleting = {}
      /\ Listed(manifest)' = Listed(stored) /\ Listed(stored)' = Listed(stored)
  BY <1>1 DEF Floor, Idle, Deleting, Listed
<1>3. LogTypeOK' /\ Quiet'
  BY <1>1 DEF LogTypeOK, Quiet, Idle, Creating, Acked
<1>4. MemoryOK'
  BY <1>1, <1>2 DEF MemoryOK, ManifestOK, Manifests, Listed, Idle
<1>5. ManifestOK(manifest)' /\ ManifestOK(stored)'
  BY <1>1 DEF ManifestOK, Acked, Holds
<1>6. AckedBelow' /\ OneByFirst' /\ ObjectsOK'
  BY <1>1, <1>2 DEF AckedBelow, OneByFirst, ObjectsOK, Faithful, Acked, Holds
<1>7. ReadersOK'
  BY <1>1 DEF ReadersOK, ReaderOK, Resting
<1> QED
  BY <1>3, <1>4, <1>5, <1>6, <1>7

LEMMA OpenMissingKeeps ==
  ASSUME LogInv, OpenMissing
  PROVE  LogInv'
<1> USE DEF LogInv
<1>1. /\ job = Idle /\ job' = Creating /\ manifest = None
      /\ \A r \in Readers : reader[r] = Resting
      /\ UNCHANGED <<manifest, stored, objects, reader, appends, acked, consumed>>
  BY DEF OpenMissing, Quiet, history
<1>2. Deleting' = {} /\ Deleting = {}
      /\ Listed(manifest)' = Listed(manifest) /\ Listed(stored)' = Listed(stored)
  BY <1>1 DEF Idle, Creating, Deleting, Listed
<1>3. LogTypeOK' /\ Quiet'
  BY <1>1 DEF LogTypeOK, Quiet, Idle, Creating, Acked
<1>4. MemoryOK' /\ ManifestOK(manifest)' /\ ManifestOK(stored)' /\ AckedBelow'
  BY <1>1 DEF MemoryOK, ManifestOK, AckedBelow, Acked, Holds
<1>5. OneByFirst' /\ ObjectsOK'
  BY <1>1, <1>2 DEF OneByFirst, ObjectsOK, Faithful, Acked, Holds
<1>6. ReadersOK'
  BY <1>1 DEF ReadersOK, ReaderOK, Resting
<1> QED
  BY <1>3, <1>4, <1>5, <1>6

\* A log begun anew lists nothing, and nothing of it is acknowledged.
LEMMA PutFirstKeeps ==
  ASSUME LogInv, NEW applied \in BOOLEAN, NEW ok \in BOOLEAN, ok => applied,
         PutFirst(applied, ok), UNCHANGED <<reader, appends>>
  PROVE  LogInv'
<1> USE S3LogAssumption DEF LogInv
<1>1. /\ job = Creating /\ manifest = None /\ job' = Idle
      /\ \A r \in Readers : reader[r] = Resting /\ reader'[r] = Resting
      /\ UNCHANGED objects
  BY DEF PutFirst, LogTypeOK, Quiet, Idle, Creating
<1>2. EmptyManifest \in Manifests /\ EmptyManifest # None
  BY DEF EmptyManifest, Manifests
<1>3. Deleting' = {} /\ Deleting = {}
  BY <1>1 DEF Idle, Creating, Deleting
<1>4. ReadersOK'
  BY <1>1 DEF ReadersOK, ReaderOK, Resting
<1>5. CASE applied
  <2>1. /\ stored' = EmptyManifest /\ manifest' \in {None, EmptyManifest}
        /\ acked' = [s \in Seqs |-> None] /\ consumed' = 0 /\ Acked' = {}
    BY <1>5 DEF PutFirst, Acked
  <2>2. Listed(manifest)' = {} /\ Listed(stored)' = {}
    BY <1>2, <2>1 DEF Listed, EmptyManifest
  <2>3. LogTypeOK'
    BY <1>1, <1>2, <2>1 DEF LogTypeOK
  <2>4. Quiet'
    BY <1>1, <1>2, <2>1 DEF Quiet, Idle, Creating
  <2>5. MemoryOK'
    BY <1>1, <1>2, <1>3, <2>1 DEF MemoryOK, Floor, Idle, EmptyManifest
  <2>6. ManifestOK(manifest)' /\ ManifestOK(stored)' /\ AckedBelow'
    BY <2>1 DEF ManifestOK, AckedBelow, EmptyManifest
  <2>7. OneByFirst' /\ ObjectsOK'
    BY <1>3, <2>2 DEF OneByFirst, ObjectsOK
  <2> QED
    BY <1>4, <2>3, <2>4, <2>5, <2>6, <2>7
<1>6. CASE ~applied
  <2>1. manifest' = None /\ UNCHANGED <<stored, acked, consumed>>
    BY <1>6 DEF PutFirst
  <2>2. Listed(manifest)' = Listed(manifest) /\ Listed(stored)' = Listed(stored)
    BY <1>1, <2>1 DEF Listed
  <2>3. LogTypeOK' /\ Quiet'
    BY <1>1, <2>1 DEF LogTypeOK, Quiet, Idle, Acked
  <2>4. MemoryOK' /\ ManifestOK(manifest)' /\ ManifestOK(stored)' /\ AckedBelow'
    BY <1>1, <2>1 DEF MemoryOK, ManifestOK, AckedBelow, Acked, Holds
  <2>5. OneByFirst' /\ ObjectsOK'
    BY <1>1, <1>3, <2>1, <2>2 DEF OneByFirst, ObjectsOK, Faithful, Acked, Holds
  <2> QED
    BY <1>4, <2>3, <2>4, <2>5
<1> QED
  BY <1>5, <1>6

LEMMA CrashKeeps ==
  ASSUME LogInv, Crash
  PROVE  LogInv'
<1> USE DEF LogInv, Crash
<1>1. /\ manifest' = None /\ job' = Idle /\ \A r \in Readers : reader'[r] = Resting
      /\ reader' \in [Readers -> {Resting}]
      /\ UNCHANGED <<stored, objects, appends, acked, consumed>>
  BY DEF history
<1>2. Deleting' = {} /\ Listed(manifest)' = {} /\ Listed(stored)' = Listed(stored)
  BY <1>1 DEF Idle, Deleting, Listed
<1>3. LogTypeOK' /\ Quiet'
  BY <1>1, S3LogAssumption DEF LogTypeOK, Quiet, Idle, Acked, Resting
<1>4. MemoryOK' /\ ManifestOK(manifest)' /\ ManifestOK(stored)' /\ AckedBelow'
  BY <1>1 DEF MemoryOK, ManifestOK, AckedBelow, Acked, Holds
<1>5. OneByFirst' /\ ObjectsOK'
  BY <1>1, <1>2 DEF OneByFirst, ObjectsOK, Faithful, Acked, Holds
<1>6. ReadersOK'
  BY <1>1 DEF ReadersOK, ReaderOK, Resting
<1> QED
  BY <1>3, <1>4, <1>5, <1>6

\* While the log is open and its manifest, its store and its history stand
\* still and no fragment is being put, so does what is said of them.
LEMMA BeginAppendKeeps ==
  ASSUME LogInv, NEW n \in 1..2, BeginAppend(n)
  PROVE  LogInv'
<1> USE DEF LogInv
<1>1. /\ manifest # None /\ job = Idle /\ manifest.head + n <= MaxSeq
      /\ job' = [kind |-> "fragment", batch |-> [i \in 1..n |-> appends + 1]]
      /\ appends' = appends + 1
      /\ UNCHANGED <<manifest, stored, objects, reader, acked, consumed>>
  BY DEF BeginAppend, Ready, history
<1>2. job'.batch \in Seq(Nat) /\ Len(job'.batch) = n /\ appends' \in Nat
  BY <1>1 DEF LogTypeOK
<1>3. Floor' = Floor /\ Deleting' = {} /\ Deleting = {} /\ job'.kind = "fragment" /\ job.kind = "idle"
  BY <1>1 DEF Floor, Idle, Deleting
<1>4. LogTypeOK' /\ Quiet'
  BY <1>1, <1>2, <1>3 DEF LogTypeOK, Quiet, Acked, Idle, Creating
<1>5. MemoryOK' /\ ManifestOK(manifest)' /\ ManifestOK(stored)' /\ AckedBelow'
  BY <1>1, <1>3 DEF MemoryOK, ManifestOK, AckedBelow, Acked, Holds, LastFragment
<1>6. OneByFirst' /\ ObjectsOK'
  BY <1>1, <1>3 DEF OneByFirst, ObjectsOK, Faithful, Acked, Holds, Listed
<1>7. ReadersOK'
  BY <1>1, <1>3 DEF ReadersOK, ReaderOK, Faithful, Acked, Holds
<1> QED
  BY <1>4, <1>5, <1>6, <1>7

LEMMA BeginAdvanceKeeps ==
  ASSUME LogInv, NEW c \in Seqs, BeginAdvance(c)
  PROVE  LogInv'
<1> USE DEF LogInv
<1> DEFINE old == {f \in manifest.fragments : Below(f, c)}
           kept == {f \in manifest.fragments : ~Below(f, c)}
<1>1. /\ manifest # None /\ manifest \in Manifests /\ job = Idle
      /\ job' = [kind |-> "delete", todo |-> old]
      /\ manifest' = [manifest EXCEPT !.cursor = c, !.fragments = kept]
      /\ UNCHANGED <<stored, objects, reader, acked, appends>>
  BY DEF BeginAdvance, Ready, LogTypeOK
<1>2. /\ manifest' \in Manifests /\ manifest' # None
      /\ manifest'.head = manifest.head /\ manifest'.cursor = c /\ manifest'.fragments = kept
  <2>1. kept \in SUBSET Fragments /\ c \in 0..MaxSeq
    BY <1>1, S3LogAssumption DEF Manifests, Seqs
  <2> HIDE DEF kept
  <2>2. manifest' \in Manifests
    BY <1>1, <2>1 DEF Manifests
  <2> QED
    BY <1>1, <2>2, S3LogAssumption DEF Manifests
<1>3. /\ c \in Nat /\ consumed \in Nat /\ consumed' \in 0..MaxSeq
      /\ consumed' >= consumed /\ consumed' >= c
  <2>1. c \in Nat /\ consumed \in Nat /\ c \in 0..MaxSeq /\ consumed \in 0..MaxSeq
    BY S3LogAssumption DEF Seqs, LogTypeOK
  <2>2. consumed' = Max({consumed, c})
    BY DEF BeginAdvance
  <2>3. consumed' \in {consumed, c} /\ consumed' >= consumed /\ consumed' >= c
    BY <2>1, <2>2, MaxOfTwo, Zenon
  <2> QED
    BY <2>1, <2>3
<1>4. Floor' = Floor /\ Deleting' = old /\ Deleting = {} /\ job'.kind = "delete" /\ job.kind = "idle"
  BY <1>1, <1>2 DEF Floor, Idle, Deleting
<1>5. old \subseteq manifest.fragments /\ kept \subseteq manifest.fragments
      /\ Listed(manifest) = manifest.fragments /\ Listed(manifest)' = kept /\ Listed(stored)' = Listed(stored)
  BY <1>1, <1>2 DEF Listed
<1>6. \A f \in manifest.fragments : f.first \in Nat /\ f.last \in Nat
  BY <1>1, S3LogAssumption DEF Manifests, Fragments, Seqs
<1>7. Acked' = Acked /\ Acked \subseteq Nat
  BY <1>1, S3LogAssumption DEF Acked, Seqs
<1>8. LogTypeOK'
  BY <1>1, <1>2, <1>3, <1>5 DEF LogTypeOK, Manifests
<1>9. Quiet'
  BY <1>1, <1>2, <1>4, <1>7 DEF Quiet, Creating
<1>10. MemoryOK'
  <2>1. \A f \in manifest'.fragments \cup Deleting' :
          f.first <= f.last /\ (f.last <= Floor \/ f = LastFragment)
    BY <1>1, <1>2, <1>4, <1>5 DEF MemoryOK
  <2>2. \A f \in Deleting' : f.last < consumed'
    BY <1>3, <1>4, <1>6 DEF Below
  <2>3. LastFragment' = LastFragment
    BY <1>2, <1>4 DEF LastFragment
  <2> QED
    BY <1>1, <1>2, <1>4, <2>1, <2>2, <2>3 DEF MemoryOK
<1>11. ManifestOK(manifest)'
  <2>1. ASSUME NEW s \in Acked, s >= c PROVE \E f \in kept : Holds(f, s)
    <3>1. manifest.cursor \in Nat /\ c > manifest.cursor /\ s \in Nat
      BY <1>1, <1>7, S3LogAssumption DEF BeginAdvance, Manifests
    <3>2. PICK f \in manifest.fragments : Holds(f, s)
      BY <1>1, <1>3, <2>1, <3>1 DEF ManifestOK
    <3>3. f \in kept
      BY <1>3, <1>6, <2>1, <3>1, <3>2 DEF Holds, Below
    <3> QED
      BY <3>2, <3>3
  <2>2. \A f \in kept : f.first <= f.last /\ f.last <= manifest.head
    BY <1>1, <1>5 DEF ManifestOK
  <2> QED
    BY <1>2, <1>3, <1>7, <2>1, <2>2 DEF ManifestOK, Holds
<1>12. ManifestOK(stored)' /\ AckedBelow'
  <2>1. stored # None => stored.cursor \in Nat
    BY S3LogAssumption DEF LogTypeOK, Manifests
  <2> QED
    BY <1>1, <1>3, <1>7, <2>1 DEF ManifestOK, AckedBelow, Holds
<1>13. OneByFirst'
  BY <1>4, <1>5 DEF OneByFirst
<1>14. ObjectsOK'
  <2>1. \A f \in Listed(manifest) \cup Listed(stored) : f.last \in Nat
    BY S3LogAssumption DEF Listed, LogTypeOK, Manifests, Fragments, Seqs
  <2>2. \A f \in Listed(manifest)' \cup Listed(stored)' : f.last >= consumed' => objects'[f.first] # None
    <3> SUFFICES ASSUME NEW f \in kept \cup Listed(stored), f.last >= consumed'
                 PROVE  objects[f.first] # None
      BY <1>1, <1>5
    <3>1. f \in Listed(manifest) \cup Listed(stored) /\ f.last \in Nat
      BY <1>5, <2>1
    <3>2. f.last >= consumed
      BY <1>3, <3>1
    <3> QED
      BY <3>1, <3>2 DEF ObjectsOK
  <2>3. \A f : Faithful(f)' <=> Faithful(f)
    BY <1>1, <1>7 DEF Faithful, Holds
  <2>4. \A f \in Listed(manifest)' \cup Listed(stored)' : f \in Listed(manifest) \cup Listed(stored)
    BY <1>1, <1>5
  <2> QED
    BY <2>2, <2>3, <2>4 DEF ObjectsOK
<1>15. ReadersOK'
  BY <1>1, <1>4, <1>7 DEF ReadersOK, ReaderOK, Faithful, Holds
<1> QED
  BY <1>8, <1>9, <1>10, <1>11, <1>12, <1>13, <1>14, <1>15

\* The places of fragments, heads and acknowledged records are numbers.
LEMMA Numbers ==
  ASSUME LogTypeOK
  PROVE  /\ \A f \in Fragments : f.first \in Nat /\ f.last \in Nat /\ f.first \in Seqs
         /\ Listed(manifest) \subseteq Fragments /\ Listed(stored) \subseteq Fragments
         /\ Deleting \subseteq Fragments
         /\ \A r \in Readers : reader[r].todo \subseteq Fragments
         /\ \A m \in Manifests : m.head \in Nat /\ m.cursor \in Nat
         /\ Acked \subseteq Nat /\ consumed \in Nat
<1>1. \A f \in Fragments : f.first \in Nat /\ f.last \in Nat /\ f.first \in Seqs
  BY S3LogAssumption DEF Fragments, Seqs
<1>2. Listed(manifest) \subseteq Fragments /\ Listed(stored) \subseteq Fragments
  BY DEF LogTypeOK, Listed, Manifests
<1>3. Deleting \subseteq Fragments
  BY DEF LogTypeOK, Deleting, Idle, Creating
<1>4. \A r \in Readers : reader[r].todo \subseteq Fragments
  BY DEF LogTypeOK
<1>5. \A m \in Manifests : m.head \in Nat /\ m.cursor \in Nat
  BY DEF Manifests
<1>6. Acked \subseteq Nat /\ consumed \in Nat
  BY DEF Acked, Seqs, LogTypeOK
<1> QED
  BY <1>1, <1>2, <1>3, <1>4, <1>5, <1>6

\* Whoever holds w.mu has a manifest.
LEMMA JobHasManifest ==
  ASSUME LogInv, job.kind \notin {"idle", "create"}
  PROVE  /\ manifest # None /\ manifest \in Manifests /\ manifest.head \in Nat
         /\ Listed(manifest) = manifest.fragments /\ stored # None
<1>1. manifest # None /\ manifest \in Manifests
  BY DEF LogInv, Quiet, Idle, Creating, LogTypeOK
<1>2. stored # None
  BY <1>1 DEF LogInv, Quiet
<1> QED
  BY <1>1, <1>2 DEF Listed, Manifests

LEMMA DeletesDoneKeeps ==
  ASSUME LogInv, DeletesDone
  PROVE  LogInv'
<1> USE DEF LogInv
<1>1. /\ job.kind = "delete" /\ job.todo = {}
      /\ job' = [kind |-> "manifest", batch |-> <<>>]
      /\ UNCHANGED <<manifest, stored, objects, reader, acked, appends, consumed>>
  BY DEF DeletesDone, history
<1>2. manifest # None /\ stored # None /\ manifest \in Manifests /\ manifest.head \in Nat
  BY <1>1, JobHasManifest
<1>3. job'.kind = "manifest" /\ job'.batch = <<>> /\ Len(job'.batch) = 0
  BY <1>1
<1>4. Floor' = Floor /\ Deleting' = {} /\ Deleting = {}
  BY <1>1, <1>2, <1>3 DEF Floor, Deleting
<1>5. LogTypeOK' /\ Quiet'
  BY <1>1, <1>2, <1>3 DEF LogTypeOK, Quiet, Acked, Creating
<1>6. MemoryOK' /\ ManifestOK(manifest)' /\ ManifestOK(stored)' /\ AckedBelow'
  BY <1>1, <1>3, <1>4 DEF MemoryOK, ManifestOK, AckedBelow, Acked, Holds, LastFragment
<1>7. OneByFirst' /\ ObjectsOK'
  BY <1>1, <1>4 DEF OneByFirst, ObjectsOK, Faithful, Acked, Holds, Listed
<1>8. ReadersOK'
  BY <1>1, <1>4 DEF ReadersOK, ReaderOK, Faithful, Acked, Holds
<1> QED
  BY <1>5, <1>6, <1>7, <1>8

LEMMA BeginReadKeeps ==
  ASSUME LogInv, NEW r \in Readers, NEW after \in 0..MaxSeq, BeginRead(r, after)
  PROVE  LogInv'
<1> USE DEF LogInv
<1> DEFINE todo == {f \in manifest.fragments : f.last > after}
           due == {s \in Acked : s > after /\ s >= manifest.cursor}
<1>1. /\ manifest # None /\ job = Idle /\ manifest \in Manifests
      /\ reader' = [reader EXCEPT ![r] =
                      [phase |-> "reading", after |-> after, todo |-> todo, got |-> {}, due |-> due]]
      /\ UNCHANGED <<manifest, stored, objects, job, acked, appends, consumed>>
  BY DEF BeginRead, Ready, history, LogTypeOK
<1>2. stored # None /\ Floor = manifest.head /\ Floor' = Floor
  BY <1>1 DEF Floor, Quiet, Idle
<1>3. \A p \in Readers : p # r => reader'[p] = reader[p]
  BY <1>1 DEF LogTypeOK
<1>4. /\ reader'[r].phase = "reading" /\ reader'[r].after = after /\ reader'[r].todo = todo
      /\ reader'[r].got = {} /\ reader'[r].due = due
  BY <1>1 DEF LogTypeOK
<1>5. LogTypeOK'
  <2>1. todo \in SUBSET Fragments /\ due \in SUBSET Seqs
    BY <1>1 DEF Manifests, Acked
  <2> HIDE DEF todo, due
  <2> QED
    BY <1>1, <2>1 DEF LogTypeOK
<1>6. Quiet'
  BY <1>1, <1>2 DEF Quiet, Acked, Idle
<1>7. MemoryOK' /\ ManifestOK(manifest)' /\ ManifestOK(stored)' /\ AckedBelow'
  BY <1>1, <1>2 DEF MemoryOK, ManifestOK, AckedBelow, Acked, Holds, LastFragment, Deleting
<1>8. OneByFirst' /\ ObjectsOK'
  BY <1>1 DEF OneByFirst, ObjectsOK, Faithful, Acked, Holds, Listed, Deleting
<1>9. ReaderOK(r)'
  <2>1. ASSUME NEW f \in todo PROVE f.first <= f.last /\ f.last <= Floor /\ Faithful(f)
    BY <1>1, <1>2 DEF ManifestOK, ObjectsOK, Listed
  <2>2. ASSUME NEW s \in due PROVE s \in Acked /\ s > after /\ \E f \in todo : Holds(f, s)
    <3>1. PICK f \in manifest.fragments : Holds(f, s)
      BY <1>1 DEF ManifestOK
    <3>2. f.first \in Nat /\ f.last \in Nat /\ s \in Nat
      BY <1>1, Numbers DEF Listed
    <3>3. f.last > after
      BY <3>1, <3>2 DEF Holds
    <3> QED
      BY <3>1, <3>3
  <2> HIDE DEF todo, due
  <2>3. \A f \in todo : Faithful(f)'
    BY <1>1, <2>1 DEF Faithful, Acked, Holds
  <2> QED
    BY <1>1, <1>2, <1>4, <2>1, <2>2, <2>3 DEF ReaderOK, Acked, Holds
<1>10. ReadersOK'
  BY <1>1, <1>2, <1>3, <1>9 DEF ReadersOK, ReaderOK, Faithful, Acked, Holds
<1> QED
  BY <1>5, <1>6, <1>7, <1>8, <1>10

LEMMA EndReadKeeps ==
  ASSUME LogInv, NEW r \in Readers, EndRead(r)
  PROVE  LogInv'
<1> USE DEF LogInv
<1>1. /\ reader[r].phase = "reading" /\ reader[r].todo = {}
      /\ reader' = [reader EXCEPT ![r].phase = "done"]
      /\ UNCHANGED <<manifest, stored, objects, job, acked, appends, consumed>>
  BY DEF EndRead, history
<1>2. /\ \A p \in Readers : p # r => reader'[p] = reader[p]
      /\ reader'[r].todo = reader[r].todo /\ reader'[r].after = reader[r].after
      /\ reader'[r].got = reader[r].got /\ reader'[r].due = reader[r].due
  BY <1>1 DEF LogTypeOK
<1>3. LogTypeOK'
  <2>1. reader' \in [Readers -> [phase : {"idle", "reading", "done"}, after : 0..MaxSeq,
                                 todo : SUBSET Fragments, got : SUBSET [seq : Nat, rec : Nat],
                                 due : SUBSET Seqs]]
    <3>1. PICK R : R = [phase : {"idle", "reading", "done"}, after : 0..MaxSeq,
                        todo : SUBSET Fragments, got : SUBSET [seq : Nat, rec : Nat],
                        due : SUBSET Seqs]
      OBVIOUS
    <3>2. reader \in [Readers -> R]
      BY <3>1 DEF LogTypeOK
    <3>3. PICK q \in R : q = reader[r]
      BY <3>2
    <3>4. [q EXCEPT !.phase = "done"] \in R
      BY <3>1, <3>3
    <3>5. reader' = [reader EXCEPT ![r] = [q EXCEPT !.phase = "done"]]
      BY <1>1, <3>3
    <3>6. reader' \in [Readers -> R]
      BY <3>2, <3>4, <3>5
    <3> QED
      BY <3>1, <3>6
  <2>2. LogTypeOK
    OBVIOUS
  <2> HIDE DEF LogInv
  <2> QED
    BY <1>1, <2>1, <2>2 DEF LogTypeOK
<1>4. Quiet'
  BY <1>1 DEF Quiet, Resting, Acked
<1>5. MemoryOK' /\ ManifestOK(manifest)' /\ ManifestOK(stored)' /\ AckedBelow'
  BY <1>1 DEF MemoryOK, ManifestOK, AckedBelow, Acked, Holds, LastFragment, Deleting, Floor
<1>6. OneByFirst' /\ ObjectsOK'
  BY <1>1 DEF OneByFirst, ObjectsOK, Faithful, Acked, Holds, Listed, Deleting
<1>7. ReadersOK'
  BY <1>1, <1>2 DEF ReadersOK, ReaderOK, Faithful, Acked, Holds, Floor
<1> QED
  BY <1>3, <1>4, <1>5, <1>6, <1>7

\* The fragment is put where nothing listed or being read starts.
LEMMA PutFragmentKeeps ==
  ASSUME LogInv, NEW applied \in BOOLEAN, NEW ok \in BOOLEAN, ok => applied,
         PutFragment(applied, ok), UNCHANGED <<reader, appends, consumed>>
  PROVE  LogInv'
<1> USE DEF LogInv
<1> DEFINE start == manifest.head + 1
           end == manifest.head + Len(job.batch)
           new == [first |-> start, last |-> end]
<1>1. job.kind = "fragment" /\ UNCHANGED <<stored, acked>>
  BY DEF PutFragment, history
<1>2. /\ manifest # None /\ stored # None /\ manifest \in Manifests /\ manifest.head \in Nat
      /\ Listed(manifest) = manifest.fragments
  BY <1>1, JobHasManifest
<1>3. job.batch \in Seq(Nat) /\ Len(job.batch) \in Nat /\ Len(job.batch) > 0 /\ end <= MaxSeq
  BY <1>1 DEF LogTypeOK, Quiet, Idle, Creating
<1>4. start \in Seqs /\ end \in Seqs /\ new \in Fragments /\ start <= end
  BY <1>2, <1>3, S3LogAssumption DEF Seqs, Fragments
<1>5. Floor = manifest.head /\ Deleting = {}
  BY <1>1 DEF Floor, Deleting
<1>6. \A f \in Listed(manifest) \cup Listed(stored) : f.first # start
  <2>1. ASSUME NEW f \in Listed(manifest) PROVE f.first < start
    <3>1. f.first <= f.last /\ f.last <= manifest.head /\ f.first \in Nat /\ f.last \in Nat
      BY <1>2, Numbers DEF ManifestOK
    <3> QED
      BY <1>2, <3>1
  <2>2. ASSUME NEW f \in Listed(stored) PROVE f.first < start
    <3>1. f.first <= f.last /\ f.last <= stored.head /\ f.first \in Nat /\ f.last \in Nat
      BY <1>2, Numbers DEF ManifestOK, Listed
    <3>2. stored.head <= manifest.head /\ stored.head \in Nat
      BY <1>2, <1>5, Numbers DEF MemoryOK, LogTypeOK
    <3> QED
      BY <1>2, <3>1, <3>2
  <2>3. \A f \in Listed(manifest) \cup Listed(stored) : f.first \in Nat
    BY Numbers
  <2> QED
    BY <1>2, <2>1, <2>2, <2>3
<1>7. \A r \in Readers : \A f \in reader[r].todo : f.first # start
  <2>1. ASSUME NEW r \in Readers, NEW f \in reader[r].todo PROVE f.first # start
    <3>1. f.first <= f.last /\ f.last <= manifest.head /\ f.first \in Nat /\ f.last \in Nat
      BY <1>5, Numbers DEF ReadersOK, ReaderOK
    <3> QED
      BY <1>2, <3>1
  <2> QED
    BY <2>1
<1>8. /\ objects' \in [Seqs -> Seq(Nat) \cup {None}]
      /\ \A x \in Seqs : x # start => objects'[x] = objects[x]
      /\ applied => objects'[start] = job.batch
  BY <1>3, <1>4 DEF PutFragment, LogTypeOK
<1>9. /\ Acked' = Acked /\ Listed(stored)' = Listed(stored)
  BY <1>1 DEF Acked, Listed
<1>10. \A s \in Acked : s \in Nat /\ s <= manifest.head
  BY <1>2, <1>5, Numbers DEF AckedBelow, MemoryOK, LogTypeOK
<1>11. ASSUME NEW f \in Listed(manifest) \cup Listed(stored)
       PROVE  objects'[f.first] = objects[f.first] /\ Faithful(f)'
  <2>1. objects'[f.first] = objects[f.first]
    BY <1>6, <1>8, Numbers
  <2> QED
    BY <1>1, <1>9, <2>1 DEF ObjectsOK, Faithful, Holds
<1>12. ASSUME Floor' = Floor PROVE ReadersOK'
  <2>1. ASSUME NEW r \in Readers, NEW f \in reader[r].todo PROVE Faithful(f)'
    <3>1. objects'[f.first] = objects[f.first]
      BY <1>7, <1>8, Numbers
    <3> QED
      BY <1>1, <1>9, <3>1 DEF ReadersOK, ReaderOK, Faithful, Holds
  <2> QED
    BY <1>1, <1>9, <1>12, <2>1 DEF ReadersOK, ReaderOK, Holds
<1>13. ManifestOK(stored)' /\ AckedBelow'
  BY <1>1, <1>9 DEF ManifestOK, AckedBelow, Holds
<1>14. CASE ~ok
  <2>1. manifest' = manifest /\ job' = Idle
    BY <1>14 DEF PutFragment
  <2>2. Floor' = Floor /\ Deleting' = {} /\ job'.kind = "idle" /\ Listed(manifest)' = Listed(manifest)
    BY <1>5, <2>1 DEF Floor, Deleting, Idle, Listed
  <2>3. LogTypeOK' /\ Quiet'
    BY <1>1, <1>2, <1>8, <1>9, <2>1, <2>2 DEF LogTypeOK, Quiet, Idle, Creating
  <2>4. MemoryOK' /\ ManifestOK(manifest)'
    BY <1>1, <1>2, <1>9, <2>1, <2>2, <1>5 DEF MemoryOK, ManifestOK, Holds, LastFragment
  <2>5. OneByFirst'
    BY <1>5, <1>9, <2>2 DEF OneByFirst
  <2>6. ObjectsOK'
    BY <1>9, <1>11, <2>2 DEF ObjectsOK
  <2> QED
    BY <1>12, <1>13, <2>2, <2>3, <2>4, <2>5, <2>6
<1>15. CASE ok
  <2>1. /\ manifest' = [manifest EXCEPT !.head = end, !.fragments = manifest.fragments \cup {new}]
        /\ job' = [kind |-> "manifest", batch |-> job.batch]
    BY <1>15 DEF PutFragment
  <2>2. /\ manifest' \in Manifests /\ manifest' # None /\ manifest'.head = end
        /\ manifest'.fragments = manifest.fragments \cup {new} /\ manifest'.cursor = manifest.cursor
    <3>1. manifest.fragments \cup {new} \in SUBSET Fragments /\ end \in 0..MaxSeq
      BY <1>2, <1>4 DEF Manifests, Seqs
    <3> HIDE DEF new, end
    <3>2. manifest' \in Manifests
      BY <1>2, <2>1, <3>1 DEF Manifests
    <3> QED
      BY <1>2, <2>1, <3>2, S3LogAssumption DEF Manifests
  <2>3. job'.kind = "manifest" /\ job'.batch = job.batch
    BY <2>1
  <2>4. Floor' = Floor /\ Deleting' = {} /\ Listed(manifest)' = Listed(manifest) \cup {new}
        /\ LastFragment' = new
    BY <1>2, <1>3, <1>5, <2>2, <2>3 DEF Floor, Deleting, Listed, LastFragment
  <2>5. new.first = start /\ new.last = end
    OBVIOUS
  <2>6. objects'[start] = job.batch /\ job.batch # None
    BY <1>3, <1>8, <1>15, S3LogAssumption
  <2> HIDE DEF start, end, new
  <2>7. \A f : f = new => Faithful(f)' /\ objects'[f.first] # None
    <3> SUFFICES ASSUME NEW f, f = new
                 PROVE  Faithful(f)' /\ objects'[f.first] # None
      OBVIOUS
    <3>1. f.first = start /\ f.last = end
      BY <2>5
    <3>2. \A s \in Acked : ~Holds(f, s)
      BY <1>2, <1>10, <3>1 DEF Holds, start
    <3>3. Len(job.batch) = end - start + 1
      BY <1>2, <1>3 DEF start, end
    <3> QED
      BY <1>9, <2>6, <3>1, <3>2, <3>3 DEF Faithful, Holds
  <2>8. LogTypeOK' /\ Quiet'
    BY <1>1, <1>2, <1>3, <1>8, <1>9, <2>1, <2>2, <2>3 DEF LogTypeOK, Quiet, Creating
  <2>9. MemoryOK'
    <3>1. Floor >= 0 /\ Floor + 1 = start
      BY <1>2, <1>5 DEF start
    <3>2. \A f \in Listed(manifest) : f.first <= f.last /\ f.last <= Floor
      BY <1>2, <1>5 DEF ManifestOK
    <3>3. stored'.head <= Floor
      BY <1>1, <1>2 DEF MemoryOK
    <3> QED
      BY <1>2, <1>4, <2>2, <2>3, <2>4, <2>5, <2>6, <3>1, <3>2, <3>3 DEF MemoryOK
  <2>10. ManifestOK(manifest)'
    <3>1. \A f \in manifest.fragments : f.first <= f.last /\ f.last <= end
      <4>1. \A f \in manifest.fragments : f.first <= f.last /\ f.last <= manifest.head /\ f.last \in Nat
        BY <1>2, Numbers DEF ManifestOK
      <4>2. manifest.head <= end /\ end \in Nat
        BY <1>2, <1>3 DEF end
      <4> QED
        BY <1>2, <4>1, <4>2
    <3>2. \A s \in Acked : s >= manifest.cursor => \E f \in manifest'.fragments : Holds(f, s)
      BY <1>2, <2>2 DEF ManifestOK
    <3>3. \A f \in manifest'.fragments : f.first <= f.last /\ f.last <= end
      BY <1>2, <1>4, <2>2, <2>5, <3>1 DEF start, end, Seqs
    <3>4. manifest'.cursor <= consumed'
      BY <1>2, <2>2 DEF ManifestOK
    <3> QED
      BY <1>9, <2>2, <3>2, <3>3, <3>4 DEF ManifestOK, Holds
  <2>11. OneByFirst'
    BY <1>5, <1>6, <1>9, <2>4, <2>5 DEF OneByFirst
  <2>12. ObjectsOK'
    <3>1. ASSUME NEW f \in Listed(manifest)' \cup Listed(stored)'
          PROVE  Faithful(f)' /\ (f.last >= consumed' => objects'[f.first] # None)
      <4>1. f \in Listed(manifest) \cup Listed(stored) \/ f = new
        BY <1>9, <2>4
      <4> QED
        BY <1>11, <2>7, <4>1 DEF ObjectsOK
    <3> QED
      BY <3>1 DEF ObjectsOK
  <2> QED
    BY <1>12, <1>13, <2>4, <2>8, <2>9, <2>10, <2>11, <2>12
<1> QED
  BY <1>14, <1>15

\* The manifest is written: what it lists is what a crash will find, and when
\* the append is acknowledged the fragment it lists last has its records.
LEMMA PutManifestKeeps ==
  ASSUME LogInv, NEW applied \in BOOLEAN, NEW ok \in BOOLEAN, ok => applied,
         PutManifest(applied, ok), UNCHANGED <<reader, appends, consumed>>
  PROVE  LogInv'
<1> USE DEF LogInv
<1>1. /\ job.kind = "manifest" /\ job' = Idle /\ objects' = objects
      /\ stored' = IF applied THEN manifest ELSE stored
      /\ manifest' = manifest
  BY DEF PutManifest
<1>2. /\ manifest # None /\ stored # None /\ manifest \in Manifests /\ manifest.head \in Nat
      /\ Listed(manifest) = manifest.fragments
  BY <1>1, JobHasManifest
<1>3. job.batch \in Seq(Nat) /\ Len(job.batch) \in Nat
  BY <1>1 DEF LogTypeOK, Idle, Creating
<1>4. PICK F : F = Floor
  OBVIOUS
<1>5. F = manifest.head - Len(job.batch) /\ F \in Nat /\ F <= manifest.head
  BY <1>1, <1>2, <1>3, <1>4 DEF Floor, MemoryOK
<1>6. acked' = [s \in Seqs |-> IF ok /\ s \in (F + 1)..manifest.head
                                THEN job.batch[s - F] ELSE acked[s]]
  <2>1. acked' = [s \in Seqs |-> IF ok /\ s \in (manifest.head - Len(job.batch) + 1)..manifest.head
                                 THEN job.batch[s - (manifest.head - Len(job.batch) + 1) + 1]
                                 ELSE acked[s]]
    BY DEF PutManifest
  <2>2. \A s \in Seqs : s - (F + 1) + 1 = s - F
    BY <1>5 DEF Seqs
  <2> QED
    BY <1>5, <2>1, <2>2
<1>7. \A s \in Acked : s \in Seqs /\ s \in Nat /\ s <= F
  <2>1. \A s \in Acked : stored # None /\ s <= stored.head /\ stored.head <= F /\ stored.head \in Nat
    BY <1>2, <1>4, Numbers DEF AckedBelow, MemoryOK, LogTypeOK
  <2> QED
    BY <1>5, <2>1, Numbers DEF Acked
<1>8. \A s \in Acked : s \in Acked' /\ acked'[s] = acked[s]
  BY <1>5, <1>6, <1>7 DEF Acked
<1>9. \A s \in Acked' : s \in Nat /\ s \in Seqs
  BY DEF Acked, Seqs
<1>10. ASSUME NEW s \in Acked', s \notin Acked
       PROVE  ok /\ s \in (F + 1)..manifest.head /\ acked'[s] = job.batch[s - F]
  BY <1>6, <1>9, <1>10 DEF Acked
<1>12. job'.kind = "idle" /\ Deleting' = {} /\ Deleting = {}
  BY <1>1 DEF Idle, Deleting
<1>13. /\ Listed(manifest)' \subseteq Listed(manifest)
       /\ Listed(stored)' \subseteq Listed(manifest) \cup Listed(stored)
  BY <1>1 DEF Listed
<1>14. ASSUME ok, NEW s \in (F + 1)..manifest.head
       PROVE  \E f \in manifest.fragments :
                f.first = F + 1 /\ f.last = manifest.head /\ objects[F + 1] = job.batch
  <2>1. Len(job.batch) > 0
    BY <1>2, <1>3, <1>5
  <2>2. LastFragment \in manifest.fragments /\ objects[F + 1] = job.batch
    BY <1>1, <1>2, <1>4, <2>1 DEF MemoryOK
  <2>3. LastFragment.first = F + 1 /\ LastFragment.last = manifest.head
    BY <1>4 DEF LastFragment
  <2> QED
    BY <2>2, <2>3
<1>15. ASSUME NEW f \in Fragments, Faithful(f), f.last <= F
       PROVE  Faithful(f)'
  <2>1. \A s \in Acked' : Holds(f, s) => s \in Acked
    <3> SUFFICES ASSUME NEW s \in Acked', Holds(f, s), s \notin Acked PROVE FALSE
      OBVIOUS
    <3>1. s \in Nat /\ f.last \in Nat /\ f.first \in Nat
      BY <1>9, Numbers
    <3> QED
      BY <1>5, <1>10, <1>15, <3>1 DEF Holds
  <2> QED
    BY <1>1, <1>8, <1>15, <2>1 DEF Faithful, Holds
<1>16. ASSUME NEW f \in Listed(manifest) \cup Listed(stored) PROVE Faithful(f)'
  <2>1. f \in Fragments /\ Faithful(f) /\ f.first \in Nat /\ f.last \in Nat
    BY Numbers DEF ObjectsOK
  <2>2. CASE f.last <= F
    BY <1>15, <2>1, <2>2
  <2>3. CASE ~(f.last <= F)
    <3>1. f \in Listed(manifest)
      <4> SUFFICES ASSUME f \in Listed(stored) PROVE f.last <= F
        BY <2>3
      <4>1. stored # None /\ f.last <= stored.head /\ stored.head <= F /\ stored.head \in Nat
        BY <1>2, <1>4, Numbers DEF ManifestOK, Listed, MemoryOK, LogTypeOK
      <4> QED
        BY <1>5, <2>1, <4>1
    <3>2. f = LastFragment
      BY <1>2, <1>4, <2>3, <3>1 DEF MemoryOK
    <3>3. f.first = F + 1 /\ f.last = manifest.head
      BY <1>4, <3>2 DEF LastFragment
    <3>4. Len(job.batch) > 0
      BY <1>2, <1>3, <1>5, <2>3, <3>3
    <3>5. objects[f.first] = job.batch
      BY <1>1, <1>2, <1>4, <3>3, <3>4 DEF MemoryOK
    <3>6. ASSUME NEW s \in Acked', Holds(f, s) PROVE job.batch[s - f.first + 1] = acked'[s]
      <4>1. s \in Nat /\ s > F
        BY <1>5, <1>9, <3>3, <3>6 DEF Holds
      <4>2. s \notin Acked
        BY <1>5, <1>7, <4>1
      <4>3. s - f.first + 1 = s - F
        BY <1>5, <3>3, <4>1
      <4> QED
        BY <1>10, <4>2, <4>3
    <3>7. Len(job.batch) = f.last - f.first + 1
      BY <1>2, <1>3, <1>5, <3>3
    <3> QED
      BY <1>1, <3>5, <3>6, <3>7 DEF Faithful, Holds
  <2> QED
    BY <2>2, <2>3
<1>17. LogTypeOK'
  <2>1. ASSUME NEW s \in (F + 1)..manifest.head PROVE job.batch[s - F] \in Nat
    <3>1. s - F \in 1..Len(job.batch)
      BY <1>2, <1>3, <1>5
    <3> QED
      BY <1>3, <3>1
  <2>2. acked' \in [Seqs -> Nat \cup {None}]
    BY <1>6, <2>1 DEF LogTypeOK
  <2> QED
    BY <1>1, <2>2 DEF LogTypeOK
<1>18. Quiet'
  BY <1>1, <1>2, <1>12 DEF Quiet, Idle, Creating
<1>19. /\ manifest.cursor <= consumed
       /\ \A f \in manifest.fragments : f.first <= f.last /\ f.last <= manifest.head
       /\ \A s \in Acked' : s >= manifest.cursor => \E f \in manifest.fragments : Holds(f, s)
  <2>1. ASSUME NEW s \in Acked', s >= manifest.cursor
        PROVE  \E f \in manifest.fragments : Holds(f, s)
    <3>1. CASE s \in Acked
      BY <1>2, <2>1, <3>1 DEF ManifestOK
    <3>2. CASE s \notin Acked
      <4>1. ok /\ s \in (F + 1)..manifest.head
        BY <1>10, <3>2
      <4>2. PICK f \in manifest.fragments : f.first = F + 1 /\ f.last = manifest.head
        BY <1>14, <4>1
      <4> QED
        BY <4>1, <4>2 DEF Holds
    <3> QED
      BY <3>1, <3>2
  <2> QED
    BY <1>2, <2>1 DEF ManifestOK
<1>20. ManifestOK(manifest)'
  <2>1. CASE manifest' = None
    BY <2>1 DEF ManifestOK
  <2>2. CASE manifest' = manifest
    BY <1>19, <2>2 DEF ManifestOK, Holds
  <2> QED
    BY <1>1, <2>1, <2>2
<1>21. ManifestOK(stored)'
  <2>1. CASE applied
    BY <1>1, <1>19, <2>1 DEF ManifestOK, Holds
  <2>2. CASE ~applied
    <3>1. stored' = stored /\ \A s \in Acked' : s \in Acked
      BY <1>1, <1>10, <2>2
    <3> QED
      BY <3>1 DEF ManifestOK, Holds
  <2> QED
    BY <2>1, <2>2
<1>22. AckedBelow'
  <2> SUFFICES ASSUME NEW s \in Acked' PROVE stored' # None /\ s <= stored'.head
    BY DEF AckedBelow
  <2>1. CASE applied
    <3>1. s \in Nat /\ s <= manifest.head
      BY <1>2, <1>5, <1>7, <1>9, <1>10
    <3> QED
      BY <1>1, <1>2, <2>1, <3>1
  <2>2. CASE ~applied
    BY <1>1, <1>10, <2>2 DEF AckedBelow
  <2> QED
    BY <2>1, <2>2
<1>23. MemoryOK'
  <2> SUFFICES ASSUME manifest' # None PROVE MemoryOK'
    BY DEF MemoryOK
  <2>1. manifest' = manifest /\ Floor' = manifest.head
    BY <1>1, <1>12 DEF Floor
  <2>2. stored' # None => stored'.head <= manifest.head
    <3>1. stored # None => stored.head <= F /\ stored.head \in Nat
      BY <1>2, <1>4, Numbers DEF MemoryOK, LogTypeOK
    <3> QED
      BY <1>1, <1>2, <1>5, <3>1
  <2> QED
    BY <1>2, <1>12, <1>19, <2>1, <2>2 DEF MemoryOK
<1>24. OneByFirst'
  BY <1>12, <1>13 DEF OneByFirst
<1>25. ObjectsOK'
  BY <1>1, <1>13, <1>16 DEF ObjectsOK
<1>26. ReadersOK'
  <2> SUFFICES ASSUME NEW r \in Readers PROVE ReaderOK(r)'
    BY DEF ReadersOK
  <2>1. CASE stored = None
    <3>1. reader'[r] = Resting
      BY <2>1 DEF Quiet
    <3> QED
      BY <3>1 DEF ReaderOK, Resting
  <2>2. CASE stored # None
    <3>1. Floor' = manifest.head /\ reader'[r] = reader[r]
      BY <1>1, <1>12, <2>2 DEF Floor
    <3>2. ASSUME NEW f \in reader[r].todo
          PROVE  f.first <= f.last /\ f.last <= manifest.head /\ Faithful(f)'
      <4>1. f \in Fragments /\ f.first <= f.last /\ f.last <= F /\ Faithful(f) /\ f.last \in Nat
        BY <1>4, Numbers DEF ReadersOK, ReaderOK
      <4> QED
        BY <1>2, <1>5, <1>15, <4>1
    <3>3. ASSUME NEW x \in reader[r].got
          PROVE  x.seq <= manifest.head /\ (x.seq \in Acked' => x.rec = acked'[x.seq])
      <4>1. x.seq \in Nat /\ x.seq <= F
        BY <1>4 DEF LogTypeOK, ReadersOK, ReaderOK
      <4>2. x.seq \in Acked' => x.seq \in Acked
        BY <1>5, <1>10, <4>1
      <4> QED
        BY <1>2, <1>5, <1>8, <4>1, <4>2 DEF ReadersOK, ReaderOK
    <3>4. \A s \in reader[r].due :
            /\ s \in Acked' /\ s > reader[r].after
            /\ \/ \E x \in reader[r].got : x.seq = s
               \/ \E f \in reader[r].todo : Holds(f, s)
      BY <1>8 DEF ReadersOK, ReaderOK
    <3>5. reader[r].phase # "reading" => reader[r].todo = {}
      BY DEF ReadersOK, ReaderOK
    <3> QED
      BY <3>1, <3>2, <3>3, <3>4, <3>5 DEF ReaderOK, Holds
  <2> QED
    BY <2>1, <2>2
<1> QED
  BY <1>17, <1>18, <1>20, <1>21, <1>22, <1>23, <1>24, <1>25, <1>26

\* A fragment below the cursor goes; no other starts where it did.
LEMMA DeleteFragmentKeeps ==
  ASSUME LogInv, NEW applied \in BOOLEAN, DeleteFragment(applied), job.todo # {},
         UNCHANGED <<reader, appends, consumed>>
  PROVE  LogInv'
<1> USE DEF LogInv
<1>1. PICK g : g = Oldest(job.todo)
  OBVIOUS
<1>2. /\ job.kind = "delete" /\ UNCHANGED <<manifest, stored, acked>>
      /\ objects' = IF applied THEN [objects EXCEPT ![g.first] = None] ELSE objects
      /\ job' = [job EXCEPT !.todo = job.todo \ {g}]
  BY <1>1 DEF DeleteFragment, history
<1>3. /\ manifest # None /\ stored # None /\ Deleting = job.todo
  BY <1>2, JobHasManifest DEF Deleting
<1>4. g \in Deleting /\ Deleting \subseteq Fragments /\ job \in [kind : {"delete"}, todo : SUBSET Fragments]
  BY <1>1, <1>2, <1>3, Numbers, OldestIsListed DEF LogTypeOK, Idle, Creating
<1>5. job'.kind = "delete" /\ job'.todo = job.todo \ {g}
  BY <1>2, <1>4
<1>6. Deleting' \subseteq Deleting /\ Floor' = Floor
  BY <1>2, <1>3, <1>5 DEF Deleting, Floor
<1>7. \A x \in Seqs : objects'[x] \in {objects[x], None} /\ (x # g.first => objects'[x] = objects[x])
  BY <1>2 DEF LogTypeOK
<1>8. Acked' = Acked /\ Listed(manifest)' = Listed(manifest) /\ Listed(stored)' = Listed(stored)
  BY <1>2 DEF Acked, Listed
<1>9. ASSUME NEW f \in Fragments, Faithful(f) PROVE Faithful(f)'
  BY <1>2, <1>7, <1>8, <1>9, Numbers DEF Faithful, Holds
<1>10. LogTypeOK'
  <2>1. objects' \in [Seqs -> Seq(Nat) \cup {None}]
    BY <1>2 DEF LogTypeOK
  <2>2. job' \in [kind : {"delete"}, todo : SUBSET Fragments]
    BY <1>2, <1>4
  <2> QED
    BY <1>2, <2>1, <2>2 DEF LogTypeOK
<1>11. Quiet'
  BY <1>2, <1>3, <1>5, <1>8 DEF Quiet, Creating
<1>12. MemoryOK'
  BY <1>2, <1>3, <1>5, <1>6 DEF MemoryOK, LastFragment
<1>13. ManifestOK(manifest)' /\ ManifestOK(stored)' /\ AckedBelow'
  BY <1>2, <1>8 DEF ManifestOK, AckedBelow, Holds
<1>14. OneByFirst'
  BY <1>6, <1>8 DEF OneByFirst
<1>15. ObjectsOK'
  <2> SUFFICES ASSUME NEW f \in Listed(manifest) \cup Listed(stored)
               PROVE  Faithful(f)' /\ (f.last >= consumed => objects'[f.first] # None)
    BY <1>8 DEF ObjectsOK
  <2>1. f \in Fragments /\ f.first \in Seqs /\ f.last \in Nat /\ consumed \in Nat /\ g.last \in Nat
    BY <1>4, Numbers
  <2>2. Faithful(f)'
    BY <1>9, <2>1 DEF ObjectsOK
  <2>3. f.last >= consumed => f.first # g.first
    <3>1. g.last < consumed
      BY <1>3, <1>4 DEF MemoryOK
    <3>2. f.first = g.first => f = g
      BY <1>4 DEF OneByFirst
    <3> QED
      BY <2>1, <3>1, <3>2
  <2> QED
    BY <1>7, <2>1, <2>2, <2>3 DEF ObjectsOK
<1>16. ReadersOK'
  <2>1. \A r \in Readers : \A f \in reader[r].todo : Faithful(f)'
    BY <1>9, Numbers DEF ReadersOK, ReaderOK
  <2> QED
    BY <1>2, <1>6, <1>8, <2>1 DEF ReadersOK, ReaderOK, Holds
<1> QED
  BY <1>10, <1>11, <1>12, <1>13, <1>14, <1>15, <1>16

\* The records of a fragment that is there are those acknowledged in it.
LEMMA RecordsFaithful ==
  ASSUME LogInv, NEW f \in Fragments, Faithful(f), objects[f.first] # None, NEW after \in Nat
  PROVE  /\ Records(f, after) \subseteq [seq : Nat, rec : Nat]
         /\ \A x \in Records(f, after) :
              Holds(f, x.seq) /\ (x.seq \in Acked => x.rec = acked[x.seq])
         /\ \A s \in Nat : Holds(f, s) /\ s > after => \E x \in Records(f, after) : x.seq = s
<1>1. f.first \in Nat /\ f.last \in Nat /\ f.first \in Seqs
  BY Numbers DEF LogInv
<1>2. PICK b \in Seq(Nat) : b = objects[f.first]
  BY <1>1 DEF LogInv, LogTypeOK
<1>3. Len(b) = f.last - f.first + 1 /\ f.first + Len(b) - 1 = f.last
  <2>1. Len(b) = f.last - f.first + 1
    BY <1>2 DEF Faithful
  <2> QED
    BY <1>1, <2>1
<1>4. Records(f, after) = {[seq |-> s, rec |-> b[s - f.first + 1]] : s \in {t \in f.first..f.last : t > after}}
  BY <1>2, <1>3 DEF Records
<1>5. \A s \in f.first..f.last : b[s - f.first + 1] \in Nat /\ s \in Nat
  <2> SUFFICES ASSUME NEW s \in f.first..f.last PROVE b[s - f.first + 1] \in Nat /\ s \in Nat
    OBVIOUS
  <2>1. s \in Nat /\ s - f.first + 1 \in 1..Len(b)
    <3>1. PICK x \in Nat, y \in Nat : x = f.first /\ y = f.last
      BY <1>1
    <3>2. s \in x..y /\ Len(b) = y - x + 1
      BY <1>3, <3>1
    <3>3. s \in Nat /\ s - x + 1 \in 1..Len(b)
      BY <3>2
    <3> QED
      BY <3>1, <3>3
  <2> QED
    BY <2>1
<1>6. \A s \in f.first..f.last : s \in Acked => b[s - f.first + 1] = acked[s]
  BY <1>2 DEF Faithful, Holds
<1>7. ASSUME NEW x \in Records(f, after)
      PROVE  /\ x \in [seq : Nat, rec : Nat] /\ Holds(f, x.seq)
             /\ x.seq \in Acked => x.rec = acked[x.seq]
  <2>1. PICK s \in f.first..f.last : x = [seq |-> s, rec |-> b[s - f.first + 1]]
    BY <1>4
  <2> QED
    BY <1>5, <1>6, <2>1 DEF Holds
<1>8. ASSUME NEW s \in Nat, Holds(f, s), s > after PROVE \E x \in Records(f, after) : x.seq = s
  <2>1. [seq |-> s, rec |-> b[s - f.first + 1]] \in Records(f, after)
    BY <1>4, <1>8 DEF Holds
  <2> QED
    BY <2>1
<1> QED
  BY <1>7, <1>8

LEMMA ReaderCallKeeps ==
  ASSUME LogInv, NEW r \in Readers, NEW ok \in BOOLEAN, ReaderCall(r, ok), Calls(r),
         UNCHANGED <<appends, consumed>>
  PROVE  LogInv'
<1> USE DEF LogInv
<1>1. PICK f : f = Oldest(reader[r].todo)
  OBVIOUS
<1>2. reader[r].phase = "reading" /\ reader[r].todo # {}
  BY S3LogAssumption DEF Calls
<1>3. /\ f \in reader[r].todo /\ f \in Fragments /\ Faithful(f)
      /\ f.first <= f.last /\ f.last <= Floor
  BY <1>1, <1>2, Numbers, OldestIsListed DEF ReadersOK, ReaderOK
<1>4. /\ UNCHANGED <<manifest, stored, objects, job, acked, appends, consumed>>
      /\ \/ reader' = [reader EXCEPT ![r] = Resting]
         \/ /\ objects[f.first] # None
            /\ reader' = [reader EXCEPT ![r].todo = @ \ {f},
                             ![r].got = @ \cup Records(f, reader[r].after)]
  BY <1>1 DEF ReaderCall, history
<1>5. \A p \in Readers : p # r => reader'[p] = reader[p]
  BY <1>4 DEF LogTypeOK
<1>6. manifest # None /\ stored # None
  BY <1>2 DEF Quiet, Resting
<1>7. Quiet'
  BY <1>4, <1>6 DEF Quiet, Acked
<1>8. MemoryOK' /\ ManifestOK(manifest)' /\ ManifestOK(stored)' /\ AckedBelow'
  BY <1>4 DEF MemoryOK, ManifestOK, AckedBelow, Acked, Holds, LastFragment, Deleting, Floor
<1>9. OneByFirst' /\ ObjectsOK'
  BY <1>4 DEF OneByFirst, ObjectsOK, Faithful, Acked, Holds, Listed, Deleting
<1>10. ASSUME LogTypeOK', ReaderOK(r)' PROVE LogInv'
  <2>1. ReadersOK'
    BY <1>4, <1>5, <1>10 DEF ReadersOK, ReaderOK, Faithful, Acked, Holds, Floor
  <2> QED
    BY <1>7, <1>8, <1>9, <1>10, <2>1
<1>11. CASE reader' = [reader EXCEPT ![r] = Resting]
  <2>1. reader'[r] = Resting
    BY <1>11 DEF LogTypeOK
  <2>2. ReaderOK(r)'
    BY <2>1 DEF ReaderOK, Resting
  <2>3. LogTypeOK'
    BY <1>4, <1>11, S3LogAssumption DEF LogTypeOK, Resting
  <2> QED
    BY <1>10, <2>2, <2>3
<1>12. CASE /\ objects[f.first] # None
            /\ reader' = [reader EXCEPT ![r].todo = @ \ {f},
                             ![r].got = @ \cup Records(f, reader[r].after)]
  <2>1. reader[r].after \in Nat /\ reader[r].due \subseteq Nat /\ f.first \in Nat /\ f.last \in Nat
    BY <1>3, Numbers DEF LogTypeOK, Seqs
  <2>2. PICK R : R = Records(f, reader[r].after)
    OBVIOUS
  <2>3. /\ R \subseteq [seq : Nat, rec : Nat]
        /\ \A x \in R : Holds(f, x.seq) /\ (x.seq \in Acked => x.rec = acked[x.seq])
        /\ \A s \in Nat : Holds(f, s) /\ s > reader[r].after => \E x \in R : x.seq = s
    BY <1>3, <1>12, <2>1, <2>2, RecordsFaithful
  <2>4. /\ reader'[r].todo = reader[r].todo \ {f} /\ reader'[r].got = reader[r].got \cup R
        /\ reader'[r].due = reader[r].due /\ reader'[r].after = reader[r].after
        /\ reader'[r].phase = "reading"
    BY <1>2, <1>12, <2>2 DEF LogTypeOK
  <2>5. LogTypeOK'
    <3>1. reader[r].todo \ {f} \in SUBSET Fragments
      BY DEF LogTypeOK
    <3>2. reader[r].got \cup R \in SUBSET [seq : Nat, rec : Nat]
      BY <2>3 DEF LogTypeOK
    <3>3. reader' = [reader EXCEPT ![r].todo = reader[r].todo \ {f}, ![r].got = reader[r].got \cup R]
      BY <1>12, <2>2
    <3>4. reader'[r] \in [phase : {"idle", "reading", "done"}, after : 0..MaxSeq,
                          todo : SUBSET Fragments, got : SUBSET [seq : Nat, rec : Nat],
                          due : SUBSET Seqs]
      <4>1. reader'[r] = [reader[r] EXCEPT !.todo = reader[r].todo \ {f}, !.got = reader[r].got \cup R]
        BY <3>3 DEF LogTypeOK
      <4>2. reader[r] \in [phase : {"idle", "reading", "done"}, after : 0..MaxSeq,
                          todo : SUBSET Fragments, got : SUBSET [seq : Nat, rec : Nat],
                          due : SUBSET Seqs]
        BY DEF LogTypeOK
      <4> QED
        BY <3>1, <3>2, <4>1, <4>2
    <3>5. reader' = [reader EXCEPT ![r] = reader'[r]]
      BY <3>3 DEF LogTypeOK
    <3> QED
      BY <1>4, <3>4, <3>5 DEF LogTypeOK
  <2>6. \A x \in R : x.seq <= Floor
    <3> SUFFICES ASSUME NEW x \in R PROVE x.seq <= Floor
      OBVIOUS
    <3>1. x.seq \in Nat /\ x.seq <= f.last
      BY <2>1, <2>3 DEF Holds
    <3>2. Floor \in Int
      BY <1>6, Numbers DEF Floor, LogTypeOK, Idle
    <3> QED
      BY <1>3, <2>1, <3>1, <3>2
  <2>7. ASSUME NEW s \in reader[r].due
        PROVE  \/ \E x \in reader[r].got \cup R : x.seq = s
               \/ \E g \in reader[r].todo \ {f} : Holds(g, s)
    <3>1. s > reader[r].after /\ s \in Nat
      BY <2>1 DEF ReadersOK, ReaderOK
    <3>2. \/ \E x \in reader[r].got : x.seq = s
          \/ \E g \in reader[r].todo : Holds(g, s)
      BY DEF ReadersOK, ReaderOK
    <3> QED
      BY <2>3, <3>1, <3>2
  <2>8. ReaderOK(r)'
    <3>1. Floor' = Floor /\ Acked' = Acked
      BY <1>4 DEF Floor, Acked
    <3>2. \A g \in reader[r].todo : g.first <= g.last /\ g.last <= Floor /\ Faithful(g)'
      BY <1>4, <3>1 DEF ReadersOK, ReaderOK, Faithful, Holds
    <3>3. \A x \in reader[r].got \cup R : x.seq <= Floor /\ (x.seq \in Acked => x.rec = acked[x.seq])
      BY <2>3, <2>6 DEF ReadersOK, ReaderOK
    <3>4. \A s \in reader[r].due : s \in Acked /\ s > reader[r].after
      BY DEF ReadersOK, ReaderOK
    <3> QED
      BY <1>4, <2>4, <2>7, <3>1, <3>2, <3>3, <3>4 DEF ReaderOK, Holds
  <2> QED
    BY <1>10, <2>5, <2>8
<1> QED
  BY <1>4, <1>11, <1>12

LEMMA CallKeeps ==
  ASSUME LogInv, NEW c \in Clients, NEW applied \in BOOLEAN, NEW ok \in BOOLEAN,
         Call(c, applied, ok)
  PROVE  LogInv'
<1>1. UNCHANGED appends /\ Calls(c) /\ (ok => applied)
  BY DEF Call
<1>2. CASE c = Writer
  <2>1. WriterCall(applied, ok) /\ UNCHANGED reader
    BY <1>2 DEF Call
  <2>2. job.kind = "delete" => job.todo # {}
    BY <1>1, <1>2 DEF Calls
  <2>0. CASE PutFirst(applied, ok)
    BY <1>1, <2>0, <2>1, PutFirstKeeps
  <2>3. CASE PutFragment(applied, ok)
    BY <1>1, <2>1, <2>3, PutFragmentKeeps DEF PutFragment, history
  <2>4. CASE PutManifest(applied, ok)
    BY <1>1, <2>1, <2>4, PutManifestKeeps DEF PutManifest
  <2>5. CASE DeleteFragment(applied)
    <3>1. job.todo # {}
      BY <2>2, <2>5 DEF DeleteFragment
    <3> QED
      BY <1>1, <2>1, <2>5, <3>1, DeleteFragmentKeeps DEF DeleteFragment, history
  <2> QED
    BY <2>0, <2>1, <2>3, <2>4, <2>5 DEF WriterCall
<1>3. CASE c # Writer
  <2>1. c \in Readers /\ ReaderCall(c, ok)
    BY <1>3, S3LogAssumption DEF Call
  <2> QED
    BY <1>1, <2>1, ReaderCallKeeps DEF ReaderCall, history
<1> QED
  BY <1>2, <1>3

LEMMA LogInvInductive ==
  ASSUME LogInv, [Next]_vars
  PROVE  LogInv'
<1>1. CASE UNCHANGED vars
  BY <1>1, LogUnchanged DEF vars, history
<1>2. ASSUME NEW c \in Clients, AskStore(c) \/ SeeSlot(c) PROVE LogInv'
  BY <1>2, LogUnchanged DEF AskStore, SeeSlot, history
<1>3. ASSUME NEW c \in Clients, UseStore(c) \/ GiveUpWaiting(c) PROVE LogInv'
  BY <1>3, CallKeeps DEF UseStore, GiveUpWaiting
<1> QED
  BY <1>1, <1>2, <1>3, OpenKeeps, OpenMissingKeeps, CrashKeeps, DeletesDoneKeeps, BeginAppendKeeps,
     BeginAdvanceKeeps, BeginReadKeeps, EndReadKeeps DEF Next

LEMMA LogInvInit == Init => LogInv
<1> SUFFICES ASSUME Init PROVE LogInv
  OBVIOUS
<1>1. /\ manifest = None /\ stored = None /\ job = Idle /\ Acked = {} /\ consumed = 0
      /\ \A r \in Readers : reader[r] = Resting
  BY DEF Init, Acked
<1>2. LogTypeOK
  BY S3LogAssumption DEF Init, LogTypeOK, Resting
<1>3. Listed(manifest) = {} /\ Listed(stored) = {} /\ Deleting = {}
  BY <1>1 DEF Listed, Deleting, Idle
<1> QED
  BY <1>1, <1>2, <1>3 DEF LogInv, Quiet, MemoryOK, ManifestOK, AckedBelow, OneByFirst, ObjectsOK,
                          ReadersOK, ReaderOK, Resting, Idle

LEMMA LogInvAlways == Spec => []LogInv
<1>1. LogInv /\ [Next]_vars => LogInv'
  BY LogInvInductive
<1> QED
  BY <1>1, LogInvInit, PTL DEF Spec

-----------------------------------------------------------------------------

\* A record that Append has acknowledged since the log was last begun is in the
\* fragment that the manifest in the store lists for it, until the cursor is
\* asked past it, through every crash and every store call that failed before
\* or after it took effect; only a Get of NewS3WAL that takes the manifest for
\* missing ends it, by beginning the log anew (Append, AdvanceCursor,
\* writeManifest).
THEOREM AcknowledgedRecoverable == Spec => []AckedRecoverable
<1>1. LogInv => AckedRecoverable
  <2> SUFFICES ASSUME LogInv, NEW s \in Acked, s >= consumed
               PROVE  \E f \in stored.fragments :
                        /\ Holds(f, s) /\ objects[f.first] # None
                        /\ objects[f.first][s - f.first + 1] = acked[s]
    BY DEF AckedRecoverable
  <2> USE DEF LogInv
  <2>1. stored # None /\ Listed(stored) = stored.fragments
    BY DEF AckedBelow, Listed
  <2>2. stored.cursor <= consumed /\ stored.cursor \in Nat /\ consumed \in Nat /\ s \in Nat
    BY <2>1, Numbers DEF ManifestOK, LogTypeOK
  <2>3. PICK f \in stored.fragments : Holds(f, s)
    BY <2>1, <2>2 DEF ManifestOK
  <2>4. f.last \in Nat /\ f.first \in Nat /\ f.last >= consumed
    BY <2>1, <2>2, <2>3, Numbers DEF Holds
  <2> QED
    BY <2>1, <2>3, <2>4 DEF ObjectsOK, Faithful
<1> QED
  BY <1>1, LogInvAlways, PTL

\* A read that ends without an error has every record that was acknowledged
\* and not consumed when it began, whatever is appended, advanced and deleted
\* while it fetches the fragments (ReadSince).
THEOREM ReadsAlwaysComplete == Spec => []ReadsComplete
<1>1. LogInv => ReadsComplete
  <2> SUFFICES ASSUME LogInv, NEW r \in Readers, reader[r].phase = "done", NEW s \in reader[r].due
               PROVE  {x \in reader[r].got : x.seq = s} = {[seq |-> s, rec |-> acked[s]]}
    BY DEF ReadsComplete
  <2> USE DEF LogInv
  <2>1. reader[r].todo = {}
    BY DEF ReadersOK, ReaderOK
  <2>2. PICK x \in reader[r].got : x.seq = s
    BY <2>1 DEF ReadersOK, ReaderOK
  <2>3. s \in Acked
    BY DEF ReadersOK, ReaderOK
  <2>4. ASSUME NEW y \in reader[r].got, y.seq = s PROVE y = [seq |-> s, rec |-> acked[s]]
    <3>1. y.rec = acked[s] /\ y \in [seq : Nat, rec : Nat]
      BY <2>3, <2>4 DEF ReadersOK, ReaderOK, LogTypeOK
    <3> QED
      BY <2>4, <3>1
  <2> QED
    BY <2>2, <2>4
<1> QED
  BY <1>1, LogInvAlways, PTL
=============================================================================
