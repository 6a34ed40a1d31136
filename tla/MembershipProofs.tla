--------------------------- MODULE MembershipProofs ---------------------------
(***************************************************************************)
(* Proofs about Membership for any nodes, seed lists and bounds.           *)
(***************************************************************************)
EXTENDS Membership, FiniteSetTheorems, SequenceTheorems, TLAPS

\* A process has broadcast no more than what was broadcast in all.
SeqBounded == \A n \in Nodes : seqNo[n] <= events

\* The receive loop is in the callback of another node's message only, and an
\* Alive event has its node tracked before the ring is touched.
HandlingOK ==
  \A n \in Nodes : handling[n] # None =>
    /\ n \in Running /\ handling[n].src # n
    /\ handling[n].ev = "alive" => detector[n][handling[n].src] # "unknown"

\* A node never tracks itself, so that its detector never declares it dead; no
\* goroutine of a process outlives it.
NeverItself ==
  \A n \in Nodes :
    /\ detector[n][n] = "unknown" /\ n \notin late[n]
    /\ n \notin Running => late[n] = {}

Inv == TypeOK /\ SeqBounded /\ HandlingOK /\ NeverItself /\ RingTracked

-----------------------------------------------------------------------------
(* Sequences of messages.                                                  *)

\* Adding to a bounded set or buffer keeps it within its capacity.
LEMMA BoundedType ==
  ASSUME NEW s \in Seq(Message), NEW max \in Nat \ {0}, Len(s) <= max, NEW m \in Message
  PROVE  Bounded(s, max, m) \in Seq(Message) /\ Len(Bounded(s, max, m)) <= max
<1>1. CASE Len(s) >= max
  <2>1. s # <<>>
    BY <1>1
  <2>2. Tail(s) \in Seq(Message) /\ Len(Tail(s)) = Len(s) - 1
    BY <2>1
  <2>3. Append(Tail(s), m) \in Seq(Message) /\ Len(Append(Tail(s), m)) = Len(Tail(s)) + 1
    BY <2>2
  <2> QED
    BY <1>1, <2>2, <2>3 DEF Bounded
<1>2. CASE ~(Len(s) >= max)
  <2>1. Append(s, m) \in Seq(Message) /\ Len(Append(s, m)) = Len(s) + 1
    OBVIOUS
  <2> QED
    BY <1>2, <2>1 DEF Bounded
<1> QED
  BY <1>1, <1>2

\* The parts of the type that a broadcast or a new entry changes.
LEMMA MarkSeenType ==
  ASSUME TypeOK, NEW n \in Nodes, NEW m \in Message, MarkSeen(n, m)
  PROVE  /\ seen' \in [Nodes -> Seq(Message)] /\ \A x \in Nodes : Len(seen'[x]) <= MaxSeen
         /\ faults' \in SUBSET Kinds
<1>1. seen[n] \in Seq(Message) /\ Len(seen[n]) <= MaxSeen /\ MaxSeen \in Nat \ {0}
  BY MembershipAssumption DEF TypeOK
<1>2. Bounded(seen[n], MaxSeen, m) \in Seq(Message) /\ Len(Bounded(seen[n], MaxSeen, m)) <= MaxSeen
  BY <1>1, BoundedType
<1>3. seen' = [seen EXCEPT ![n] = Bounded(seen[n], MaxSeen, m)]
  BY DEF MarkSeen
<1>4. faults' \in SUBSET Kinds
  BY DEF MarkSeen, TypeOK, Kinds
<1> QED
  BY <1>2, <1>3, <1>4 DEF TypeOK

LEMMA BufferType ==
  ASSUME TypeOK, NEW n \in Nodes, NEW m \in Message, BufferForDissemination(n, m)
  PROVE  buffer' \in [Nodes -> Seq(Message)] /\ \A x \in Nodes : Len(buffer'[x]) <= MaxBuffer
<1>1. buffer[n] \in Seq(Message) /\ Len(buffer[n]) <= MaxBuffer /\ MaxBuffer \in Nat \ {0}
  BY MembershipAssumption DEF TypeOK
<1>2. Bounded(buffer[n], MaxBuffer, m) \in Seq(Message) /\ Len(Bounded(buffer[n], MaxBuffer, m)) <= MaxBuffer
  BY <1>1, BoundedType
<1>3. buffer' = [buffer EXCEPT ![n] = Bounded(buffer[n], MaxBuffer, m)]
  BY DEF BufferForDissemination
<1> QED
  BY <1>2, <1>3 DEF TypeOK

LEMMA BroadcastType ==
  ASSUME TypeOK, SeqBounded, NEW n \in Nodes, NEW ev \in Events, Broadcast(n, ev)
  PROVE  /\ events' \in 0..MaxEvents /\ seqNo' \in [Nodes -> 0..MaxEvents + 1] /\ SeqBounded'
         /\ seen' \in [Nodes -> Seq(Message)] /\ \A x \in Nodes : Len(seen'[x]) <= MaxSeen
         /\ faults' \in SUBSET Kinds
         /\ buffer' \in [Nodes -> Seq(Message)] /\ \A x \in Nodes : Len(buffer'[x]) <= MaxBuffer
<1>1. /\ events < MaxEvents /\ events' = events + 1 /\ seqNo' = [seqNo EXCEPT ![n] = @ + 1]
      /\ MarkSeen(n, Msg(n, ev, seqNo[n] + 1)) /\ BufferForDissemination(n, Msg(n, ev, seqNo[n] + 1))
  BY DEF Broadcast
<1>2. /\ events \in Nat /\ MaxEvents \in Nat \ {0} /\ \A x \in Nodes : seqNo[x] \in Nat /\ seqNo[x] <= events
  BY MembershipAssumption DEF TypeOK, SeqBounded
<1>3. /\ seqNo'[n] = seqNo[n] + 1 /\ \A x \in Nodes \ {n} : seqNo'[x] = seqNo[x]
      /\ DOMAIN seqNo' = Nodes
  BY <1>1 DEF TypeOK
<1>4. SeqBounded' /\ events' \in 0..MaxEvents
  BY <1>1, <1>2, <1>3 DEF SeqBounded
<1>5. seqNo' \in [Nodes -> 0..MaxEvents + 1]
  <2>1. seqNo[n] + 1 \in 0..MaxEvents + 1
    BY <1>1, <1>2
  <2> QED
    BY <1>1, <2>1 DEF TypeOK
<1>6. Msg(n, ev, seqNo[n] + 1) \in Message
  <2>1. seqNo[n] + 1 \in 1..MaxEvents + 1
    BY <1>1, <1>2
  <2> QED
    BY <2>1 DEF Msg, Message
<1> QED
  BY <1>1, <1>4, <1>5, <1>6, MarkSeenType, BufferType

\* The entries of a sequence of messages are messages.
LEMMA EntriesType ==
  ASSUME NEW s \in Seq(Message)
  PROVE  Entries(s) \subseteq Message
<1>1. \A k \in 1..Len(s) : s[k] \in Message
  OBVIOUS
<1> QED
  BY <1>1 DEF Entries

-----------------------------------------------------------------------------
(* The invariant.                                                          *)

LEMMA InvInit == Init => Inv
<1> SUFFICES ASSUME Init PROVE Inv
  OBVIOUS
<1>1. /\ seen = [n \in Nodes |-> <<>>] /\ buffer = [n \in Nodes |-> <<>>] /\ net = {}
      /\ late = [n \in Nodes |-> {}] /\ handling = [n \in Nodes |-> None] /\ has = {} /\ faults = {}
  BY DEF Init
<1>2. MaxEvents \in Nat \ {0} /\ MaxSeen \in Nat /\ MaxBuffer \in Nat
  BY MembershipAssumption
<1>3. CASE /\ status = [n \in Nodes |-> "down"] /\ seqNo = [n \in Nodes |-> 0]
           /\ detector = [n \in Nodes |-> Nobody] /\ ring = [n \in Nodes |-> {}] /\ events = 0
  <2>1. TypeOK
    BY <1>1, <1>2, <1>3 DEF TypeOK, Nobody, Health
  <2> QED
    BY <1>1, <1>3, <2>1 DEF Inv, SeqBounded, HandlingOK, NeverItself, RingTracked, Nobody
<1>4. CASE /\ status = [n \in Nodes |-> "up"] /\ seqNo = [n \in Nodes |-> 1]
           /\ detector = [n \in Nodes |-> [x \in Nodes |-> IF x = n THEN "unknown" ELSE "alive"]]
           /\ ring = [n \in Nodes |-> Nodes] /\ events = 1
  <2>1. TypeOK
    BY <1>1, <1>2, <1>4 DEF TypeOK, Health
  <2> QED
    BY <1>1, <1>4, <2>1 DEF Inv, SeqBounded, HandlingOK, NeverItself, RingTracked
<1> QED
  BY <1>3, <1>4 DEF Init

\* Steps that leave the callback, the detector and the rings alone.
LEMMA LocalUnchanged ==
  ASSUME Inv, TypeOK', SeqBounded', UNCHANGED local, Running \subseteq Running',
         \A n \in Nodes : n \notin Running' => n \notin Running
  PROVE  Inv'
<1>1. UNCHANGED <<detector, ring, late, handling>>
  BY DEF local
<1> QED
  BY <1>1 DEF Inv, HandlingOK, NeverItself, RingTracked

LEMMA StartStep ==
  ASSUME Inv, NEW n \in Nodes, Start(n)
  PROVE  Inv'
<1>0. TypeOK /\ SeqBounded /\ HandlingOK /\ NeverItself /\ RingTracked
  BY DEF Inv
<1>1. /\ status[n] = "down" /\ status' = [status EXCEPT ![n] = "up"]
      /\ ring' = [ring EXCEPT ![n] = {n}] /\ Broadcast(n, "alive")
      /\ UNCHANGED <<net, detector, late, handling, has>>
  BY DEF Start
<1>2. TypeOK' /\ SeqBounded'
  <2>1. "alive" \in Events
    BY DEF Events
  <2>2. /\ status' \in [Nodes -> {"down", "up", "leaving"}] /\ ring' \in [Nodes -> SUBSET Nodes]
    BY <1>0, <1>1 DEF TypeOK
  <2> QED
    BY <1>0, <1>1, <2>1, <2>2, BroadcastType DEF TypeOK
<1>3. Running' = Running \cup {n}
  BY <1>0, <1>1 DEF Running, TypeOK
<1>4. HandlingOK'
  BY <1>0, <1>1, <1>3 DEF HandlingOK
<1>5. NeverItself'
  BY <1>0, <1>1, <1>3 DEF NeverItself
<1>6. RingTracked'
  <2>1. ring'[n] = {n} /\ \A x \in Nodes \ {n} : ring'[x] = ring[x]
    BY <1>0, <1>1 DEF TypeOK
  <2> QED
    BY <1>0, <1>1, <2>1 DEF RingTracked
<1> QED
  BY <1>2, <1>4, <1>5, <1>6 DEF Inv

LEMMA HaltStep ==
  ASSUME Inv, NEW n \in Nodes, Halt(n)
  PROVE  Inv'
<1>0. TypeOK /\ SeqBounded /\ HandlingOK /\ NeverItself /\ RingTracked
  BY DEF Inv
<1>1. /\ faults' = faults \cup {"stop"}
      /\ status' = [status EXCEPT ![n] = "down"]
      /\ seqNo' = [seqNo EXCEPT ![n] = 0] /\ seen' = [seen EXCEPT ![n] = <<>>]
      /\ buffer' = [buffer EXCEPT ![n] = <<>>] /\ detector' = [detector EXCEPT ![n] = Nobody]
      /\ ring' = [ring EXCEPT ![n] = {}] /\ late' = [late EXCEPT ![n] = {}]
      /\ handling' = [handling EXCEPT ![n] = None]
      /\ UNCHANGED <<net, has, events>>
  BY DEF Halt, Fault
<1>2. MaxEvents \in Nat \ {0} /\ MaxSeen \in Nat /\ MaxBuffer \in Nat /\ events \in Nat
  BY <1>0, MembershipAssumption DEF TypeOK
<1>3. Nobody \in [Nodes -> Health] /\ Nobody[n] = "unknown"
  BY DEF Nobody, Health
<1>4. TypeOK'
  <2>1. /\ status' \in [Nodes -> {"down", "up", "leaving"}] /\ seqNo' \in [Nodes -> 0..MaxEvents + 1]
        /\ ring' \in [Nodes -> SUBSET Nodes] /\ late' \in [Nodes -> SUBSET Nodes]
        /\ handling' \in [Nodes -> Message \cup {None}] /\ faults' \in SUBSET Kinds
    BY <1>0, <1>1, <1>2 DEF TypeOK, Kinds
  <2>2. seen' \in [Nodes -> Seq(Message)] /\ \A x \in Nodes : Len(seen'[x]) <= MaxSeen
    BY <1>0, <1>1, <1>2 DEF TypeOK
  <2>3. buffer' \in [Nodes -> Seq(Message)] /\ \A x \in Nodes : Len(buffer'[x]) <= MaxBuffer
    BY <1>0, <1>1, <1>2 DEF TypeOK
  <2>4. detector' \in [Nodes -> [Nodes -> Health]]
    BY <1>0, <1>1, <1>3 DEF TypeOK
  <2> QED
    BY <1>0, <1>1, <2>1, <2>2, <2>3, <2>4 DEF TypeOK
<1>5. /\ handling'[n] = None /\ detector'[n] = Nobody /\ ring'[n] = {} /\ late'[n] = {} /\ seqNo'[n] = 0
      /\ \A x \in Nodes \ {n} : /\ handling'[x] = handling[x] /\ detector'[x] = detector[x]
                                /\ ring'[x] = ring[x] /\ late'[x] = late[x] /\ seqNo'[x] = seqNo[x]
      /\ Running' = Running \ {n}
  BY <1>0, <1>1 DEF TypeOK, Running
<1>6. SeqBounded'
  BY <1>0, <1>1, <1>2, <1>5 DEF SeqBounded
<1>7. HandlingOK'
  BY <1>0, <1>5 DEF HandlingOK
<1>8. NeverItself'
  BY <1>0, <1>3, <1>5 DEF NeverItself
<1>9. RingTracked'
  BY <1>0, <1>5 DEF RingTracked
<1> QED
  BY <1>4, <1>6, <1>7, <1>8, <1>9 DEF Inv

\* The steps of gossip that reach neither the callback nor the process.
LEMMA QuietSteps ==
  ASSUME Inv, NEW n \in Nodes,
         Leave(n) \/ Create(n) \/ Drop(n) \/ Disseminate(n) \/ Expire(n) \/ \E p \in net : Lose(p)
  PROVE  Inv'
<1>0. TypeOK /\ SeqBounded
  BY DEF Inv
<1>1. CASE Leave(n)
  <2>1. /\ status[n] = "up" /\ status' = [status EXCEPT ![n] = "leaving"] /\ Broadcast(n, "dead")
        /\ UNCHANGED <<net, local, has>>
    BY <1>1 DEF Leave
  <2>2. "dead" \in Events /\ status' \in [Nodes -> {"down", "up", "leaving"}] /\ Running' = Running
    BY <1>0, <2>1 DEF Events, TypeOK, Running
  <2>3. TypeOK' /\ SeqBounded'
    BY <1>0, <2>1, <2>2, BroadcastType DEF TypeOK, local
  <2> QED
    BY <2>1, <2>2, <2>3, LocalUnchanged
<1>2. CASE Create(n) \/ Drop(n)
  <2>1. PICK ev \in {"create", "drop"} : Broadcast(n, ev)
    BY <1>2 DEF Create, Drop
  <2>2. UNCHANGED <<status, net, local>> /\ has' \in SUBSET Nodes
    BY <1>0, <1>2 DEF Create, Drop, TypeOK
  <2>3. ev \in Events /\ Running' = Running
    BY <2>1, <2>2 DEF Events, Running
  <2>4. TypeOK' /\ SeqBounded'
    BY <1>0, <2>1, <2>2, <2>3, BroadcastType DEF TypeOK, local
  <2> QED
    BY <2>2, <2>3, <2>4, LocalUnchanged
<1>3. CASE Disseminate(n)
  <2>1. /\ buffer' = [buffer EXCEPT ![n] = <<>>]
        /\ \E P \in Selected(n) : net' = net \cup [to : P, msg : Entries(buffer[n])]
        /\ UNCHANGED <<status, seqNo, seen, local, has, faults, events>>
    BY <1>3 DEF Disseminate
  <2>2. buffer' \in [Nodes -> Seq(Message)] /\ \A x \in Nodes : Len(buffer'[x]) <= MaxBuffer
    BY <1>0, <2>1, MembershipAssumption DEF TypeOK
  <2>3. net' \in SUBSET Packet
    <3>1. PICK P \in SUBSET Peers[n] : net' = net \cup [to : P, msg : Entries(buffer[n])]
      BY <2>1 DEF Selected
    <3>2. P \subseteq Nodes /\ Entries(buffer[n]) \subseteq Message
      BY <1>0, <3>1, MembershipAssumption, EntriesType DEF TypeOK
    <3>3. [to : P, msg : Entries(buffer[n])] \subseteq Packet
      BY <3>2 DEF Packet
    <3> QED
      BY <1>0, <3>1, <3>3 DEF TypeOK
  <2>4. TypeOK' /\ SeqBounded' /\ Running' = Running
    BY <1>0, <2>1, <2>2, <2>3 DEF TypeOK, SeqBounded, local, Running
  <2> QED
    BY <2>1, <2>4, LocalUnchanged
<1>4. CASE Expire(n)
  <2>1. /\ seen[n] # <<>> /\ faults' = faults \cup {"expiry"} /\ seen' = [seen EXCEPT ![n] = Tail(@)]
        /\ UNCHANGED <<status, seqNo, buffer, net, local, has, events>>
    BY <1>4 DEF Expire, Fault
  <2>2. seen[n] \in Seq(Message) /\ Len(seen[n]) <= MaxSeen /\ MaxSeen \in Nat
    BY <1>0, MembershipAssumption DEF TypeOK
  <2>3. Tail(seen[n]) \in Seq(Message) /\ Len(Tail(seen[n])) <= MaxSeen
    BY <2>1, <2>2
  <2>4. /\ seen' \in [Nodes -> Seq(Message)] /\ \A x \in Nodes : Len(seen'[x]) <= MaxSeen
        /\ faults' \in SUBSET Kinds
    BY <1>0, <2>1, <2>3 DEF TypeOK, Kinds
  <2>5. TypeOK' /\ SeqBounded' /\ Running' = Running
    BY <1>0, <2>1, <2>4 DEF TypeOK, SeqBounded, local, Running
  <2> QED
    BY <2>1, <2>5, LocalUnchanged
<1>5. CASE \E p \in net : Lose(p)
  <2>1. /\ faults' = faults \cup {"loss"} /\ net' \subseteq net
        /\ UNCHANGED <<status, gossip, local, has, events>>
    BY <1>5 DEF Lose, Fault
  <2>2. TypeOK' /\ SeqBounded' /\ Running' = Running
    BY <1>0, <2>1 DEF TypeOK, SeqBounded, local, gossip, Running, Kinds
  <2> QED
    BY <2>1, <2>2, LocalUnchanged
<1> QED
  BY <1>1, <1>2, <1>3, <1>4, <1>5

LEMMA ReceiveStep ==
  ASSUME Inv, NEW n \in Nodes, NEW p \in net, Receive(n, p)
  PROVE  Inv'
<1>0. TypeOK /\ SeqBounded /\ HandlingOK /\ NeverItself /\ RingTracked
  BY DEF Inv
<1>1. /\ n \in Running /\ handling[n] = None /\ net' = net \ {p}
      /\ UNCHANGED <<status, seqNo, ring, late, has, events>>
  BY DEF Receive
<1> DEFINE m == p.msg
<1>2. m \in Message /\ m.src \in Nodes /\ m.ev \in Events /\ m # None
  BY <1>0, MembershipAssumption DEF TypeOK, Packet, Message
<1>3. net' \in SUBSET Packet /\ SeqBounded' /\ Running' = Running
  BY <1>0, <1>1 DEF TypeOK, SeqBounded, Running
<1>4. CASE HasSeen(n, m)
  <2>1. UNCHANGED <<seen, faults, buffer, detector, handling>>
    BY <1>4 DEF Receive
  <2>2. TypeOK' /\ UNCHANGED local
    BY <1>0, <1>1, <1>3, <2>1 DEF TypeOK, local
  <2> QED
    BY <1>3, <2>2, LocalUnchanged
<1>5. CASE ~HasSeen(n, m) /\ m.src = n
  <2>1. MarkSeen(n, m) /\ BufferForDissemination(n, m) /\ UNCHANGED <<detector, handling>>
    BY <1>5 DEF Receive, HandleMessage
  <2>2. TypeOK' /\ UNCHANGED local
    BY <1>0, <1>1, <1>2, <1>3, <2>1, MarkSeenType, BufferType DEF TypeOK, local
  <2> QED
    BY <1>3, <2>2, LocalUnchanged
<1>6. CASE ~HasSeen(n, m) /\ m.src # n
  <2>1. /\ MarkSeen(n, m) /\ detector' = [detector EXCEPT ![n] = Heartbeat(@, m)]
        /\ handling' = [handling EXCEPT ![n] = m] /\ UNCHANGED buffer
    BY <1>6 DEF Receive, HandleMessage
  <2> DEFINE d == detector[n]
  <2>2. d \in [Nodes -> Health]
    BY <1>0 DEF TypeOK
  <2>3. /\ Heartbeat(d, m) \in [Nodes -> Health]
        /\ \A x \in Nodes \ {m.src} : Heartbeat(d, m)[x] = d[x]
        /\ m.ev = "alive" => Heartbeat(d, m)[m.src] = "alive"
        /\ m.ev \notin {"alive", "dead"} /\ d[m.src] # "unknown" => Heartbeat(d, m)[m.src] = "alive"
    BY <1>2, <2>2 DEF Heartbeat, Health
  <2> HIDE DEF m, d
  <2>4. /\ detector'[n] = Heartbeat(d, m) /\ handling'[n] = m
        /\ \A x \in Nodes \ {n} : detector'[x] = detector[x] /\ handling'[x] = handling[x]
    BY <1>0, <2>1 DEF TypeOK, d
  <2>5. TypeOK'
    <3>1. detector' \in [Nodes -> [Nodes -> Health]] /\ handling' \in [Nodes -> Message \cup {None}]
      BY <1>0, <1>2, <2>1, <2>3 DEF TypeOK, d
    <3> QED
      BY <1>0, <1>1, <1>2, <1>3, <2>1, <3>1, MarkSeenType DEF TypeOK
  <2>6. HandlingOK'
    BY <1>0, <1>1, <1>3, <1>6, <2>3, <2>4 DEF HandlingOK
  <2>7. NeverItself'
    BY <1>0, <1>1, <1>3, <1>6, <2>3, <2>4 DEF NeverItself, d
  <2>8. RingTracked'
    <3>1. SUFFICES ASSUME NEW y \in Nodes, NEW x \in ring[y] \ {y}
                   PROVE  \/ detector'[y][x] # "unknown"
                          \/ handling'[y] # None /\ handling'[y].src = x /\ handling'[y].ev = "dead"
      BY <1>1 DEF RingTracked
    <3>2. CASE y # n
      BY <1>0, <2>4, <3>1, <3>2 DEF RingTracked
    <3>3. CASE y = n
      <4>1. x \in Nodes /\ d[x] # "unknown"
        BY <1>0, <1>1, <3>1, <3>3 DEF RingTracked, TypeOK, d
      <4> QED
        BY <1>2, <2>3, <2>4, <3>3, <4>1
    <3> QED
      BY <3>2, <3>3
  <2> QED
    BY <1>3, <2>5, <2>6, <2>7, <2>8 DEF Inv
<1> QED
  BY <1>4, <1>5, <1>6

\* What the rest of the callback makes of the ring of its node.
LEMMA FinishRing ==
  ASSUME Inv, NEW n \in Nodes, Finish(n)
  PROVE  /\ handling[n] \in Message /\ handling[n].src \in Nodes \ {n} /\ n \in Running
         /\ UNCHANGED status
         /\ \/ ring' = [ring EXCEPT ![n] = @ \cup {handling[n].src}] /\ handling[n].ev = "alive"
            \/ ring' = [ring EXCEPT ![n] = @ \ {handling[n].src}] /\ handling[n].ev = "dead"
            \/ ring' = ring /\ handling[n].ev \in {"create", "drop"}
<1>1. TypeOK /\ HandlingOK
  BY DEF Inv
<1>2. handling[n] \in Message /\ handling[n].src \in Nodes \ {n} /\ n \in Running /\ handling[n].ev \in Events
  BY <1>1 DEF Finish, TypeOK, HandlingOK, Message
<1>3. ring' = [ring EXCEPT ![n] = CASE handling[n].ev = "alive" -> @ \cup {handling[n].src}
                                    [] handling[n].ev = "dead" -> @ \ {handling[n].src}
                                    [] OTHER -> @]
  BY DEF Finish
<1>4. UNCHANGED status
  BY DEF Finish
<1>5. CASE handling[n].ev = "alive"
  BY <1>2, <1>3, <1>4, <1>5
<1>6. CASE handling[n].ev = "dead"
  BY <1>2, <1>3, <1>4, <1>6
<1>7. CASE handling[n].ev \in {"create", "drop"}
  <2>1. ring' = [ring EXCEPT ![n] = @]
    BY <1>3, <1>7
  <2>2. ring' = ring
    BY <1>1, <2>1 DEF TypeOK
  <2> QED
    BY <1>2, <1>4, <1>7, <2>2
<1> QED
  BY <1>2, <1>5, <1>6, <1>7 DEF Events

LEMMA FinishStep ==
  ASSUME Inv, NEW n \in Nodes, Finish(n)
  PROVE  Inv'
<1>0. TypeOK /\ SeqBounded /\ HandlingOK /\ NeverItself /\ RingTracked
  BY DEF Inv
<1> DEFINE m == handling[n]
<1>1. /\ m # None /\ BufferForDissemination(n, m) /\ has' = Remote(n, m)
      /\ handling' = [handling EXCEPT ![n] = None]
      /\ UNCHANGED <<status, seqNo, seen, net, detector, late, faults, events>>
  BY DEF Finish
<1>2. /\ m \in Message /\ m.src \in Nodes \ {n} /\ n \in Running
      /\ \/ ring' = [ring EXCEPT ![n] = @ \cup {m.src}] /\ m.ev = "alive"
         \/ ring' = [ring EXCEPT ![n] = @ \ {m.src}] /\ m.ev = "dead"
         \/ ring' = ring /\ m.ev \in {"create", "drop"}
  BY FinishRing
<1>3. m.ev = "alive" => detector[n][m.src] # "unknown"
  BY <1>0, <1>1 DEF HandlingOK
<1>4. Running' = Running
  BY <1>1 DEF Running
<1> HIDE DEF m
<1>5. TypeOK'
  <2>1. ring' \in [Nodes -> SUBSET Nodes]
    <3>1. ring \in [Nodes -> SUBSET Nodes]
      BY <1>0 DEF TypeOK
    <3> QED
      BY <1>2, <3>1
  <2>2. has' \in SUBSET Nodes
    BY <1>0, <1>1 DEF Remote, TypeOK
  <2>3. handling' \in [Nodes -> Message \cup {None}]
    BY <1>0, <1>1 DEF TypeOK
  <2> QED
    BY <1>0, <1>1, <1>2, <2>1, <2>2, <2>3, BufferType DEF TypeOK
<1>6. handling'[n] = None /\ \A x \in Nodes \ {n} : handling'[x] = handling[x]
  BY <1>0, <1>1 DEF TypeOK
<1>7. HandlingOK' /\ NeverItself' /\ SeqBounded'
  BY <1>0, <1>1, <1>4, <1>6 DEF HandlingOK, NeverItself, SeqBounded
<1>8. RingTracked'
  <2>1. SUFFICES ASSUME NEW y \in Nodes, NEW x \in ring'[y] \ {y}
                 PROVE  \/ detector[y][x] # "unknown"
                        \/ handling'[y] # None /\ handling'[y].src = x /\ handling'[y].ev = "dead"
    BY <1>1 DEF RingTracked
  <2>2. ring \in [Nodes -> SUBSET Nodes]
    BY <1>0 DEF TypeOK
  <2>3. CASE y # n
    <3>1. ring'[y] = ring[y]
      BY <1>2, <2>2, <2>3
    <3> QED
      BY <1>0, <1>6, <2>1, <2>3, <3>1 DEF RingTracked
  <2>4. CASE y = n /\ m.ev = "alive"
    <3>1. ring'[n] = ring[n] \cup {m.src}
      BY <1>2, <2>2, <2>4
    <3> QED
      BY <1>0, <1>3, <2>1, <2>4, <3>1 DEF RingTracked, m
  <2>5. CASE y = n /\ m.ev = "dead"
    <3>1. ring'[n] = ring[n] \ {m.src}
      BY <1>2, <2>2, <2>5
    <3> QED
      BY <1>0, <2>1, <2>5, <3>1 DEF RingTracked, m
  <2>6. CASE y = n /\ m.ev \in {"create", "drop"}
    <3>1. ring'[n] = ring[n]
      BY <1>2, <2>6
    <3> QED
      BY <1>0, <2>1, <2>6, <3>1 DEF RingTracked, m
  <2> QED
    BY <1>2, <2>3, <2>4, <2>5, <2>6
<1> QED
  BY <1>5, <1>7, <1>8 DEF Inv

LEMMA DetectorSteps ==
  ASSUME Inv, NEW n \in Nodes, NEW x \in Nodes, CheckAll(n, x) \/ OnNodeDead(n, x)
  PROVE  Inv'
<1>0. TypeOK /\ SeqBounded /\ HandlingOK /\ NeverItself /\ RingTracked
  BY DEF Inv
<1>1. CASE CheckAll(n, x)
  <2>1. /\ n \in Running /\ detector[n][x] = "alive" /\ faults' = faults \cup {"silent"}
        /\ detector' = [detector EXCEPT ![n][x] = "dead"] /\ late' = [late EXCEPT ![n] = @ \cup {x}]
        /\ UNCHANGED <<status, gossip, net, ring, handling, has, events>>
    BY <1>1 DEF CheckAll, Fault
  <2>2. x # n
    BY <1>0, <2>1 DEF NeverItself
  <2>3. /\ \A y, z \in Nodes : detector'[y][z] = IF y = n /\ z = x THEN "dead" ELSE detector[y][z]
        /\ \A y \in Nodes : late'[y] = IF y = n THEN late[n] \cup {x} ELSE late[y]
        /\ Running' = Running
    BY <1>0, <2>1 DEF TypeOK, Running
  <2>4. TypeOK'
    <3>1. detector' \in [Nodes -> [Nodes -> Health]] /\ late' \in [Nodes -> SUBSET Nodes]
      BY <1>0, <2>1 DEF TypeOK, Health
    <3>2. faults' \in SUBSET Kinds
      BY <1>0, <2>1 DEF TypeOK, Kinds
    <3> QED
      BY <1>0, <2>1, <3>1, <3>2 DEF TypeOK, gossip
  <2>5. SeqBounded' /\ NeverItself'
    BY <1>0, <2>1, <2>2, <2>3 DEF SeqBounded, NeverItself, gossip
  <2>6. HandlingOK'
    <3>1. \A y \in Nodes : handling[y] # None => handling[y].src \in Nodes
      BY <1>0, MembershipAssumption DEF TypeOK, Message
    <3> QED
      BY <1>0, <2>1, <2>3, <3>1 DEF HandlingOK
  <2>7. RingTracked'
    <3>1. \A y \in Nodes : ring[y] \subseteq Nodes
      BY <1>0 DEF TypeOK
    <3> QED
      BY <1>0, <2>1, <2>3, <3>1 DEF RingTracked
  <2> QED
    BY <2>4, <2>5, <2>6, <2>7 DEF Inv
<1>2. CASE OnNodeDead(n, x)
  <2>1. /\ x \in late[n] /\ late' = [late EXCEPT ![n] = @ \ {x}] /\ ring' = [ring EXCEPT ![n] = @ \ {x}]
        /\ UNCHANGED <<status, gossip, net, detector, handling, has, faults, events>>
    BY <1>2 DEF OnNodeDead
  <2>2. /\ \A y \in Nodes : late'[y] \subseteq late[y] /\ ring'[y] \subseteq ring[y]
        /\ Running' = Running
    BY <1>0, <2>1 DEF TypeOK, Running
  <2>3. TypeOK'
    <3>1. ring' \in [Nodes -> SUBSET Nodes] /\ late' \in [Nodes -> SUBSET Nodes]
      BY <1>0, <2>1 DEF TypeOK
    <3> QED
      BY <1>0, <2>1, <3>1 DEF TypeOK, gossip
  <2>4. SeqBounded' /\ NeverItself' /\ HandlingOK' /\ RingTracked'
    BY <1>0, <2>1, <2>2 DEF SeqBounded, NeverItself, HandlingOK, RingTracked, gossip
  <2> QED
    BY <2>3, <2>4 DEF Inv
<1> QED
  BY <1>1, <1>2

LEMMA InvStep == Inv /\ [Next]_vars => Inv'
<1> SUFFICES ASSUME Inv, [Next]_vars PROVE Inv'
  OBVIOUS
<1>1. ASSUME NEW n \in Nodes, Start(n) PROVE Inv'
  BY <1>1, StartStep
<1>2. ASSUME NEW n \in Nodes, Halt(n) PROVE Inv'
  BY <1>2, HaltStep
<1>3. ASSUME NEW n \in Nodes, Leave(n) \/ Create(n) \/ Drop(n) \/ Disseminate(n) \/ Expire(n) PROVE Inv'
  BY <1>3, QuietSteps
<1>4. ASSUME NEW n \in Nodes, Finish(n) PROVE Inv'
  BY <1>4, FinishStep
<1>5. ASSUME NEW n \in Nodes, NEW p \in net, Receive(n, p) PROVE Inv'
  BY <1>5, ReceiveStep
<1>6. ASSUME NEW n \in Nodes, NEW x \in Nodes, OnNodeDead(n, x) \/ CheckAll(n, x) PROVE Inv'
  BY <1>6, DetectorSteps
<1>7. ASSUME NEW p \in net, Lose(p) PROVE Inv'
  <2>1. p.to \in Nodes
    BY DEF Inv, TypeOK, Packet
  <2> QED
    BY <1>7, <2>1, QuietSteps
<1>8. CASE UNCHANGED vars
  <2>1. UNCHANGED <<status, seqNo, seen, buffer, net, detector, ring, late, handling, has, events, faults>>
    BY <1>8 DEF vars, gossip, local
  <2>2. TypeOK' /\ SeqBounded' /\ UNCHANGED local /\ Running' = Running
    BY <2>1 DEF Inv, TypeOK, SeqBounded, local, Running
  <2> QED
    BY <2>2, LocalUnchanged
<1> QED
  BY <1>1, <1>2, <1>3, <1>4, <1>5, <1>6, <1>7, <1>8 DEF Next

-----------------------------------------------------------------------------
(* The refinement of ClusterView.                                          *)

\* Nobody runs, or everyone knows everyone.
LEMMA ViewInitImplied == Init => View!ViewInit
<1> SUFFICES ASSUME Init PROVE View!ViewInit
  OBVIOUS
<1>1. CASE status = [n \in Nodes |-> "down"] /\ ring = [n \in Nodes |-> {}]
  <2>1. Running = {}
    BY <1>1 DEF Running
  <2> QED
    BY <1>1, <2>1 DEF View!ViewInit
<1>2. CASE status = [n \in Nodes |-> "up"] /\ ring = [n \in Nodes |-> Nodes]
  <2>1. Running = Nodes
    BY <1>2 DEF Running
  <2> QED
    BY <1>2, <2>1 DEF View!ViewInit
<1> QED
  BY <1>1, <1>2 DEF Init

\* Start and Halt begin and end a view; the callback and OnNodeDead add and
\* remove one other node; every other step leaves the view alone.
LEMMA ViewStep == Inv /\ [Next]_vars => [View!ViewNext]_View!viewVars
<1> SUFFICES ASSUME Inv, [Next]_vars PROVE View!ViewNext \/ UNCHANGED <<Running, ring>>
  BY DEF View!viewVars
<1>0. TypeOK /\ NeverItself
  BY DEF Inv
<1>1. ASSUME NEW n \in Nodes, Start(n) PROVE View!Begin(n)
  BY <1>0, <1>1 DEF Start, View!Begin, Running, TypeOK
<1>2. ASSUME NEW n \in Nodes, Halt(n) PROVE View!End(n)
  BY <1>0, <1>2 DEF Halt, View!End, Running, TypeOK
<1>3. ASSUME NEW n \in Nodes, Leave(n) PROVE UNCHANGED <<Running, ring>>
  BY <1>0, <1>3 DEF Leave, local, Running, TypeOK
<1>4. ASSUME NEW n \in Nodes, Create(n) \/ Drop(n) \/ Disseminate(n) \/ Expire(n)
      PROVE  UNCHANGED <<Running, ring>>
  BY <1>4 DEF Create, Drop, Disseminate, Expire, local, Running
<1>5. ASSUME NEW n \in Nodes, Finish(n) PROVE View!ViewNext \/ UNCHANGED <<Running, ring>>
  <2>1. Running' = Running
    BY <1>5, FinishRing DEF Running
  <2> QED
    BY <1>5, <2>1, FinishRing DEF View!ViewNext, View!Learn, View!Forget
<1>6. ASSUME NEW n \in Nodes, NEW p \in net, Receive(n, p) PROVE UNCHANGED <<Running, ring>>
  BY <1>6 DEF Receive, Running
<1>7. ASSUME NEW n \in Nodes, NEW x \in Nodes, OnNodeDead(n, x) PROVE View!Forget(n, x)
  <2>1. n \in Running /\ x # n
    BY <1>0, <1>7 DEF OnNodeDead, NeverItself
  <2> QED
    BY <1>7, <2>1 DEF OnNodeDead, View!Forget, Running
<1>8. ASSUME NEW n \in Nodes, NEW x \in Nodes, CheckAll(n, x) PROVE UNCHANGED <<Running, ring>>
  BY <1>8 DEF CheckAll, Running
<1>9. ASSUME NEW p \in net, Lose(p) PROVE UNCHANGED <<Running, ring>>
  BY <1>9 DEF Lose, local, Running
<1>10. CASE UNCHANGED vars
  BY <1>10 DEF vars, local, Running
<1> QED
  BY <1>1, <1>2, <1>3, <1>4, <1>5, <1>6, <1>7, <1>8, <1>9, <1>10 DEF Next, View!ViewNext

-----------------------------------------------------------------------------

\* Every variable keeps its type; the seen set and the dissemination buffer
\* never outgrow their capacity.
THEOREM TypeCorrect == Spec => []TypeOK
<1>1. Inv => TypeOK
  BY DEF Inv
<1> QED
  BY <1>1, InvInit, InvStep, PTL DEF Spec

\* A ring member other than the node itself always has an address, but for the
\* moment in which its Dead event is handled.
THEOREM RingAlwaysTracked == Spec => []RingTracked
<1>1. Inv => RingTracked
  BY DEF Inv
<1> QED
  BY <1>1, InvInit, InvStep, PTL DEF Spec

\* Gossip, the detector and restarts together show the rest of a node a
\* ClusterView.
THEOREM ImplementsClusterView == Spec => RefinesClusterView
<1>1. Spec => View!ViewInit /\ [][View!ViewNext]_View!viewVars
  BY InvInit, InvStep, ViewInitImplied, ViewStep, PTL DEF Spec
<1> QED
  BY <1>1 DEF RefinesClusterView, View!ViewSpec

-----------------------------------------------------------------------------
(* What gossip reaches.                                                    *)

\* The seed lists connect the nodes and a round goes to all of them; no more
\* events are broadcast than a dissemination buffer holds.
SeedsReach ==
  /\ IsFiniteSet(Nodes) /\ MaxEvents <= MaxBuffer
  /\ \A n \in Nodes : Cardinality(Peers[n]) <= Fanout
  /\ \A S \in SUBSET Nodes : S # {} /\ (\A n \in S : Peers[n] \subseteq S) => S = Nodes

\* The messages some node has seen.
Told == UNION {Entries(seen[n]) : n \in Nodes}
Busy(n) == IF handling[n] = None THEN 0 ELSE 1

\* No buffer overflows: each message is in a buffer once, and there are no more
\* of them than events.
Counted ==
  /\ IsFiniteSet(Told) /\ Cardinality(Told) <= events
  /\ \A p \in net : p.msg \in Told
  /\ \A n \in Nodes : \A m \in Entries(seen[n]) : m.seq <= seqNo[m.src]
  /\ \A n \in Nodes : \A m \in Entries(seen[n]) : m \in Entries(seen[m.src])
  /\ \A n \in Nodes : Entries(buffer[n]) \subseteq Entries(seen[n])
  /\ \A n \in Nodes : handling[n] # None => handling[n] \in Entries(seen[n])
  /\ \A n \in Nodes : Len(buffer[n]) + Busy(n) <= Cardinality(Entries(seen[n]))

\* A message a node has seen is on its way to the node's peers, or was there.
Passed ==
  \A n \in Nodes : \A m \in Entries(seen[n]) :
    \/ m \in Entries(buffer[n]) \/ handling[n] = m
    \/ \A x \in Peers[n] : [to |-> x, msg |-> m] \in net \/ m \in Entries(seen[x])

\* The collection is where its create event was handled.
NoDrop == \A n \in Nodes : \A m \in Entries(seen[n]) : m.ev # "drop"
Created ==
  /\ NoDrop => \A n \in Nodes : \A m \in Entries(seen[n]) :
                 m.ev = "create" => n \in has \/ handling[n] = m
  /\ \A n \in has : \E m \in Entries(seen[n]) : m.ev = "create"

GossipInv == faults = {} => Counted /\ Passed /\ Created

LEMMA EntriesAppend ==
  ASSUME NEW s \in Seq(Message), NEW m \in Message
  PROVE  Entries(Append(s, m)) = Entries(s) \cup {m} /\ Len(Append(s, m)) = Len(s) + 1
<1>1. PICK t : t = Append(s, m)
  OBVIOUS
<1>2. /\ Len(s) \in Nat /\ Len(t) = Len(s) + 1 /\ t[Len(s) + 1] = m
      /\ \A k \in 1..Len(s) : t[k] = s[k]
  BY <1>1
<1>3. /\ \A k \in 1..Len(t) : k \in 1..Len(s) \/ k = Len(s) + 1
      /\ \A k \in 1..Len(s) : k \in 1..Len(t)
      /\ Len(s) + 1 \in 1..Len(t)
  BY <1>2
<1>4. Entries(t) = Entries(s) \cup {m}
  BY <1>2, <1>3 DEF Entries
<1> QED
  BY <1>1, <1>2, <1>4

\* Without a fault nothing is evicted from the seen set.
LEMMA MarkedSeen ==
  ASSUME TypeOK, NEW n \in Nodes, NEW m \in Message, MarkSeen(n, m), faults' = {}
  PROVE  /\ faults = {} /\ Entries(seen'[n]) = Entries(seen[n]) \cup {m}
         /\ \A x \in Nodes \ {n} : seen'[x] = seen[x]
         /\ \A x \in Nodes : Entries(seen[x]) \subseteq Entries(seen'[x])
         /\ Told' = Told \cup {m}
<1>1. /\ seen[n] \in Seq(Message) /\ seen \in [Nodes -> Seq(Message)] /\ MaxSeen \in Nat
      /\ Len(seen[n]) \in Nat
  BY MembershipAssumption DEF TypeOK
<1>2. ~(Len(seen[n]) >= MaxSeen) /\ faults = {}
  BY DEF MarkSeen
<1>3. seen' = [seen EXCEPT ![n] = Append(seen[n], m)]
  BY <1>2 DEF MarkSeen, Bounded
<1>4. seen'[n] = Append(seen[n], m) /\ \A x \in Nodes \ {n} : seen'[x] = seen[x]
  BY <1>1, <1>3
<1>5. Entries(seen'[n]) = Entries(seen[n]) \cup {m}
  BY <1>1, <1>4, EntriesAppend
<1>6. \A x \in Nodes : Entries(seen'[x]) = IF x = n THEN Entries(seen[x]) \cup {m} ELSE Entries(seen[x])
  BY <1>4, <1>5
<1>7. Told' = UNION {Entries(seen'[x]) : x \in Nodes}
  BY DEF Told
<1>8. Told' = Told \cup {m}
  BY <1>6, <1>7 DEF Told
<1> QED
  BY <1>2, <1>4, <1>5, <1>6, <1>8

\* A buffer with room for it keeps what it has.
LEMMA Buffered ==
  ASSUME TypeOK, NEW n \in Nodes, NEW m \in Message, BufferForDissemination(n, m),
         Len(buffer[n]) < MaxBuffer
  PROVE  /\ Entries(buffer'[n]) = Entries(buffer[n]) \cup {m}
         /\ Len(buffer'[n]) = Len(buffer[n]) + 1
         /\ \A x \in Nodes \ {n} : buffer'[x] = buffer[x]
<1>1. /\ buffer[n] \in Seq(Message) /\ buffer \in [Nodes -> Seq(Message)] /\ MaxBuffer \in Nat
      /\ Len(buffer[n]) \in Nat
  BY MembershipAssumption DEF TypeOK
<1>2. buffer' = [buffer EXCEPT ![n] = Append(buffer[n], m)]
  <2>1. ~(Len(buffer[n]) >= MaxBuffer)
    BY <1>1
  <2> QED
    BY <2>1 DEF BufferForDissemination, Bounded
<1>3. buffer'[n] = Append(buffer[n], m) /\ \A x \in Nodes \ {n} : buffer'[x] = buffer[x]
  BY <1>1, <1>2
<1> QED
  BY <1>1, <1>3, EntriesAppend

\* What a node has seen is finite, and there is no more of it than events.
LEMMA SeenCount ==
  ASSUME TypeOK, Counted, NEW n \in Nodes
  PROVE  /\ IsFiniteSet(Entries(seen[n])) /\ Entries(seen[n]) \subseteq Told
         /\ Cardinality(Entries(seen[n])) \in Nat /\ Cardinality(Told) \in Nat
         /\ Cardinality(Entries(seen[n])) <= Cardinality(Told)
         /\ Len(buffer[n]) \in Nat /\ Busy(n) \in {0, 1}
<1>1. Entries(seen[n]) \subseteq Told
  BY DEF Told
<1>2. IsFiniteSet(Entries(seen[n])) /\ Cardinality(Entries(seen[n])) <= Cardinality(Told)
  BY <1>1, FS_Subset DEF Counted
<1> QED
  BY <1>1, <1>2, FS_CardinalityType DEF Counted, TypeOK, Busy

\* A broadcast: a message nobody has seen, in the seen set and in the buffer.
LEMMA BroadcastPassed ==
  ASSUME SeedsReach, Inv, NEW n \in Nodes, NEW ev \in Events, Broadcast(n, ev),
         Counted, Passed, faults' = {}, UNCHANGED <<net, handling>>
  PROVE  /\ Counted' /\ Passed'
         /\ \E m \in Message : m.ev = ev /\ Entries(seen'[n]) = Entries(seen[n]) \cup {m}
         /\ \A x \in Nodes \ {n} : seen'[x] = seen[x]
<1>1. TypeOK /\ SeqBounded
  BY DEF Inv
<1>2. PICK m : m = Msg(n, ev, seqNo[n] + 1)
  OBVIOUS
<1>3. /\ events < MaxEvents /\ events' = events + 1 /\ seqNo' = [seqNo EXCEPT ![n] = @ + 1]
      /\ MarkSeen(n, m) /\ BufferForDissemination(n, m)
  BY <1>2 DEF Broadcast
<1>4. /\ events \in Nat /\ MaxEvents \in Nat /\ MaxBuffer \in Nat /\ MaxEvents <= MaxBuffer
      /\ seqNo \in [Nodes -> Nat] /\ seqNo[n] <= events
  BY <1>1, MembershipAssumption DEF TypeOK, SeqBounded, SeedsReach
<1>5. m \in Message /\ m.src = n /\ m.ev = ev /\ m.seq = seqNo[n] + 1
  <2>1. seqNo[n] + 1 \in 1..MaxEvents + 1
    BY <1>3, <1>4
  <2> QED
    BY <1>2, <2>1 DEF Msg, Message
<1>6. m \notin Told
  <2> SUFFICES ASSUME NEW x \in Nodes, m \in Entries(seen[x]) PROVE FALSE
    BY DEF Told
  <2>1. m.seq <= seqNo[m.src]
    BY DEF Counted
  <2> QED
    BY <1>4, <1>5, <2>1
<1>7. /\ Entries(seen'[n]) = Entries(seen[n]) \cup {m}
      /\ \A x \in Nodes \ {n} : seen'[x] = seen[x]
      /\ \A x \in Nodes : Entries(seen[x]) \subseteq Entries(seen'[x])
      /\ Told' = Told \cup {m}
  BY <1>1, <1>3, <1>5, MarkedSeen
<1>8. /\ IsFiniteSet(Entries(seen[n])) /\ Entries(seen[n]) \subseteq Told
      /\ Cardinality(Entries(seen[n])) \in Nat /\ Cardinality(Told) \in Nat
      /\ Cardinality(Entries(seen[n])) <= Cardinality(Told)
      /\ Len(buffer[n]) \in Nat /\ Busy(n) \in {0, 1}
  BY <1>1, SeenCount
<1>9. Len(buffer[n]) < MaxBuffer
  <2>1. Len(buffer[n]) + Busy(n) <= Cardinality(Entries(seen[n])) /\ Cardinality(Told) <= events
    BY DEF Counted
  <2> QED
    BY <1>3, <1>4, <1>8, <2>1
<1>10. /\ Entries(buffer'[n]) = Entries(buffer[n]) \cup {m}
       /\ Len(buffer'[n]) = Len(buffer[n]) + 1
       /\ \A x \in Nodes \ {n} : buffer'[x] = buffer[x]
  BY <1>1, <1>3, <1>5, <1>9, Buffered
<1>11. Counted'
  <2>1. IsFiniteSet(Told') /\ Cardinality(Told') <= events'
    <3>1. IsFiniteSet(Told \cup {m}) /\ Cardinality(Told \cup {m}) = Cardinality(Told) + 1
      BY <1>6, FS_AddElement DEF Counted
    <3> QED
      BY <1>3, <1>4, <1>7, <1>8, <3>1 DEF Counted
  <2>2. \A p \in net' : p.msg \in Told'
    BY <1>7 DEF Counted
  <2>3. ASSUME NEW x \in Nodes, NEW k \in Entries(seen'[x]) PROVE k.seq <= seqNo'[k.src]
    <3>1. k = m \/ k \in Entries(seen[x])
      BY <1>7
    <3>2. CASE k = m
      BY <1>3, <1>4, <1>5, <3>2
    <3>3. CASE k \in Entries(seen[x])
      <4>1. k \in Message
        BY <1>1, <3>3, EntriesType DEF TypeOK
      <4>2. k.seq <= seqNo[k.src] /\ k.seq \in Nat /\ k.src \in Nodes
        BY <1>4, <3>3, <4>1 DEF Counted, Message
      <4>3. seqNo'[k.src] = seqNo[k.src] \/ seqNo'[k.src] = seqNo[k.src] + 1
        BY <1>3, <1>4, <4>2
      <4> QED
        BY <1>4, <4>2, <4>3
    <3> QED
      BY <3>1, <3>2, <3>3
  <2>4. \A x \in Nodes : Entries(buffer'[x]) \subseteq Entries(seen'[x])
    BY <1>7, <1>10 DEF Counted
  <2>5. \A x \in Nodes : handling'[x] # None => handling'[x] \in Entries(seen'[x])
    BY <1>7 DEF Counted
  <2>6. ASSUME NEW x \in Nodes
        PROVE  Len(buffer'[x]) + Busy(x)' <= Cardinality(Entries(seen'[x]))
    <3>1. Busy(x)' = Busy(x)
      BY DEF Busy
    <3>2. CASE x = n
      <4>1. Cardinality(Entries(seen'[n])) = Cardinality(Entries(seen[n])) + 1
        BY <1>6, <1>7, <1>8, FS_AddElement
      <4>2. Len(buffer[n]) + Busy(n) <= Cardinality(Entries(seen[n]))
        BY DEF Counted
      <4> QED
        BY <1>8, <1>10, <3>1, <3>2, <4>1, <4>2
    <3>3. CASE x # n
      BY <1>7, <1>10, <3>1, <3>3 DEF Counted
    <3> QED
      BY <3>2, <3>3
  <2>7. ASSUME NEW x \in Nodes, NEW k \in Entries(seen'[x]) PROVE k \in Entries(seen'[k.src])
    <3>1. CASE k = m
      BY <1>5, <1>7, <3>1
    <3>2. CASE k # m
      <4>1. k \in Entries(seen[x])
        BY <1>7, <3>2
      <4>2. k \in Message /\ k \in Entries(seen[k.src])
        BY <1>1, <4>1, EntriesType DEF TypeOK, Counted
      <4>3. k.src \in Nodes
        BY <4>2 DEF Message
      <4> QED
        BY <1>7, <4>2, <4>3
    <3> QED
      BY <3>1, <3>2
  <2> QED
    BY <2>1, <2>2, <2>3, <2>4, <2>5, <2>6, <2>7 DEF Counted
<1>12. Passed'
  <2> SUFFICES ASSUME NEW x \in Nodes, NEW k \in Entries(seen'[x])
               PROVE  \/ k \in Entries(buffer'[x]) \/ handling'[x] = k
                      \/ \A y \in Peers[x] : [to |-> y, msg |-> k] \in net' \/ k \in Entries(seen'[y])
    BY DEF Passed
  <2>1. CASE k \in Entries(seen[x])
    <3>1. Entries(buffer[x]) \subseteq Entries(buffer'[x])
      BY <1>10
    <3>2. Peers[x] \subseteq Nodes
      BY MembershipAssumption
    <3> QED
      BY <1>7, <2>1, <3>1, <3>2 DEF Passed
  <2>2. CASE k \notin Entries(seen[x])
    BY <1>7, <1>10, <2>2
  <2> QED
    BY <2>1, <2>2
<1> QED
  BY <1>5, <1>7, <1>11, <1>12

\* A round of dissemination goes to every peer.
LEMMA DisseminatePassed ==
  ASSUME SeedsReach, Inv, NEW n \in Nodes, Disseminate(n), Counted, Passed
  PROVE  Counted' /\ Passed'
<1>1. TypeOK
  BY DEF Inv
<1>2. PICK P \in Selected(n) : net' = net \cup [to : P, msg : Entries(buffer[n])]
  BY DEF Disseminate
<1>3. buffer' = [buffer EXCEPT ![n] = <<>>] /\ UNCHANGED <<seqNo, seen, handling, events>>
  BY DEF Disseminate, local
<1>4. P = Peers[n]
  <2>1. Peers[n] \subseteq Nodes
    BY MembershipAssumption
  <2>2. IsFiniteSet(Peers[n])
    BY <2>1, FS_Subset DEF SeedsReach
  <2>3. P \subseteq Peers[n] /\ Cardinality(P) = Cardinality(Peers[n])
    <3>1. Cardinality(Peers[n]) \in Nat /\ Fanout \in Nat /\ Cardinality(Peers[n]) <= Fanout
      BY <2>2, FS_CardinalityType, MembershipAssumption DEF SeedsReach
    <3>2. ~(Fanout < Cardinality(Peers[n]))
      BY <3>1
    <3> QED
      BY <3>2 DEF Selected
  <2> QED
    BY <2>2, <2>3, FS_Subset
<1>5. buffer'[n] = <<>> /\ \A x \in Nodes \ {n} : buffer'[x] = buffer[x]
  BY <1>1, <1>3 DEF TypeOK
<1>6. Entries(<<>>) = {} /\ Len(<<>>) = 0
  BY DEF Entries
<1>7. Told' = Told
  BY <1>3 DEF Told
<1>8. Counted'
  <2>1. \A p \in net' : p.msg \in Told'
    <3>1. \A p \in [to : P, msg : Entries(buffer[n])] : p.msg \in Entries(buffer[n])
      OBVIOUS
    <3>2. Entries(buffer[n]) \subseteq Told
      BY DEF Counted, Told
    <3> QED
      BY <1>2, <1>7, <3>1, <3>2 DEF Counted
  <2>2. \A x \in Nodes : Entries(buffer'[x]) \subseteq Entries(seen'[x])
    BY <1>3, <1>5, <1>6 DEF Counted
  <2>3. ASSUME NEW x \in Nodes
        PROVE  Len(buffer'[x]) + Busy(x)' <= Cardinality(Entries(seen'[x]))
    <3>1. Busy(x)' = Busy(x) /\ Busy(x) \in {0, 1} /\ Len(buffer[x]) \in Nat
      BY <1>1, <1>3, SeenCount DEF Busy
    <3>2. Len(buffer[x]) + Busy(x) <= Cardinality(Entries(seen[x])) /\ Cardinality(Entries(seen[x])) \in Nat
      BY <1>1, SeenCount DEF Counted
    <3>3. Len(buffer'[x]) = 0 \/ Len(buffer'[x]) = Len(buffer[x])
      BY <1>5, <1>6
    <3> QED
      BY <1>3, <3>1, <3>2, <3>3
  <2> QED
    BY <1>3, <1>7, <2>1, <2>2, <2>3 DEF Counted
<1>9. Passed'
  <2> SUFFICES ASSUME NEW x \in Nodes, NEW k \in Entries(seen[x])
               PROVE  \/ k \in Entries(buffer'[x]) \/ handling[x] = k
                      \/ \A y \in Peers[x] : [to |-> y, msg |-> k] \in net' \/ k \in Entries(seen[y])
    BY <1>3 DEF Passed
  <2>1. CASE x = n /\ k \in Entries(buffer[n])
    <3>1. \A y \in P : [to |-> y, msg |-> k] \in [to : P, msg : Entries(buffer[n])]
      BY <2>1
    <3> QED
      BY <1>2, <1>4, <2>1, <3>1
  <2>2. CASE ~(x = n /\ k \in Entries(buffer[n]))
    <3>1. k \in Entries(buffer[x]) => k \in Entries(buffer'[x])
      BY <1>5, <2>2
    <3> QED
      BY <1>2, <3>1 DEF Passed
  <2> QED
    BY <2>1, <2>2
<1> QED
  BY <1>8, <1>9

\* A packet that arrives: seen before, or seen now and handled.
LEMMA ReceivePassed ==
  ASSUME SeedsReach, Inv, NEW n \in Nodes, NEW p \in net, Receive(n, p),
         Counted, Passed, Created, faults' = {}
  PROVE  Counted' /\ Passed' /\ Created'
<1>1. TypeOK /\ faults \subseteq Kinds
  BY DEF Inv, TypeOK
<1>2. PICK m : m = p.msg
  OBVIOUS
<1>3. /\ m \in Message /\ p = [to |-> n, msg |-> m] /\ m \in Told
  BY <1>1, <1>2 DEF Receive, TypeOK, Packet, Counted
<1>4. /\ handling[n] = None /\ net' = net \ {p} /\ UNCHANGED <<seqNo, has, events>>
  BY DEF Receive
<1>5. CASE HasSeen(n, m)
  <2>1. m \in Entries(seen[n]) /\ UNCHANGED <<seen, faults, buffer, handling>>
    BY <1>2, <1>5 DEF Receive, HasSeen
  <2>2. Told' = Told /\ \A x \in Nodes : Busy(x)' = Busy(x)
    BY <2>1 DEF Told, Busy
  <2>3. Counted'
    BY <1>4, <2>1, <2>2 DEF Counted
  <2>4. Passed'
    BY <1>3, <1>4, <2>1 DEF Passed
  <2>5. Created'
    BY <1>4, <2>1 DEF Created, NoDrop
  <2> QED
    BY <2>3, <2>4, <2>5
<1>6. CASE ~HasSeen(n, m)
  <2>1. MarkSeen(n, m) /\ HandleMessage(n, m) /\ m \notin Entries(seen[n])
    BY <1>2, <1>6 DEF Receive, HasSeen
  <2>2. /\ Entries(seen'[n]) = Entries(seen[n]) \cup {m}
        /\ \A x \in Nodes \ {n} : seen'[x] = seen[x]
        /\ \A x \in Nodes : Entries(seen[x]) \subseteq Entries(seen'[x])
        /\ Told' = Told
    BY <1>1, <1>3, <2>1, MarkedSeen
  <2>3. /\ IsFiniteSet(Entries(seen[n])) /\ Entries(seen[n]) \subseteq Told
        /\ Cardinality(Entries(seen[n])) \in Nat /\ Cardinality(Told) \in Nat
        /\ Len(buffer[n]) \in Nat /\ Busy(n) = 0
        /\ Len(buffer[n]) + Busy(n) <= Cardinality(Entries(seen[n])) /\ Cardinality(Told) <= events
    BY <1>1, <1>4, SeenCount DEF Counted, Busy
  <2>4. Cardinality(Entries(seen'[n])) = Cardinality(Entries(seen[n])) + 1
    BY <2>1, <2>2, <2>3, FS_AddElement
  \* Without a restart a node has seen its own messages, so this is another's.
  <2>5. m.src # n
    BY <1>3, <2>1 DEF Counted, Told
  <2>6. /\ buffer' = buffer /\ handling'[n] = m
        /\ \A x \in Nodes \ {n} : handling'[x] = handling[x]
    BY <1>1, <2>1, <2>5 DEF HandleMessage, TypeOK
  <2>7. m # None
    BY <1>3, MembershipAssumption
  <2>8. Busy(n)' = 1 /\ \A x \in Nodes \ {n} : Busy(x)' = Busy(x)
    BY <2>6, <2>7 DEF Busy
  <2>9. Counted'
    <3>1. \A q \in net' : q.msg \in Told'
      BY <1>4, <2>2 DEF Counted
    <3>2. \A x \in Nodes : \A k \in Entries(seen'[x]) : k.seq <= seqNo'[k.src]
      <4>1. \A k \in Told : k.seq <= seqNo[k.src]
        BY DEF Told, Counted
      <4> QED
        BY <1>4, <2>2, <4>1 DEF Told
    <3>6. \A x \in Nodes : \A k \in Entries(seen'[x]) : k \in Entries(seen'[k.src])
      <4>1. ASSUME NEW k \in Told PROVE k \in Entries(seen[k.src]) /\ k.src \in Nodes
        <5>1. PICK x \in Nodes : k \in Entries(seen[x])
          BY DEF Told
        <5>2. k \in Message
          BY <1>1, <5>1, EntriesType DEF TypeOK
        <5> QED
          BY <5>1, <5>2 DEF Counted, Message
      <4>2. \A x \in Nodes : Entries(seen'[x]) \subseteq Told
        BY <2>2 DEF Told
      <4> QED
        BY <2>2, <4>1, <4>2
    <3>3. \A x \in Nodes : Entries(buffer'[x]) \subseteq Entries(seen'[x])
      BY <2>2, <2>6 DEF Counted
    <3>4. \A x \in Nodes : handling'[x] # None => handling'[x] \in Entries(seen'[x])
      BY <2>2, <2>6 DEF Counted
    <3>5. ASSUME NEW x \in Nodes
          PROVE  Len(buffer'[x]) + Busy(x)' <= Cardinality(Entries(seen'[x]))
      <4>1. CASE x = n
        BY <2>3, <2>4, <2>6, <2>8, <4>1
      <4>2. CASE x # n
        BY <2>2, <2>6, <2>8, <4>2 DEF Counted
      <4> QED
        BY <4>1, <4>2
    <3> QED
      BY <1>4, <2>2, <3>1, <3>2, <3>3, <3>4, <3>5, <3>6 DEF Counted
  <2>10. Passed'
    <3> SUFFICES ASSUME NEW x \in Nodes, NEW k \in Entries(seen'[x])
                 PROVE  \/ k \in Entries(buffer'[x]) \/ handling'[x] = k
                        \/ \A y \in Peers[x] : [to |-> y, msg |-> k] \in net' \/ k \in Entries(seen'[y])
      BY DEF Passed
    <3>1. CASE k \in Entries(seen[x])
      <4>1. k # None
        BY <1>1, <3>1, EntriesType, MembershipAssumption DEF TypeOK
      <4>2. k \in Entries(buffer[x]) => k \in Entries(buffer'[x])
        BY <2>6
      <4>3. handling[x] = k => handling'[x] = k
        BY <1>4, <2>6, <4>1
      <4>4. ASSUME NEW y \in Peers[x], [to |-> y, msg |-> k] \in net \/ k \in Entries(seen[y])
            PROVE  [to |-> y, msg |-> k] \in net' \/ k \in Entries(seen'[y])
        <5>1. y \in Nodes
          BY MembershipAssumption
        <5>2. CASE [to |-> y, msg |-> k] = p
          <6>1. y = n /\ k = m
            BY <1>3, <5>2
          <6> QED
            BY <2>2, <6>1
        <5>3. CASE [to |-> y, msg |-> k] # p
          BY <1>4, <2>2, <4>4, <5>1, <5>3
        <5> QED
          BY <5>2, <5>3
      <4> QED
        BY <3>1, <4>2, <4>3, <4>4 DEF Passed
    <3>2. CASE k \notin Entries(seen[x])
      BY <2>2, <2>6, <3>2
    <3> QED
      BY <3>1, <3>2
  <2>11. Created'
    <3>1. ASSUME NoDrop', NEW x \in Nodes, NEW k \in Entries(seen'[x]), k.ev = "create"
          PROVE  x \in has' \/ handling'[x] = k
      <4>1. NoDrop
        BY <2>2, <3>1 DEF NoDrop
      <4>2. CASE k \in Entries(seen[x])
        <5>1. k # None
          BY <1>1, <4>2, EntriesType, MembershipAssumption DEF TypeOK
        <5>2. x \in has \/ handling[x] = k
          BY <3>1, <4>1, <4>2 DEF Created
        <5> QED
          BY <1>4, <2>6, <5>1, <5>2
      <4>3. CASE k \notin Entries(seen[x])
        BY <2>2, <2>6, <4>3
      <4> QED
        BY <4>2, <4>3
    <3>2. \A x \in has' : x \in Nodes /\ \E k \in Entries(seen'[x]) : k.ev = "create"
      BY <1>1, <1>4, <2>2 DEF Created, TypeOK
    <3> QED
      BY <3>1, <3>2 DEF Created
  <2> QED
    BY <2>9, <2>10, <2>11
<1> QED
  BY <1>5, <1>6

\* The end of a callback: the collection is made or dropped, and the message
\* is passed on.
LEMMA FinishPassed ==
  ASSUME SeedsReach, Inv, NEW n \in Nodes, Finish(n), Counted, Passed, Created
  PROVE  Counted' /\ Passed' /\ Created'
<1>1. TypeOK
  BY DEF Inv
<1>2. PICK m : m = handling[n]
  OBVIOUS
<1>3. m # None /\ m \in Message /\ m \in Entries(seen[n])
  BY <1>1, <1>2 DEF Finish, TypeOK, Counted
<1>4. /\ has' = Remote(n, m) /\ BufferForDissemination(n, m)
      /\ handling' = [handling EXCEPT ![n] = None] /\ UNCHANGED <<seqNo, seen, net, events>>
  BY <1>2 DEF Finish
<1>5. handling'[n] = None /\ \A x \in Nodes \ {n} : handling'[x] = handling[x]
  BY <1>1, <1>4 DEF TypeOK
<1>6. Busy(n) = 1 /\ Busy(n)' = 0 /\ \A x \in Nodes \ {n} : Busy(x)' = Busy(x)
  BY <1>2, <1>3, <1>5 DEF Busy
<1>7. /\ Cardinality(Entries(seen[n])) \in Nat /\ Cardinality(Told) \in Nat
      /\ Cardinality(Entries(seen[n])) <= Cardinality(Told) /\ Len(buffer[n]) \in Nat
      /\ Len(buffer[n]) + 1 <= Cardinality(Entries(seen[n])) /\ Cardinality(Told) <= events
  BY <1>1, <1>6, SeenCount DEF Counted
<1>8. Len(buffer[n]) < MaxBuffer
  <2>1. /\ events \in Nat /\ MaxEvents \in Nat /\ MaxBuffer \in Nat /\ MaxEvents <= MaxBuffer
        /\ events <= MaxEvents
    BY <1>1, MembershipAssumption DEF TypeOK, SeedsReach
  <2> QED
    BY <1>7, <2>1
<1>9. /\ Entries(buffer'[n]) = Entries(buffer[n]) \cup {m}
      /\ Len(buffer'[n]) = Len(buffer[n]) + 1
      /\ \A x \in Nodes \ {n} : buffer'[x] = buffer[x]
  BY <1>1, <1>3, <1>4, <1>8, Buffered
<1>10. Counted'
  <2>1. Told' = Told
    BY <1>4 DEF Told
  <2>2. \A x \in Nodes : Entries(buffer'[x]) \subseteq Entries(seen'[x])
    BY <1>3, <1>4, <1>9 DEF Counted
  <2>3. \A x \in Nodes : handling'[x] # None => handling'[x] \in Entries(seen'[x])
    BY <1>4, <1>5 DEF Counted
  <2>4. ASSUME NEW x \in Nodes
        PROVE  Len(buffer'[x]) + Busy(x)' <= Cardinality(Entries(seen'[x]))
    <3>1. CASE x = n
      BY <1>4, <1>6, <1>7, <1>9, <3>1
    <3>2. CASE x # n
      BY <1>4, <1>6, <1>9, <3>2 DEF Counted
    <3> QED
      BY <3>1, <3>2
  <2> QED
    BY <1>4, <2>1, <2>2, <2>3, <2>4 DEF Counted
<1>11. Passed'
  <2>1. \A x \in Nodes : Entries(buffer[x]) \subseteq Entries(buffer'[x])
    BY <1>9
  <2>2. \A x \in Nodes : \A k \in Entries(seen[x]) :
          handling[x] = k => handling'[x] = k \/ k \in Entries(buffer'[x])
    BY <1>2, <1>5, <1>9
  <2> QED
    BY <1>4, <2>1, <2>2 DEF Passed
<1>12. Created'
  <2>1. ASSUME NoDrop', NEW x \in Nodes, NEW k \in Entries(seen'[x]), k.ev = "create"
        PROVE  x \in has' \/ handling'[x] = k
    <3>1. NoDrop /\ m.ev # "drop"
      BY <1>3, <1>4, <2>1 DEF NoDrop
    <3>2. has \subseteq has' /\ (m.ev = "create" => n \in has')
      BY <1>4, <3>1 DEF Remote
    <3>3. x \in has \/ handling[x] = k
      BY <1>4, <2>1, <3>1 DEF Created
    <3> QED
      BY <1>2, <1>5, <2>1, <3>2, <3>3
  <2>2. ASSUME NEW x \in has' PROVE \E k \in Entries(seen'[x]) : k.ev = "create"
    <3>1. x \in has \/ (x = n /\ m.ev = "create")
      BY <1>4, <2>2 DEF Remote
    <3> QED
      BY <1>3, <1>4, <3>1 DEF Created
  <2> QED
    BY <2>1, <2>2 DEF Created
<1> QED
  BY <1>10, <1>11, <1>12

\* The collection's events, at a broadcast.
LEMMA BroadcastCreated ==
  ASSUME TypeOK, Created, NEW n \in Nodes, NEW m \in Message, UNCHANGED handling,
         Entries(seen'[n]) = Entries(seen[n]) \cup {m},
         \A x \in Nodes \ {n} : seen'[x] = seen[x], has' \subseteq Nodes,
         \/ has' = has /\ m.ev \notin {"create", "drop"}
         \/ has' = has \cup {n} /\ m.ev = "create"
         \/ has' = has \ {n} /\ m.ev = "drop"
  PROVE  Created'
<1>1. \A x \in Nodes : Entries(seen[x]) \subseteq Entries(seen'[x])
  OBVIOUS
<1>2. ASSUME NoDrop', NEW x \in Nodes, NEW k \in Entries(seen'[x]), k.ev = "create"
      PROVE  x \in has' \/ handling'[x] = k
  <2>1. NoDrop /\ m.ev # "drop"
    BY <1>1, <1>2 DEF NoDrop
  <2>2. CASE k \in Entries(seen[x])
    BY <1>2, <2>1, <2>2 DEF Created
  <2>3. CASE k \notin Entries(seen[x])
    BY <1>2, <2>1, <2>3
  <2> QED
    BY <2>2, <2>3
<1>3. ASSUME NEW x \in has' PROVE \E k \in Entries(seen'[x]) : k.ev = "create"
  <2>1. CASE x \in has
    <3>1. \E k \in Entries(seen[x]) : k.ev = "create"
      BY <2>1 DEF Created
    <3> QED
      BY <1>1, <3>1
  <2>2. CASE x \notin has
    BY <2>2
  <2> QED
    BY <2>1, <2>2
<1> QED
  BY <1>2, <1>3 DEF Created

LEMMA GossipInit == ASSUME Init PROVE GossipInv
<1>1. /\ seen = [n \in Nodes |-> <<>>] /\ buffer = [n \in Nodes |-> <<>>] /\ net = {}
      /\ handling = [n \in Nodes |-> None] /\ has = {} /\ events \in Nat
  BY DEF Init
<1>2. \A n \in Nodes : Entries(seen[n]) = {} /\ Entries(buffer[n]) = {} /\ Len(buffer[n]) = 0
  BY <1>1 DEF Entries
<1>3. Told = {}
  BY <1>2 DEF Told
<1>4. \A n \in Nodes : Busy(n) = 0
  BY <1>1 DEF Busy
<1>5. Counted
  BY <1>1, <1>2, <1>3, <1>4, FS_EmptySet DEF Counted
<1> QED
  BY <1>1, <1>2, <1>5 DEF GossipInv, Passed, Created

LEMMA GossipStep ==
  ASSUME SeedsReach, Inv, GossipInv, [Next]_vars
  PROVE  GossipInv'
<1> SUFFICES ASSUME faults' = {} PROVE Counted' /\ Passed' /\ Created'
  BY DEF GossipInv
<1>0. TypeOK
  BY DEF Inv
\* A step without a fault follows a state without one.
<1>1. CASE faults # {}
  <2>1. Next \/ faults' = faults
    BY DEF vars
  <2>2. \A m : \A n \in Nodes : MarkSeen(n, m) => faults \subseteq faults'
    BY DEF MarkSeen
  <2>3. Next => faults \subseteq faults'
    BY <2>2 DEF Next, Start, Leave, Halt, Create, Drop, Disseminate, Finish, Expire, Receive,
                OnNodeDead, CheckAll, Lose, Broadcast, Fault
  <2> QED
    BY <1>1, <2>1, <2>3
<1>2. CASE faults = {}
  <2>0. Counted /\ Passed /\ Created
    BY <1>2 DEF GossipInv
  <2>1. CASE UNCHANGED <<seqNo, seen, buffer, net, handling, has, events>>
    <3>1. Told' = Told /\ \A n \in Nodes : Busy(n)' = Busy(n)
      BY <2>1 DEF Told, Busy
    <3> QED
      BY <2>0, <2>1, <3>1 DEF Counted, Passed, Created, NoDrop
  <2>2. ASSUME NEW n \in Nodes, NEW ev \in Events, Broadcast(n, ev), UNCHANGED <<net, handling>>,
               has' \subseteq Nodes,
               \/ has' = has /\ ev \notin {"create", "drop"}
               \/ has' = has \cup {n} /\ ev = "create"
               \/ has' = has \ {n} /\ ev = "drop"
        PROVE  Counted' /\ Passed' /\ Created'
    <3>1. Counted' /\ Passed' /\ \A x \in Nodes \ {n} : seen'[x] = seen[x]
      BY <2>0, <2>2, BroadcastPassed
    <3>2. PICK m \in Message : m.ev = ev /\ Entries(seen'[n]) = Entries(seen[n]) \cup {m}
      BY <2>0, <2>2, BroadcastPassed
    <3> QED
      BY <1>0, <2>0, <2>2, <3>1, <3>2, BroadcastCreated
  <2>3. ASSUME NEW n \in Nodes, Start(n) \/ Leave(n) \/ Create(n) \/ Drop(n)
        PROVE  Counted' /\ Passed' /\ Created'
    <3>1. has \subseteq Nodes
      BY <1>0 DEF TypeOK
    <3> QED
      BY <2>2, <2>3, <3>1 DEF Start, Leave, Create, Drop, local, Events
  <2>4. ASSUME NEW n \in Nodes, Disseminate(n) PROVE Counted' /\ Passed' /\ Created'
    <3>1. UNCHANGED <<seen, has, handling>>
      BY <2>4 DEF Disseminate, local
    <3>2. Created'
      BY <2>0, <3>1 DEF Created, NoDrop
    <3> QED
      BY <2>0, <2>4, <3>2, DisseminatePassed
  <2>5. ASSUME NEW n \in Nodes, Finish(n) PROVE Counted' /\ Passed' /\ Created'
    BY <2>0, <2>5, FinishPassed
  <2>6. ASSUME NEW n \in Nodes, NEW p \in net, Receive(n, p) PROVE Counted' /\ Passed' /\ Created'
    BY <2>0, <2>6, ReceivePassed
  <2>7. ASSUME NEW n \in Nodes, NEW x \in Nodes, OnNodeDead(n, x)
        PROVE  Counted' /\ Passed' /\ Created'
    BY <2>1, <2>7 DEF OnNodeDead, gossip
  <2>8. ASSUME NEW n \in Nodes, NEW x \in Nodes, Halt(n) \/ Expire(n) \/ CheckAll(n, x) PROVE FALSE
    BY <2>8 DEF Halt, Expire, CheckAll, Fault
  <2>9. ASSUME NEW p \in net, Lose(p) PROVE FALSE
    BY <2>9 DEF Lose, Fault
  <2>10. CASE UNCHANGED vars
    BY <2>1, <2>10 DEF vars, gossip, local
  <2> QED
    BY <2>3, <2>4, <2>5, <2>6, <2>7, <2>8, <2>9, <2>10 DEF Next
<1> QED
  BY <1>1, <1>2

\* When gossip without faults has come to rest, the nodes agree on the
\* collection: the nodes that have seen its create event are closed under the
\* seed lists, so they are all the nodes (CreateCollectionRemote, disseminate).
THEOREM QuietNodesAgree ==
  ASSUME SeedsReach
  PROVE  Spec => []QuietAgree
<1>1. ASSUME Inv, GossipInv PROVE QuietAgree
  <2> SUFFICES ASSUME Quiet, faults = {}, NoDrop, has # {} PROVE has = Nodes
    BY DEF QuietAgree, NoDrop
  <2>1. TypeOK /\ Counted /\ Passed /\ Created
    BY <1>1 DEF GossipInv, Inv
  <2>2. has \subseteq Nodes
    BY <2>1 DEF TypeOK
  <2>3. PICK n \in has : TRUE
    OBVIOUS
  <2>4. PICK m \in Entries(seen[n]) : m.ev = "create"
    BY <2>1 DEF Created
  <2>5. m # None
    BY <2>1, <2>2, EntriesType, MembershipAssumption DEF TypeOK
  <2>6. PICK S : S = {x \in Nodes : m \in Entries(seen[x])}
    OBVIOUS
  <2>7. ASSUME NEW x \in S PROVE Peers[x] \subseteq S
    <3>1. x \in Nodes /\ m \in Entries(seen[x]) /\ Peers[x] \subseteq Nodes
      BY <2>6, MembershipAssumption
    <3>2. m \notin Entries(buffer[x]) /\ handling[x] # m /\ net = {}
      BY <2>5, <3>1 DEF Quiet, Entries
    <3>3. \A y \in Peers[x] : m \in Entries(seen[y])
      BY <2>1, <3>1, <3>2 DEF Passed
    <3> QED
      BY <2>6, <3>1, <3>3
  <2>8. S = Nodes
    BY <2>2, <2>4, <2>6, <2>7 DEF SeedsReach
  <2>9. ASSUME NEW x \in Nodes PROVE x \in has
    <3>1. m \in Entries(seen[x]) /\ handling[x] = None
      BY <2>6, <2>8 DEF Quiet
    <3> QED
      BY <2>1, <2>4, <2>5, <3>1 DEF Created
  <2> QED
    BY <2>2, <2>9
<1>2. Init => Inv /\ GossipInv
  BY InvInit, GossipInit
<1>3. (Inv /\ GossipInv) /\ [Next]_vars => (Inv /\ GossipInv)'
  BY InvStep, GossipStep
<1>4. Inv /\ GossipInv => QuietAgree
  BY <1>1
<1> QED
  BY <1>2, <1>3, <1>4, PTL DEF Spec
=============================================================================
