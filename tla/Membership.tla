----------------------------- MODULE Membership -----------------------------
(***************************************************************************)
(* Cluster membership: gossip over UDP with deduplication, the failure     *)
(* detector, the hash ring each node keeps, and the collections created    *)
(* and dropped by gossip.  Main wires them: the gossip callback updates    *)
(* the detector and the ring, the detector's OnNodeDead runs in a          *)
(* goroutine of its own.                                                   *)
(*                                                                         *)
(* Time is not modelled: a tracked node may be found dead at any time      *)
(* after its last heartbeat, a seen entry may expire.  Suspect nodes are   *)
(* treated as alive ones by everybody; OnNodeSuspect only logs.  One       *)
(* collection name stands for all.  Packets are lost and reordered; an     *)
(* event comes to a node more than once when the peers form a cycle.       *)
(***************************************************************************)
EXTENDS Integers, Sequences, FiniteSets

CONSTANTS Nodes, None,
          Peers,      \* Peers[n]: the seed nodes of n
          Fanout,     \* peers a round of dissemination is sent to
          MaxSeen,    \* capacity of the seen set
          MaxBuffer,  \* capacity of the dissemination buffer
          MaxEvents,  \* bound on the events broadcast
          MaxFaults   \* bound on the kinds of faults besides a stop

Events == {"alive", "dead", "create", "drop"}

\* A message; its seenKey is all of it, the payload follows from the event.
Message == [src : Nodes, ev : Events, seq : 1..MaxEvents + 1]
Packet == [to : Nodes, msg : Message]
Health == {"unknown", "alive", "dead"}
Kinds == {"stop", "loss", "expiry", "silent", "evict"}

ASSUME MembershipAssumption ==
  /\ None \notin Message
  /\ Peers \in [Nodes -> SUBSET Nodes]
  /\ Fanout \in Nat \ {0} /\ MaxSeen \in Nat \ {0} /\ MaxBuffer \in Nat \ {0}
  /\ MaxEvents \in Nat \ {0} /\ MaxFaults \in Nat

VARIABLES status,    \* "down", "up" or "leaving" (after the Dead broadcast)
          seqNo,     \* Protocol.seqNo, lost with the process
          seen,      \* seenSet, oldest entry first
          buffer,    \* Protocol.buffer
          net,       \* packets in flight
          detector,  \* detector[n][x]: the state of x in the detector of n
          ring,      \* HashRing.nodes
          late,      \* late[n]: nodes whose OnNodeDead goroutine has not run yet
          handling,  \* the message whose callback the receive loop is in
          has,       \* the nodes that have the collection
          events,    \* history: events broadcast so far
          faults     \* history: kinds of faults so far

gossip == <<seqNo, seen, buffer>>
local == <<detector, ring, late, handling>>
vars == <<status, gossip, net, local, has, events, faults>>

Running == {n \in Nodes : status[n] # "down"}
Entries(s) == {s[k] : k \in 1..Len(s)}
Nobody == [x \in Nodes |-> "unknown"]
Msg(n, ev, k) == [src |-> n, ev |-> ev, seq |-> k]

\* A fault of kind k, the first of its kind in this behaviour.
Fault(k) ==
  /\ k \notin faults /\ (k = "stop" \/ Cardinality(faults \ {"stop"}) < MaxFaults)
  /\ faults' = faults \cup {k}

\* Mutant of Bounded: the bound is checked one entry too late.
BoundedLate(s, max, m) == Append(IF Len(s) > max THEN Tail(s) ELSE s, m)

\* markSeen evicts the oldest entry of a full set, bufferForDissemination
\* drops the oldest message of a full buffer.
Bounded(s, max, m) == Append(IF Len(s) >= max THEN Tail(s) ELSE s, m)
MarkSeen(n, m) ==
  /\ seen' = [seen EXCEPT ![n] = Bounded(@, MaxSeen, m)]
  /\ faults' = IF Len(seen[n]) >= MaxSeen THEN faults \cup {"evict"} ELSE faults
BufferForDissemination(n, m) == buffer' = [buffer EXCEPT ![n] = Bounded(@, MaxBuffer, m)]

\* Broadcast: a new sequence number, marked as seen, buffered.
Broadcast(n, ev) ==
  /\ events < MaxEvents
  /\ events' = events + 1
  /\ seqNo' = [seqNo EXCEPT ![n] = @ + 1]
  /\ MarkSeen(n, Msg(n, ev, seqNo[n] + 1))
  /\ BufferForDissemination(n, Msg(n, ev, seqNo[n] + 1))

-----------------------------------------------------------------------------
(* The life of a process: start with a ring of its own, broadcast Alive;   *)
(* on shutdown broadcast Dead, which the stop may overtake.                *)

Start(n) ==
  /\ status[n] = "down"
  /\ status' = [status EXCEPT ![n] = "up"]
  /\ ring' = [ring EXCEPT ![n] = {n}]
  /\ Broadcast(n, "alive")
  /\ UNCHANGED <<net, detector, late, handling, has>>

Leave(n) ==
  /\ status[n] = "up"
  /\ status' = [status EXCEPT ![n] = "leaving"]
  /\ Broadcast(n, "dead")
  /\ UNCHANGED <<net, local, has>>

\* The end of the process, after Leave or by a crash; at most one per run.
Halt(n) ==
  /\ n \in Running
  /\ Fault("stop")
  /\ status' = [status EXCEPT ![n] = "down"]
  /\ seqNo' = [seqNo EXCEPT ![n] = 0]
  /\ seen' = [seen EXCEPT ![n] = <<>>]
  /\ buffer' = [buffer EXCEPT ![n] = <<>>]
  /\ detector' = [detector EXCEPT ![n] = Nobody]
  /\ ring' = [ring EXCEPT ![n] = {}]
  /\ late' = [late EXCEPT ![n] = {}]
  /\ handling' = [handling EXCEPT ![n] = None]
  /\ UNCHANGED <<net, has, events>>

\* CreateCollection and DeleteCollection of a client, with their broadcast.
Create(n) ==
  /\ n \in Running \ has
  /\ has' = has \cup {n}
  /\ Broadcast(n, "create")
  /\ UNCHANGED <<status, net, local>>

Drop(n) ==
  /\ n \in Running \cap has
  /\ has' = has \ {n}
  /\ Broadcast(n, "drop")
  /\ UNCHANGED <<status, net, local>>

-----------------------------------------------------------------------------
(* Gossip.                                                                 *)

\* disseminate: drain the buffer and send all of it to Fanout random peers.
Selected(n) == {P \in SUBSET Peers[n] :
                  Cardinality(P) = IF Fanout < Cardinality(Peers[n]) THEN Fanout
                                   ELSE Cardinality(Peers[n])}
Disseminate(n) ==
  /\ n \in Running /\ buffer[n] # <<>>
  /\ buffer' = [buffer EXCEPT ![n] = <<>>]
  /\ \E P \in Selected(n) : net' = net \cup [to : P, msg : Entries(buffer[n])]
  /\ UNCHANGED <<status, seqNo, seen, local, has, faults, events>>

Lose(p) ==
  /\ p \in net
  /\ IF p.to \in Running THEN Fault("loss") ELSE faults' = faults \cup {"loss"}
  /\ net' = net \ {p}
  /\ UNCHANGED <<status, gossip, local, has, events>>

\* The callback's work on the detector: RecordHeartbeat revives a tracked
\* node, AddNode tracks it anew, RemoveNode forgets it.
Heartbeat(d, m) ==
  [d EXCEPT ![m.src] = CASE m.ev = "alive" -> "alive"
                         [] m.ev = "dead" -> "unknown"
                         [] OTHER -> IF @ = "unknown" THEN @ ELSE "alive"]

HasSeen(n, m) == m \in Entries(seen[n])

\* Mutant of HandleMessage: a node's own events go to the callback too.
HandleMessageOwn(n, m) ==
  /\ detector' = [detector EXCEPT ![n] = Heartbeat(@, m)]
  /\ handling' = [handling EXCEPT ![n] = m]
  /\ UNCHANGED buffer

\* A new message of another node enters the callback; one of the node's own,
\* come back after a restart, is only passed on.
HandleMessage(n, m) ==
  IF m.src = n
  THEN BufferForDissemination(n, m) /\ UNCHANGED <<detector, handling>>
  ELSE /\ detector' = [detector EXCEPT ![n] = Heartbeat(@, m)]
       /\ handling' = [handling EXCEPT ![n] = m]
       /\ UNCHANGED buffer

\* Mutant of Receive: a duplicate is passed on as well.
ReceiveRelaysAll(n, p) ==
  /\ n \in Running /\ handling[n] = None
  /\ p \in net /\ p.to = n
  /\ net' = net \ {p}
  /\ IF HasSeen(n, p.msg)
     THEN BufferForDissemination(n, p.msg) /\ UNCHANGED <<seen, faults, detector, handling>>
     ELSE MarkSeen(n, p.msg) /\ HandleMessage(n, p.msg)
  /\ UNCHANGED <<status, seqNo, ring, late, has, events>>

\* receiveLoop takes a packet.
Receive(n, p) ==
  /\ n \in Running /\ handling[n] = None
  /\ p \in net /\ p.to = n
  /\ net' = net \ {p}
  /\ IF HasSeen(n, p.msg)
     THEN UNCHANGED <<seen, faults, buffer, detector, handling>>
     ELSE MarkSeen(n, p.msg) /\ HandleMessage(n, p.msg)
  /\ UNCHANGED <<status, seqNo, ring, late, has, events>>

\* CreateCollectionRemote and DeleteCollectionRemote: by name, no error when
\* there is nothing to do, no broadcast.
Remote(n, m) == CASE m.ev = "create" -> has \cup {n}
                  [] m.ev = "drop" -> has \ {n}
                  [] OTHER -> has

\* Mutant of Finish: a received message is not passed on.
FinishSilent(n) ==
  /\ handling[n] # None
  /\ LET m == handling[n] IN
       /\ ring' = [ring EXCEPT ![n] = CASE m.ev = "alive" -> @ \cup {m.src}
                                        [] m.ev = "dead" -> @ \ {m.src}
                                        [] OTHER -> @]
       /\ has' = Remote(n, m)
  /\ handling' = [handling EXCEPT ![n] = None]
  /\ UNCHANGED <<status, gossip, net, detector, late, faults, events>>

\* Mutant of Finish: a Dead event leaves its node on the ring.
FinishKeepsRing(n) ==
  /\ handling[n] # None
  /\ LET m == handling[n] IN
       /\ ring' = IF m.ev = "alive" THEN [ring EXCEPT ![n] = @ \cup {m.src}] ELSE ring
       /\ has' = Remote(n, m)
       /\ BufferForDissemination(n, m)
  /\ handling' = [handling EXCEPT ![n] = None]
  /\ UNCHANGED <<status, seqNo, seen, net, detector, late, faults, events>>

\* The rest of the callback (the ring, or the collection by name), and the
\* message is buffered for the node's own peers.
Finish(n) ==
  /\ handling[n] # None
  /\ LET m == handling[n] IN
       /\ ring' = [ring EXCEPT ![n] = CASE m.ev = "alive" -> @ \cup {m.src}
                                        [] m.ev = "dead" -> @ \ {m.src}
                                        [] OTHER -> @]
       /\ has' = Remote(n, m)
       /\ BufferForDissemination(n, m)
  /\ handling' = [handling EXCEPT ![n] = None]
  /\ UNCHANGED <<status, seqNo, seen, net, detector, late, faults, events>>

\* A seen entry is past its TTL; at most one per run.
Expire(n) ==
  /\ seen[n] # <<>>
  /\ Fault("expiry")
  /\ seen' = [seen EXCEPT ![n] = Tail(@)]
  /\ UNCHANGED <<status, seqNo, buffer, net, local, has, events>>

-----------------------------------------------------------------------------
(* The failure detector.  Nothing but gossip counts as a heartbeat.        *)

\* checkAll finds that x was silent for too long, and starts a goroutine.
CheckAll(n, x) ==
  /\ n \in Running /\ detector[n][x] = "alive"
  /\ Fault("silent")
  /\ detector' = [detector EXCEPT ![n][x] = "dead"]
  /\ late' = [late EXCEPT ![n] = @ \cup {x}]
  /\ UNCHANGED <<status, gossip, net, ring, handling, has, events>>

\* OnNodeDead: TriggerOnNodeRemoval takes x off the ring.  The plans it
\* makes move nothing: main gives them an empty source.
OnNodeDead(n, x) ==
  /\ x \in late[n]
  /\ late' = [late EXCEPT ![n] = @ \ {x}]
  /\ ring' = [ring EXCEPT ![n] = @ \ {x}]
  /\ UNCHANGED <<status, gossip, net, detector, handling, has, faults, events>>

-----------------------------------------------------------------------------

\* All down, or a cluster that formed long ago: everyone knows everyone and
\* the seen entries have expired (counted as one event).
Init ==
  /\ \/ /\ status = [n \in Nodes |-> "down"]
        /\ seqNo = [n \in Nodes |-> 0]
        /\ detector = [n \in Nodes |-> Nobody]
        /\ ring = [n \in Nodes |-> {}]
        /\ events = 0
     \/ /\ status = [n \in Nodes |-> "up"]
        /\ seqNo = [n \in Nodes |-> 1]
        /\ detector = [n \in Nodes |-> [x \in Nodes |-> IF x = n THEN "unknown" ELSE "alive"]]
        /\ ring = [n \in Nodes |-> Nodes]
        /\ events = 1
  /\ seen = [n \in Nodes |-> <<>>]
  /\ buffer = [n \in Nodes |-> <<>>]
  /\ net = {}
  /\ late = [n \in Nodes |-> {}]
  /\ handling = [n \in Nodes |-> None]
  /\ has = {} /\ faults = {}

Next ==
  \/ \E n \in Nodes : \/ Start(n) \/ Leave(n) \/ Halt(n) \/ Create(n) \/ Drop(n)
                      \/ Disseminate(n) \/ Finish(n) \/ Expire(n)
                      \/ \E p \in net : Receive(n, p)
                      \/ \E x \in Nodes : OnNodeDead(n, x) \/ CheckAll(n, x)
  \/ \E p \in net : Lose(p)

Spec == Init /\ [][Next]_vars

\* The dissemination ticker fires, packets that are not lost arrive, the
\* receive loop goes on, and packets for a stopped process are dropped.
Fairness ==
  /\ \A n \in Nodes : /\ WF_vars(Disseminate(n)) /\ WF_vars(Finish(n))
                      /\ WF_vars(\E p \in net : Receive(n, p))
  /\ WF_vars(\E p \in net : p.to \notin Running /\ Lose(p))

FairSpec == Spec /\ Fairness

-----------------------------------------------------------------------------

TypeOK ==
  /\ status \in [Nodes -> {"down", "up", "leaving"}]
  /\ seqNo \in [Nodes -> 0..MaxEvents + 1]
  /\ seen \in [Nodes -> Seq(Message)] /\ \A n \in Nodes : Len(seen[n]) <= MaxSeen
  /\ buffer \in [Nodes -> Seq(Message)] /\ \A n \in Nodes : Len(buffer[n]) <= MaxBuffer
  /\ net \in SUBSET Packet
  /\ detector \in [Nodes -> [Nodes -> Health]]
  /\ ring \in [Nodes -> SUBSET Nodes]
  /\ late \in [Nodes -> SUBSET Nodes]
  /\ handling \in [Nodes -> Message \cup {None}]
  /\ has \in SUBSET Nodes
  /\ events \in 0..MaxEvents /\ faults \in SUBSET Kinds

\* Every node a request may be routed to has an address: a ring member other
\* than the node itself is tracked by the detector, whose entry holds it, except
\* while the Dead event of that member is being handled (gossipCb, GetAddress).
RingTracked ==
  \A n \in Nodes : \A x \in ring[n] \ {n} :
    \/ detector[n][x] # "unknown"
    \/ handling[n] # None /\ handling[n].src = x /\ handling[n].ev = "dead"

View == INSTANCE ClusterView WITH running <- Running

\* Each node's ring is a ClusterView: the node itself never leaves it, whatever
\* gossip brings back from its earlier runs and whatever the detector declares.
RefinesClusterView == View!ViewSpec

Quiet == net = {} /\ \A n \in Nodes : buffer[n] = <<>> /\ handling[n] = None

\* "Deduplication prevents infinite message loops": gossip about finitely many
\* events ends, even with losses, restarts and an expired entry,
\* unless the seen set overflowed (HandleMessage, receiveLoop).
LoopsEnd == <>[](Quiet \/ "evict" \in faults)

\* An Alive event reaches every node, over several hops where the seed lists
\* ask for it: once all nodes run, every ring becomes complete, unless a packet
\* is lost, a node leaves or another fault strikes (Broadcast, disseminate).
AliveReachesAll ==
  (Running = Nodes /\ faults \subseteq {"evict"})
    ~> \/ \A n \in Nodes : ring[n] = Nodes
       \/ faults \ {"evict"} # {} \/ \E n \in Nodes : status[n] = "leaving"

\* When gossip has come to rest without faults and nothing was ever dropped,
\* a collection created anywhere is everywhere (CreateCollectionRemote).
QuietAgree ==
  Quiet /\ Running = Nodes /\ faults = {}
    /\ (\A n \in Nodes : \A m \in Entries(seen[n]) : m.ev # "drop")
  => has \in {{}, Nodes}
=============================================================================
