----------------------------- MODULE Replication -----------------------------
(***************************************************************************)
(* Writes and reads with a consistency level, by two clients.  "router":   *)
(* Router.WriteWithConsistency and ReadWithConsistency send to all nodes   *)
(* of the ring in parallel, through the scoped handlers and with an empty  *)
(* tenant.  "peer": ReplicaClient's CollectInsertAcks and                  *)
(* CollectSearchResults go through the replicas one by one, through the    *)
(* replicate handlers.  Both stop when enough nodes have answered; a call  *)
(* that is cancelled or times out may still be carried out.                *)
(*                                                                         *)
(* No handler calls either client.  A level stands for the number          *)
(* ResolveConsistency gives.  Each write inserts a vector of its own; the  *)
(* nodes' stores are external.                                             *)
(***************************************************************************)
EXTENDS Integers, Sequences, FiniteSets

CONSTANTS Nodes, Writes, Reads, None

Ops == Writes \cup Reads
Levels == {"one", "quorum", "all"}
Calls == {"idle", "ready", "sent", "answered", "done"}
Clients == {"router", "peer"}
Op == [client : Clients, nodes : (SUBSET Nodes) \ {{}}, level : Levels]

ASSUME ReplicationAssumption ==
  IsFiniteSet(Nodes) /\ Nodes # {} /\ Writes \cap Reads = {} /\ None \notin Op

VARIABLES op,       \* op[o]: how o was started, or None
          call,     \* call[o][n]: the progress of o's call of n
          acks,     \* acks[o]: answers without error
          answers,  \* history: answers[o]: the vectors in the answers that counted for read o
          results,  \* results[o]: what read o has collected from them
          lost,     \* history: lost[o]: nodes whose call by o failed on the way
          got,      \* got[o][n]: the answer n has given to o and not yet delivered
          result,   \* result[o]: "none", "ok" or "error"
          orphans,  \* calls given up by the client and still on their way
          stored,   \* stored[n]: the vectors on node n
          known,    \* history: known[r]: writes acknowledged before read r began
          removed   \* history: writes whose vector was deleted on some node

vars == <<op, call, acks, answers, results, lost, got, result, orphans, stored, known, removed>>

\* Mutant of ResolveConsistency: a quorum is half of the nodes.
ResolveConsistencyHalf(level, rf) ==
  CASE level = "one" -> 1
    [] level = "quorum" -> IF rf < 2 THEN 1 ELSE rf \div 2
    [] level = "all" -> rf

ResolveConsistency(level, rf) ==
  CASE level = "one" -> 1
    [] level = "quorum" -> rf \div 2 + 1
    [] level = "all" -> rf

-----------------------------------------------------------------------------

\* The nodes are those of the ring at this moment, or the replicas without
\* the node that is skipped.
Begin(o, client, N, level) ==
  /\ op[o] = None
  /\ op' = [op EXCEPT ![o] = [client |-> client, nodes |-> N, level |-> level]]
  /\ call' = [call EXCEPT ![o] = [n \in Nodes |-> IF n \in N THEN "ready" ELSE "idle"]]
  /\ known' = IF o \in Reads THEN [known EXCEPT ![o] = {w \in Writes : result[w] = "ok"}] ELSE known
  /\ UNCHANGED <<acks, answers, results, lost, got, result, orphans, stored, removed>>

Required(o) == ResolveConsistency(op[o].level, Cardinality(op[o].nodes))
Enough(o) == acks[o] >= Required(o)
Active(o) == op[o] # None /\ result[o] = "none"

\* A call on its way may store a vector.
Lands(o) == o \in Writes /\ op[o].client = "peer"

\* A call starts unless enough nodes have answered; a peer client makes one
\* call at a time.
Send(o, n) ==
  /\ Active(o) /\ call[o][n] = "ready" /\ ~Enough(o)
  /\ op[o].client = "peer" => \A m \in Nodes : call[o][m] \notin {"sent", "answered"}
  /\ call' = [call EXCEPT ![o][n] = "sent"]
  /\ UNCHANGED <<op, acks, answers, results, lost, got, result, orphans, stored, known, removed>>

\* No address, or no connection: the call ends with an error.
Unreachable(o, n) ==
  /\ Active(o) /\ call[o][n] = "ready" /\ ~Enough(o)
  /\ call' = [call EXCEPT ![o][n] = "done"]
  /\ lost' = [lost EXCEPT ![o] = @ \cup {n}]
  /\ UNCHANGED <<op, acks, answers, results, got, result, orphans, stored, known, removed>>

\* Enough answers: a call that has not started does not.
Skip(o, n) ==
  /\ Active(o) /\ call[o][n] = "ready" /\ Enough(o)
  /\ call' = [call EXCEPT ![o][n] = "done"]
  /\ UNCHANGED <<op, acks, answers, results, lost, got, result, orphans, stored, known, removed>>

\* The scoped handlers know no tenant with an empty name: 404, before the
\* insert is split or the search made.
Refuse(o, n) ==
  /\ call[o][n] = "sent" /\ op[o].client = "router"
  /\ call' = [call EXCEPT ![o][n] = "done"]
  /\ UNCHANGED <<op, acks, answers, results, lost, got, result, orphans, stored, known, removed>>

\* ReplicateInsert and ReplicateSearch: the node carries out the insert or the
\* search on its own store.
Serve(o, n) ==
  /\ call[o][n] = "sent" /\ op[o].client = "peer"
  /\ call' = [call EXCEPT ![o][n] = "answered"]
  /\ stored' = IF o \in Writes THEN [stored EXCEPT ![n] = @ \cup {o}] ELSE stored
  /\ got' = IF o \in Reads THEN [got EXCEPT ![o][n] = stored[n]] ELSE got
  /\ UNCHANGED <<op, acks, answers, results, lost, result, orphans, known, removed>>

\* ReplicateSearch puts the vectors under "data"; ReplicaClient.Search decodes
\* "results", finds none and reports no error.
Decoded(o, S) == IF op[o].client = "peer" THEN {} ELSE S

\* Mutant of Answer: every answer counts towards the other operations too.
AnswerShared(o, n) ==
  /\ call[o][n] = "answered"
  /\ call' = [call EXCEPT ![o][n] = "done"]
  /\ acks' = [p \in Ops |-> acks[p] + 1]
  /\ answers' = IF o \in Reads THEN [answers EXCEPT ![o] = @ \cup got[o][n]] ELSE answers
  /\ results' = IF o \in Reads THEN [results EXCEPT ![o] = @ \cup Decoded(o, got[o][n])] ELSE results
  /\ got' = [got EXCEPT ![o][n] = {}]
  /\ UNCHANGED <<op, lost, result, orphans, stored, known, removed>>

\* The answer arrives: it counts, even when it comes after enough others.
Answer(o, n) ==
  /\ call[o][n] = "answered"
  /\ call' = [call EXCEPT ![o][n] = "done"]
  /\ acks' = [acks EXCEPT ![o] = @ + 1]
  /\ answers' = IF o \in Reads THEN [answers EXCEPT ![o] = @ \cup got[o][n]] ELSE answers
  /\ results' = IF o \in Reads THEN [results EXCEPT ![o] = @ \cup Decoded(o, got[o][n])] ELSE results
  /\ got' = [got EXCEPT ![o][n] = {}]
  /\ UNCHANGED <<op, lost, result, orphans, stored, known, removed>>

\* Mutant of GiveUp: a call that was given up counts as an answer.
GiveUpCounted(o, n) ==
  /\ call[o][n] \in {"sent", "answered"}
  /\ call' = [call EXCEPT ![o][n] = "done"]
  /\ acks' = [acks EXCEPT ![o] = @ + 1]
  /\ orphans' = IF call[o][n] = "sent" /\ Lands(o) THEN orphans \cup {<<o, n>>} ELSE orphans
  /\ UNCHANGED <<op, answers, results, lost, got, result, stored, known, removed>>

\* The call fails on the way or on the node, times out, or is cancelled: no
\* answer arrives.
GiveUp(o, n) ==
  /\ call[o][n] \in {"sent", "answered"}
  /\ call' = [call EXCEPT ![o][n] = "done"]
  /\ lost' = [lost EXCEPT ![o] = @ \cup {n}]
  /\ orphans' = IF call[o][n] = "sent" /\ Lands(o) THEN orphans \cup {<<o, n>>} ELSE orphans
  /\ got' = [got EXCEPT ![o][n] = {}]
  /\ UNCHANGED <<op, acks, answers, results, result, stored, known, removed>>

\* An insert that was given up reaches its node, or never does.
Orphan(o, n) ==
  /\ <<o, n>> \in orphans
  /\ orphans' = orphans \ {<<o, n>>}
  /\ stored' \in {stored, [stored EXCEPT ![n] = @ \cup {o}]}
  /\ UNCHANGED <<op, call, acks, answers, results, lost, got, result, known, removed>>

\* ReplicaClient.Delete and ReplicateDelete: one node is told to delete the
\* vector of w; one that does not have it answers 404.
Remove(w, n) ==
  /\ w \in stored[n]
  /\ stored' = [stored EXCEPT ![n] = @ \ {w}]
  /\ removed' = removed \cup {w}
  /\ UNCHANGED <<op, call, acks, answers, results, lost, got, result, orphans, known>>

\* wg.Wait, and the result.
Return(o) ==
  /\ Active(o)
  /\ \A n \in Nodes : call[o][n] \in {"idle", "done"}
  /\ result' = [result EXCEPT ![o] = IF Enough(o) THEN "ok" ELSE "error"]
  /\ UNCHANGED <<op, call, acks, answers, results, lost, got, orphans, stored, known, removed>>

-----------------------------------------------------------------------------

Init ==
  /\ op = [o \in Ops |-> None]
  /\ call = [o \in Ops |-> [n \in Nodes |-> "idle"]]
  /\ acks = [o \in Ops |-> 0]
  /\ answers = [o \in Ops |-> {}] /\ results = [o \in Ops |-> {}]
  /\ lost = [o \in Ops |-> {}]
  /\ got = [o \in Ops |-> [n \in Nodes |-> {}]]
  /\ result = [o \in Ops |-> "none"]
  /\ orphans = {} /\ stored = [n \in Nodes |-> {}]
  /\ known = [o \in Ops |-> {}] /\ removed = {}

Next ==
  \E o \in Ops :
    \/ \E client \in Clients, N \in (SUBSET Nodes) \ {{}}, level \in Levels : Begin(o, client, N, level)
    \/ \E n \in Nodes :
         \/ Send(o, n) \/ Unreachable(o, n) \/ Skip(o, n)
         \/ Refuse(o, n) \/ Serve(o, n) \/ Answer(o, n) \/ GiveUp(o, n) \/ Orphan(o, n)
         \/ o \in Writes /\ Remove(o, n)
    \/ Return(o)

Spec == Init /\ [][Next]_vars

-----------------------------------------------------------------------------

TypeOK ==
  /\ op \in [Ops -> Op \cup {None}]
  /\ call \in [Ops -> [Nodes -> Calls]]
  /\ \A o \in Ops : acks[o] \in 0..Cardinality(Nodes)
  /\ answers \in [Ops -> SUBSET Writes] /\ results \in [Ops -> SUBSET Writes]
  /\ lost \in [Ops -> SUBSET Nodes]
  /\ got \in [Ops -> [Nodes -> SUBSET Writes]]
  /\ result \in [Ops -> {"none", "ok", "error"}]
  /\ orphans \in SUBSET (Writes \X Nodes)
  /\ stored \in [Nodes -> SUBSET Writes]
  /\ known \in [Ops -> SUBSET Writes] /\ removed \in SUBSET Writes

Holders(w) == {n \in op[w].nodes : w \in stored[n]}

\* A write that returned without error is on at least as many of the nodes it
\* was sent to as its level requires, whatever was skipped, cancelled or given
\* up, until its vector is deleted somewhere.  Only CollectInsertAcks can return
\* without error.
AckedOnRequired ==
  \A w \in Writes \ removed : result[w] = "ok" => Cardinality(Holders(w)) >= Required(w)

\* Quorums meet: the answers that made a read succeed contain every write
\* acknowledged before it began and not deleted, if both went to the same nodes
\* and both asked for at least a quorum, or one of them for all
\* (CollectInsertAcks, CollectSearchResults).  It is about what the nodes send,
\* not about what the caller is given.
QuorumsMeet ==
  \A r \in Reads : result[r] = "ok" =>
    \A w \in known[r] \ removed :
      /\ op[w].nodes = op[r].nodes
      /\ "one" \notin {op[w].level, op[r].level} \/ "all" \in {op[w].level, op[r].level}
      => w \in answers[r]

\* A read "Returns all results from responding replicas" (replica_client.go:171).
ReturnsAllResults ==
  \A r \in Reads : result[r] = "ok" => results[r] = answers[r]

\* "Return success if enough acks received, error otherwise" (replica.go:21): an
\* operation fails only when too many of its calls were lost on the way.
FailsOnlyOnLoss ==
  \A o \in Ops : result[o] = "error" => Cardinality(op[o].nodes \ lost[o]) < Required(o)
=============================================================================
