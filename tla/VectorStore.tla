---------------------------- MODULE VectorStore ----------------------------
(***************************************************************************)
(* What a collection promises its clients, independently of the log, the   *)
(* index and the restarts behind it: a durable map from vector ids to      *)
(* vectors.  One write is in progress at a time; it takes effect, or is    *)
(* refused, at one point, and a crash never undoes it.  A refused write is *)
(* answered with an error; an error for a delete does not mean that it was *)
(* refused.  A search between writes sees exactly the map.                 *)
(***************************************************************************)
CONSTANTS Ids,      \* vector ids
          Vecs,     \* vectors of the collection's dimension
          BadVecs,  \* vectors of another dimension
          None      \* no vector under this id

VARIABLES store,    \* the map: id -> vector or None
          pending,  \* the write that took effect and is not yet answered
          answer,   \* what the last answered write returned
          seen      \* the result of the last search

vars == <<store, pending, answer, seen>>

Idle == [kind |-> "none", id |-> None, ok |-> FALSE]

Init ==
  /\ store = [i \in Ids |-> None]
  /\ pending = Idle
  /\ answer = "none"
  /\ seen = {}

\* A new id gets the vector; an id that exists, or a vector of the wrong
\* dimension, is refused and changes nothing.
Insert(i, v) ==
  /\ pending = Idle
  /\ LET ok == store[i] = None /\ v \in Vecs
     IN /\ store' = [store EXCEPT ![i] = IF ok THEN v ELSE @]
        /\ pending' = [kind |-> "insert", id |-> i, ok |-> ok]
  /\ UNCHANGED <<answer, seen>>

Delete(i) ==
  /\ pending = Idle
  /\ store' = [store EXCEPT ![i] = None]
  /\ pending' = [kind |-> "delete", id |-> i, ok |-> store[i] # None]
  /\ UNCHANGED <<answer, seen>>

\* A write that never starts.
Refuse ==
  /\ pending = Idle
  /\ answer' = "error"
  /\ UNCHANGED <<store, pending, seen>>

\* "ok" only if the write took effect, and an error only if it did not or if
\* it is a delete.
Answer ==
  /\ pending # Idle
  /\ \/ pending.ok /\ answer' = "ok"
     \/ ~pending.ok /\ answer' = "error"
     \/ pending.kind = "delete" /\ answer' = "error"
  /\ pending' = Idle
  /\ UNCHANGED <<store, seen>>

Search ==
  /\ pending = Idle
  /\ seen' = {<<i, store[i]>> : i \in {j \in Ids : store[j] # None}}
  /\ UNCHANGED <<store, pending, answer>>

\* The process dies: the write in progress is never answered.
Crash ==
  /\ pending' = Idle
  /\ UNCHANGED <<store, answer, seen>>

Next ==
  \/ \E i \in Ids, v \in Vecs \cup BadVecs : Insert(i, v)
  \/ \E i \in Ids : Delete(i)
  \/ Refuse
  \/ Answer
  \/ Search
  \/ Crash

Spec == Init /\ [][Next]_vars
=============================================================================
