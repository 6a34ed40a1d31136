------------------------------ MODULE Admission ------------------------------
(***************************************************************************)
(* AdmissionController for one key prefix: at most MaxPerPrefix requests   *)
(* are in flight, the others wait in a queue of one-place channels.        *)
(* Release hands the slot to the first waiter; a waiter whose context is   *)
(* done takes itself out, and returns the slot if it had just been given   *)
(* one.  Every step here is one critical section of ac.mu.                 *)
(***************************************************************************)
EXTENDS Integers, Sequences, FiniteSets

CONSTANTS Clients, MaxPerPrefix

ASSUME AdmissionAssumption == IsFiniteSet(Clients) /\ MaxPerPrefix \in Nat \ {0}

VARIABLES inFlight,  \* inFlight[prefix]
          queue,     \* waitQueues[prefix]: the clients whose channels wait
          granted,   \* the clients whose channel holds a slot they have not seen
          holding    \* the clients between Acquire and Release

admissionVars == <<inFlight, queue, granted, holding>>

AdmissionInit == inFlight = 0 /\ queue = <<>> /\ granted = {} /\ holding = {}

Queued(c) == \E i \in 1..Len(queue) : queue[i] = c
Outside(c) == c \notin holding \cup granted /\ ~Queued(c)

Acquire(c) ==
  /\ Outside(c)
  /\ IF inFlight < MaxPerPrefix
     THEN inFlight' = inFlight + 1 /\ holding' = holding \cup {c} /\ queue' = queue
     ELSE queue' = Append(queue, c) /\ UNCHANGED <<inFlight, holding>>
  /\ granted' = granted

\* The waiter sees the slot it was handed.
Woken(c) ==
  /\ c \in granted
  /\ granted' = granted \ {c} /\ holding' = holding \cup {c}
  /\ UNCHANGED <<inFlight, queue>>

\* The channel of c is cut out of the queue, if it is still there.
LeaveQueue(c) ==
  IF Queued(c)
  THEN \E i \in 1..Len(queue) :
         /\ queue[i] = c
         /\ queue' = SubSeq(queue, 1, i - 1) \o SubSeq(queue, i + 1, Len(queue))
  ELSE queue' = queue

\* Mutant of Cancel: the slot in the channel is not returned.
CancelLeaks(c) ==
  /\ c \in granted \/ Queued(c)
  /\ LeaveQueue(c)
  /\ granted' = granted \ {c}
  /\ UNCHANGED <<inFlight, holding>>

\* ctx.Done: leave the queue, and drain the channel.
Cancel(c) ==
  /\ c \in granted \/ Queued(c)
  /\ LeaveQueue(c)
  /\ inFlight' = IF c \in granted THEN inFlight - 1 ELSE inFlight
  /\ granted' = granted \ {c}
  /\ holding' = holding

Release(c) ==
  /\ c \in holding
  /\ holding' = holding \ {c}
  /\ IF queue # <<>>
     THEN queue' = Tail(queue) /\ granted' = granted \cup {Head(queue)} /\ inFlight' = inFlight
     ELSE inFlight' = inFlight - 1 /\ UNCHANGED <<queue, granted>>

\* Every slot counted is held, or on its way to exactly one waiter; none is
\* lost by a cancellation that races the hand-over, and no more than
\* MaxPerPrefix requests run (Acquire, Release).
SlotsAccounted ==
  /\ inFlight = Cardinality(holding) + Cardinality(granted)
  /\ inFlight \in 0..MaxPerPrefix
  /\ holding \cap granted = {}
  /\ \A i, j \in 1..Len(queue) : i # j => queue[i] # queue[j]
  /\ \A c \in holding \cup granted : ~Queued(c)
=============================================================================
