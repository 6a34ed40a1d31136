------------------------------ MODULE SegmentGC ------------------------------
(***************************************************************************)
(* The garbage collector of segment files: readers pin a segment while     *)
(* they read it, Mark queues a segment, and Sweep deletes the files of old *)
(* marked segments that nobody has pinned.  Pin looks its counter up under *)
(* the lock and increments it after, and Sweep runs without gc.mu between  *)
(* its first and its last line, so each of those is a step of its own.     *)
(***************************************************************************)
EXTENDS Integers, Sequences, FiniteSets, FiniteSetsExt, Functions

CONSTANTS Segments, Readers, MaxMarked, MaxCounters

ASSUME SegmentGCAssumption == IsFiniteSet(Readers) /\ MaxMarked \in Nat /\ MaxCounters \in Nat

VARIABLES file,      \* the segments whose file is there
          old,       \* the segments past MinAge
          pins,      \* pins[s]: the counter of s in the tracker's map, 0 for none
          count,     \* count[s]: the values of all counters made for s
          reader,    \* reader[r]: phase, segment and counter
          marked,    \* gc.marked
          sweep,     \* the running Sweep
          fenced,    \* history: readers that pinned before the sweep looked at their segment
          late       \* history: segments marked only while a sweep ran

gcVars == <<file, old, pins, count, reader, marked, sweep, fenced, late>>

NoSweep == [phase |-> "idle", pending |-> <<>>, next |-> 1, remaining |-> <<>>, collected |-> 0]
Resting == [phase |-> "idle"]
Sweeping == sweep.phase # "idle"
Scanned == sweep.next > Len(sweep.pending)
Current == sweep.pending[sweep.next]
InHand(s) == sweep.phase \in {"delete", "forget"} /\ Current = s

-----------------------------------------------------------------------------
(* Readers.                                                                *)

\* The counters made so far, which MaxCounters bounds.
Made == MapThenSumSet(LAMBDA t : Len(count[t]), Segments)

\* Pin's critical section: the counter of s, made if there is none.
PinLookup(r, s) ==
  /\ reader[r].phase = "idle"
  /\ pins[s] = 0 => Made < MaxCounters
  /\ count' = IF pins[s] = 0 THEN [count EXCEPT ![s] = Append(@, 0)] ELSE count
  /\ pins' = IF pins[s] = 0 THEN [pins EXCEPT ![s] = Len(count[s]) + 1] ELSE pins
  /\ reader' = [reader EXCEPT ![r] = [phase |-> "pinning", segment |-> s, counter |-> pins'[s]]]
  /\ UNCHANGED <<file, old, marked, sweep, fenced, late>>

\* counter.Add(1), after the unlock.
PinAdd(r) ==
  /\ reader[r].phase = "pinning"
  /\ LET s == reader[r].segment
     IN /\ count' = [count EXCEPT ![s][reader[r].counter] = @ + 1]
        /\ fenced' = IF s \in file /\ ~InHand(s) THEN fenced \cup {r} ELSE fenced
  /\ reader' = [reader EXCEPT ![r].phase = "reading"]
  /\ UNCHANGED <<file, old, pins, marked, sweep, late>>

\* The counter that the map holds by now, if any, goes down.
Unpin(r) ==
  /\ reader[r].phase = "reading"
  /\ LET s == reader[r].segment
     IN count' = IF pins[s] = 0 THEN count ELSE [count EXCEPT ![s][pins[s]] = @ - 1]
  /\ reader' = [reader EXCEPT ![r] = Resting]
  /\ fenced' = fenced \ {r}
  /\ UNCHANGED <<file, old, pins, marked, sweep, late>>

-----------------------------------------------------------------------------
(* The collector.                                                          *)

\* Phase 1.  A segment may be marked again, and is then as old as before: the
\* caller may give the time of the mark.
Mark(s) ==
  /\ Len(marked) < MaxMarked
  /\ marked' = Append(marked, s)
  /\ late' = IF Sweeping /\ s \notin Range(sweep.pending) THEN late \cup {s} ELSE late \ {s}
  /\ UNCHANGED <<file, old, pins, count, reader, sweep, fenced>>

\* Time passes.
Age(s) ==
  /\ s \in Range(marked) \ old
  /\ old' = old \cup {s}
  /\ UNCHANGED <<file, pins, count, reader, marked, sweep, fenced, late>>

SweepBegin ==
  /\ sweep.phase = "idle"
  /\ sweep' = [NoSweep EXCEPT !.phase = "age", !.pending = marked]
  /\ UNCHANGED <<file, old, pins, count, reader, marked, fenced, late>>

Keep == [sweep EXCEPT !.phase = "age", !.next = @ + 1, !.remaining = Append(@, Current)]

SweepAge ==
  /\ sweep.phase = "age" /\ ~Scanned
  /\ sweep' = IF Current \in old THEN [sweep EXCEPT !.phase = "pins"] ELSE Keep
  /\ UNCHANGED <<file, old, pins, count, reader, marked, fenced, late>>

\* Mutant of PinCount: one too few.
PinCountLow(s) == IF pins[s] = 0 THEN 0 ELSE count[s][pins[s]] - 1

PinCount(s) == IF pins[s] = 0 THEN 0 ELSE count[s][pins[s]]

\* Phase 2: the fence.
SweepPins ==
  /\ sweep.phase = "pins"
  /\ sweep' = IF PinCount(Current) > 0 THEN Keep ELSE [sweep EXCEPT !.phase = "delete"]
  /\ UNCHANGED <<file, old, pins, count, reader, marked, fenced, late>>

\* Phase 3: os.Remove, where a file that is not there is no error.
SweepDelete ==
  /\ sweep.phase = "delete"
  /\ \/ file' = file \ {Current} /\ sweep' = [sweep EXCEPT !.phase = "forget"]
     \/ Current \in file /\ file' = file /\ sweep' = Keep
  /\ UNCHANGED <<old, pins, count, reader, marked, fenced, late>>

\* pins.Remove.
SweepForget ==
  /\ sweep.phase = "forget"
  /\ pins' = [pins EXCEPT ![Current] = 0]
  /\ sweep' = [sweep EXCEPT !.phase = "age", !.next = @ + 1, !.collected = @ + 1]
  /\ UNCHANGED <<file, old, count, reader, marked, fenced, late>>

\* Mutant of SweepCancel: what the sweep kept is not put back.
SweepCancelDrops ==
  /\ sweep.phase = "age" /\ ~Scanned
  /\ marked' = SubSeq(sweep.pending, sweep.collected + 1, Len(sweep.pending))
  /\ sweep' = NoSweep
  /\ UNCHANGED <<file, old, pins, count, reader, fenced, late>>

\* ctx.Done: the list becomes what was kept and the pending ones from the
\* number collected on.
SweepCancel ==
  /\ sweep.phase = "age" /\ ~Scanned
  /\ Len(sweep.remaining) + Len(sweep.pending) - sweep.collected <= MaxMarked
  /\ marked' = sweep.remaining \o SubSeq(sweep.pending, sweep.collected + 1, Len(sweep.pending))
  /\ sweep' = NoSweep
  /\ UNCHANGED <<file, old, pins, count, reader, fenced, late>>

SweepEnd ==
  /\ sweep.phase = "age" /\ Scanned
  /\ marked' = sweep.remaining
  /\ sweep' = NoSweep
  /\ UNCHANGED <<file, old, pins, count, reader, fenced, late>>

-----------------------------------------------------------------------------

GCInit ==
  /\ file = Segments /\ old = {}
  /\ pins = [s \in Segments |-> 0] /\ count = [s \in Segments |-> <<>>]
  /\ reader = [r \in Readers |-> Resting]
  /\ marked = <<>> /\ sweep = NoSweep /\ fenced = {} /\ late = {}

GCNext ==
  \/ \E r \in Readers : PinAdd(r) \/ Unpin(r) \/ \E s \in Segments : PinLookup(r, s)
  \/ \E s \in Segments : Mark(s) \/ Age(s)
  \/ SweepBegin \/ SweepAge \/ SweepPins \/ SweepDelete \/ SweepForget \/ SweepCancel \/ SweepEnd

GCSpec == GCInit /\ [][GCNext]_gcVars

-----------------------------------------------------------------------------

\* "The fence phase prevents use-after-free on segment files": a reader whose
\* pin was complete before the sweep looked at its segment's counter has the
\* file until it unpins, across earlier sweeps, cancelled sweeps, failed
\* deletes and other readers' unpins (Pin, Unpin, Sweep).
FenceHolds ==
  \A r \in Readers : r \in fenced => reader[r].segment \in file

\* Between sweeps a segment that was marked outside of one and whose file is
\* still there is on the list, whatever was young, pinned, failed to be
\* deleted or was cut short by a cancellation (Sweep).
StillMarked ==
  ~Sweeping => \A s \in (file \cap old) \ late : s \in Range(marked)
=============================================================================
