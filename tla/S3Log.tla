-------------------------------- MODULE S3Log --------------------------------
(***************************************************************************)
(* S3WAL over an AdmittedStore: the fragments and the manifest of one log  *)
(* in an object store, one process that appends, reads and advances the    *)
(* cursor, store calls that fail before or after they took effect, waiters *)
(* of admission that give up, and crashes.  A call takes effect, if at     *)
(* all, before it is answered: a Put that lands after its error was        *)
(* returned is not modelled.                                               *)
(*                                                                         *)
(* w.mu is held by an Append or an AdvanceCursor from its start to its     *)
(* end; ReadSince only copies the fragment list under it.  The manifest's  *)
(* ETag is never set, so writeManifest always takes its plain Put and the  *)
(* conditional one is not reached.  The keys of a log share one prefix.    *)
(***************************************************************************)
EXTENDS Admission, FiniteSetsExt

CONSTANTS Readers, Writer, MaxSeq, MaxAppends, MaxCrashes, None

Seqs == 1..MaxSeq
Fragments == [first : Seqs, last : Seqs]
Manifests == [fragments : SUBSET Fragments, head : 0..MaxSeq, cursor : 0..MaxSeq]

ASSUME S3LogAssumption ==
  /\ Clients = Readers \cup {Writer} /\ Writer \notin Readers
  /\ MaxSeq \in Nat \ {0} /\ MaxAppends \in Nat /\ MaxCrashes \in Nat
  /\ None \notin Seq(Nat) \cup Manifests

VARIABLES manifest,  \* the manifest in memory, None when there is no log open
          stored,    \* the manifest in the store, or None
          objects,   \* objects[s]: the records of the fragment that starts at s, or None
          job,       \* what the holder of w.mu is doing
          reader,    \* reader[r]: the progress of a ReadSince
          appends,   \* appends begun, which also names the records
          crashes,
          acked,     \* history: acked[s]: the record acknowledged at s, or None
          consumed,  \* history: the highest cursor asked for
          truncated  \* history: a log was begun anew over records not consumed

history == <<acked, consumed, truncated>>
vars == <<admissionVars, manifest, stored, objects, job, reader, appends, crashes, history>>

Idle == [kind |-> "idle"]
Creating == [kind |-> "create"]
Resting == [phase |-> "idle", after |-> 0, todo |-> {}, got |-> {}, due |-> {}]
EmptyManifest == [fragments |-> {}, head |-> 0, cursor |-> 0]

-----------------------------------------------------------------------------
(* Calls of the log.                                                       *)

\* NewS3WAL finds the manifest and loads it.
Open ==
  /\ manifest = None /\ job = Idle /\ stored # None
  /\ manifest' = stored
  /\ UNCHANGED <<admissionVars, stored, objects, job, reader, appends, crashes, history>>

\* NewS3WAL begins a log: the Get failed with a text that has "not found",
\* "nosuchkey" or "404" in it.  An object that is missing is answered so, and
\* so may be an error about something else (a host, a bucket, a gateway)
\* while the manifest is there.  Any other error returns no log.
OpenMissing ==
  /\ manifest = None /\ job = Idle
  /\ job' = Creating
  /\ UNCHANGED <<admissionVars, manifest, stored, objects, reader, appends, crashes, history>>

Ready == manifest # None /\ job = Idle

BeginAppend(n) ==
  /\ Ready /\ appends < MaxAppends
  /\ manifest.head + n <= MaxSeq
  /\ appends' = appends + 1
  /\ job' = [kind |-> "fragment", batch |-> [i \in 1..n |-> appends + 1]]
  /\ UNCHANGED <<admissionVars, manifest, stored, objects, reader, crashes, history>>

Below(f, cursor) == f.last < cursor

\* AdvanceCursor: the fragments below the cursor are deleted, then the
\* manifest is written.
BeginAdvance(cursor) ==
  /\ Ready /\ cursor > manifest.cursor
  /\ manifest' = [manifest EXCEPT !.cursor = cursor,
                    !.fragments = {f \in @ : ~Below(f, cursor)}]
  /\ job' = [kind |-> "delete", todo |-> {f \in manifest.fragments : Below(f, cursor)}]
  /\ consumed' = Max({consumed, cursor})
  /\ UNCHANGED <<admissionVars, stored, objects, reader, appends, crashes, acked, truncated>>

\* Every old fragment has been deleted or has failed to be.
DeletesDone ==
  /\ job.kind = "delete" /\ job.todo = {}
  /\ job' = [kind |-> "manifest", batch |-> <<>>]
  /\ UNCHANGED <<admissionVars, manifest, stored, objects, reader, appends, crashes, history>>

Acked == {s \in Seqs : acked[s] # None}

\* ReadSince copies the fragments that reach beyond after.
BeginRead(r, after) ==
  /\ Ready /\ reader[r].phase # "reading"
  /\ reader' = [reader EXCEPT ![r] =
       [phase |-> "reading", after |-> after,
        todo |-> {f \in manifest.fragments : f.last > after},
        got |-> {}, due |-> {s \in Acked : s > after /\ s >= manifest.cursor}]]
  /\ UNCHANGED <<admissionVars, manifest, stored, objects, job, appends, crashes, history>>

EndRead(r) ==
  /\ reader[r].phase = "reading" /\ reader[r].todo = {}
  /\ reader' = [reader EXCEPT ![r].phase = "done"]
  /\ UNCHANGED <<admissionVars, manifest, stored, objects, job, appends, crashes, history>>

-----------------------------------------------------------------------------
(* The store calls they make.                                              *)

\* The fragment lists are in the order of their sequence ids.
Oldest(fs) == CHOOSE f \in fs : \A g \in fs : f.first <= g.first

Calls(c) ==
  IF c = Writer THEN \/ job.kind \in {"create", "fragment", "manifest"}
                     \/ job.kind = "delete" /\ job.todo # {}
                ELSE reader[c].phase = "reading" /\ reader[c].todo # {}

\* Put of the empty manifest, over whatever is stored; without it NewS3WAL
\* returns an error and no log.  The histories begin anew with the log.
PutFirst(applied, ok) ==
  /\ job.kind = "create"
  /\ stored' = IF applied THEN EmptyManifest ELSE stored
  /\ manifest' = IF ok THEN EmptyManifest ELSE None
  /\ job' = Idle
  /\ acked' = IF applied THEN [s \in Seqs |-> None] ELSE acked
  /\ consumed' = IF applied THEN 0 ELSE consumed
  /\ truncated' = (truncated \/ (applied /\ \E s \in Acked : s >= consumed))
  /\ UNCHANGED objects

\* Put of the fragment; then it joins the manifest in memory.
PutFragment(applied, ok) ==
  LET start == manifest.head + 1
      last == manifest.head + Len(job.batch)
  IN /\ job.kind = "fragment"
     /\ objects' = IF applied THEN [objects EXCEPT ![start] = job.batch] ELSE objects
     /\ manifest' = IF ok THEN [manifest EXCEPT !.head = last,
                                  !.fragments = @ \cup {[first |-> start, last |-> last]}]
                          ELSE manifest
     /\ job' = IF ok THEN [kind |-> "manifest", batch |-> job.batch] ELSE Idle
     /\ UNCHANGED <<stored, history>>

\* Mutant of PutManifest: a failed write is acknowledged.
PutManifestQuiet(applied, ok) ==
  /\ job.kind = "manifest"
  /\ stored' = IF applied THEN manifest ELSE stored
  /\ acked' = LET first == manifest.head - Len(job.batch) + 1
              IN [s \in Seqs |-> IF s \in first..manifest.head
                                 THEN job.batch[s - first + 1] ELSE acked[s]]
  /\ job' = Idle
  /\ UNCHANGED <<manifest, objects, consumed, truncated>>

\* writeManifest; the records of an Append are acknowledged when it succeeds.
PutManifest(applied, ok) ==
  /\ job.kind = "manifest"
  /\ stored' = IF applied THEN manifest ELSE stored
  /\ acked' = LET first == manifest.head - Len(job.batch) + 1
              IN [s \in Seqs |-> IF ok /\ s \in first..manifest.head
                                 THEN job.batch[s - first + 1] ELSE acked[s]]
  /\ job' = Idle
  /\ UNCHANGED <<manifest, objects, consumed, truncated>>

\* A failed delete is logged and passed over.
DeleteFragment(applied) ==
  /\ job.kind = "delete"
  /\ objects' = IF applied THEN [objects EXCEPT ![Oldest(job.todo).first] = None] ELSE objects
  /\ job' = [job EXCEPT !.todo = @ \ {Oldest(job.todo)}]
  /\ UNCHANGED <<manifest, stored, history>>

WriterCall(applied, ok) ==
  \/ PutFirst(applied, ok) \/ PutFragment(applied, ok)
  \/ PutManifest(applied, ok) \/ DeleteFragment(applied)

Records(f, after) ==
  {[seq |-> s, rec |-> objects[f.first][s - f.first + 1]] :
      s \in {t \in f.first..(f.first + Len(objects[f.first]) - 1) : t > after}}

\* Mutant of ReaderCall: a fragment that is not there is skipped.
ReaderCallSkips(r, ok) ==
  LET f == Oldest(reader[r].todo)
  IN /\ reader' = IF ok
                  THEN [reader EXCEPT ![r].todo = @ \ {f},
                          ![r].got = IF objects[f.first] = None THEN @
                                     ELSE @ \cup Records(f, reader[r].after)]
                  ELSE [reader EXCEPT ![r] = Resting]
     /\ UNCHANGED <<manifest, stored, objects, job, history>>

\* Get of the next fragment: its records, or an error that ends the read.
ReaderCall(r, ok) ==
  LET f == Oldest(reader[r].todo)
  IN /\ reader' = IF ok /\ objects[f.first] # None
                  THEN [reader EXCEPT ![r].todo = @ \ {f},
                          ![r].got = @ \cup Records(f, reader[r].after)]
                  ELSE [reader EXCEPT ![r] = Resting]
     /\ UNCHANGED <<manifest, stored, objects, job, history>>

\* One call of the store, with what came of it.
Call(c, applied, ok) ==
  /\ Calls(c) /\ (ok => applied)
  /\ IF c = Writer THEN WriterCall(applied, ok) /\ UNCHANGED reader ELSE ReaderCall(c, ok)
  /\ UNCHANGED <<appends, crashes>>

AskStore(c) ==
  /\ Calls(c) /\ Acquire(c)
  /\ UNCHANGED <<manifest, stored, objects, job, reader, appends, crashes, history>>

SeeSlot(c) ==
  /\ Woken(c)
  /\ UNCHANGED <<manifest, stored, objects, job, reader, appends, crashes, history>>

\* The inner call and the deferred Release.
UseStore(c) ==
  /\ \E applied, ok \in BOOLEAN : Call(c, applied, ok)
  /\ Release(c)

\* The context ends while c waits: its call fails without reaching the store.
GiveUpWaiting(c) == Call(c, FALSE, FALSE) /\ Cancel(c)

Crash ==
  /\ manifest # None \/ job = Creating
  /\ crashes < MaxCrashes
  /\ crashes' = crashes + 1
  /\ manifest' = None /\ job' = Idle /\ reader' = [r \in Readers |-> Resting]
  /\ inFlight' = 0 /\ queue' = <<>> /\ granted' = {} /\ holding' = {}
  /\ UNCHANGED <<stored, objects, appends, history>>

-----------------------------------------------------------------------------

Init ==
  /\ AdmissionInit
  /\ manifest = None /\ stored = None
  /\ objects = [s \in Seqs |-> None]
  /\ job = Idle /\ reader = [r \in Readers |-> Resting]
  /\ appends = 0 /\ crashes = 0
  /\ acked = [s \in Seqs |-> None] /\ consumed = 0 /\ truncated = FALSE

Next ==
  \/ Open \/ OpenMissing \/ Crash \/ DeletesDone
  \/ \E n \in 1..2 : BeginAppend(n)
  \/ \E s \in Seqs : BeginAdvance(s)
  \/ \E r \in Readers : EndRead(r) \/ \E after \in 0..MaxSeq : BeginRead(r, after)
  \/ \E c \in Clients : AskStore(c) \/ SeeSlot(c) \/ UseStore(c) \/ GiveUpWaiting(c)

Spec == Init /\ [][Next]_vars

-----------------------------------------------------------------------------

Holds(f, s) == s \in f.first..f.last

\* A record acknowledged by Append since the log was last begun (by a missing
\* manifest, or one that was taken for missing) survives every later crash and
\* failed call of Append, AdvanceCursor and ReadSince until the cursor is asked
\* past it: the manifest in the store lists its fragment, and the fragment
\* still holds that very record, although a log begun anew writes over the
\* fragments of the one before (Append, AdvanceCursor, writeManifest).
AckedRecoverable ==
  \A s \in Acked : s >= consumed =>
    \E f \in stored.fragments :
      /\ Holds(f, s)
      /\ objects[f.first] # None
      /\ objects[f.first][s - f.first + 1] = acked[s]

\* A read that ends without error has every record that was acknowledged and
\* not yet consumed when it copied the fragment list, with its content, even
\* when appends and the cursor move on while it fetches (ReadSince).
ReadsComplete ==
  \A r \in Readers : reader[r].phase = "done" =>
    \A s \in reader[r].due :
      {x \in reader[r].got : x.seq = s} = {[seq |-> s, rec |-> acked[s]]}

\* What loadOrCreateManifest says its test of the error is for: the manifest
\* is not truncated, so that no log is begun anew over one whose acknowledged
\* records are still to be consumed.
NeverTruncated == ~truncated
=============================================================================
