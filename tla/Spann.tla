-------------------------------- MODULE Spann --------------------------------
(***************************************************************************)
(* SPANNIndex: posting lists in a memory-mapped file, an HNSW index of     *)
(* their centroids, and a buffer for what was inserted since the last      *)
(* Rebuild.  Every operation holds the index's lock and is one step; the   *)
(* centroid index has a background applier of its own, which runs between  *)
(* them.                                                                   *)
(*                                                                         *)
(* Rebuild rewrites the file in place: the old mapping is closed first, so *)
(* an error leaves the index with a store whose memory is gone, and a full *)
(* disk goes unnoticed, because WritePostings ignores what f.Write says.   *)
(* Distances are abstracted: K-Means assigns a vector to any centroid, and *)
(* the order within the buffer and within a list is left out.              *)
(***************************************************************************)
EXTENDS VectorIndex, Integers, FiniteSets, FiniteSetsExt

CONSTANTS Vectors, NumCents, MaxInserts

ASSUME SpannAssumption ==
  NumCents \in Nat \ {0} /\ MaxInserts \in Nat /\ None \notin Vectors \cup 0..NumCents

VARIABLES dirtyBuf,     \* postings inserted since the last Rebuild
          store,        \* "none", "open", "unmapped" (by a failed Rebuild) or "closed"
          lists,        \* the posting lists of the file
          idToCentroid, \* None, Buffered, or the number of a posting list
          deleted,      \* the soft-deleted ids
          nav,          \* the centroid HNSW: numbers buffered, in flight and in the graph
          diskFull,     \* writes to the file are dropped
          given,        \* history: the vector each id was last given, None once deleted
          dropped,      \* history: the posting lists were written to a full disk
          inserts       \* inserts so far

spannVars == <<dirtyBuf, store, lists, idToCentroid, deleted, built, nav, diskFull,
               given, dropped, inserts>>

Buffered == 0
Cents == 1..NumCents
Posting == [id : Ids, vector : Vectors]
NoLists == [c \in Cents |-> {}]

IdsIn(ps) == {p.id : p \in ps}
Stored == UNION {lists[c] : c \in Cents}
Live(ps) == {p \in ps : p.id \notin deleted}
Known(x) == idToCentroid[x] # None \/ x \in IdsIn(dirtyBuf)

-----------------------------------------------------------------------------

\* A known id is refused, a soft-deleted one too; the vector goes to the buffer.
SpannInsert(x, v) ==
  /\ store # "closed" /\ inserts < MaxInserts
  /\ ~Known(x)
  /\ dirtyBuf' = dirtyBuf \cup {[id |-> x, vector |-> v]}
  /\ idToCentroid' = IF built THEN [idToCentroid EXCEPT ![x] = Buffered] ELSE idToCentroid
  /\ given' = [given EXCEPT ![x] = v]
  /\ inserts' = inserts + 1
  /\ UNCHANGED <<store, lists, deleted, built, nav, diskFull, dropped>>

\* A soft delete; repeating it is no error.
SpannDelete(x) ==
  /\ store # "closed"
  /\ Known(x)
  /\ deleted' = deleted \cup {x}
  /\ given' = [given EXCEPT ![x] = None]
  /\ UNCHANGED <<dirtyBuf, store, lists, idToCentroid, built, nav, diskFull, dropped, inserts>>

\* The centroids the centroid index can answer with.  A search of an HNSW graph
\* may reach less than it holds (HnswCollection); here it is taken to reach all.
Visible == nav.buffer \cup nav.graph

BruteForceSearch == Live(dirtyBuf)

\* Mutant of SpannSearch: an index that is built reads its posting lists only.
SearchListsOnly(P) == IF ~built THEN BruteForceSearch ELSE Live(UNION {lists[c] : c \in P})

\* A search that probes P, before the cut to k; the buffer alone until the
\* index is built.
SpannSearch(P) ==
  IF ~built THEN BruteForceSearch ELSE Live(dirtyBuf \cup UNION {lists[c] : c \in P})

\* ExportVectors; Len counts the same postings.
ExportVectors == Live(dirtyBuf \cup IF store = "open" THEN Stored ELSE {})

-----------------------------------------------------------------------------

\* The new centroid index holds 1..k, and its applier may have run meanwhile.
NewNavs(k) ==
  UNION {{[graph |-> 1..g, flight |-> (g + 1)..f, buffer |-> (f + 1)..k] : f \in g..k} : g \in 0..k}

\* K-Means and the nearest centroid of each posting: any of the k.
SpannAssignments(ps, k) == [ps -> 1..k]

\* WritePostings, and the store that is mapped from the file: on a full disk
\* the file stays empty and is opened as a store without lists.
Written(ps, nearest) == [c \in Cents |-> {p \in ps : ~diskFull /\ nearest[p] = c}]

\* Mutant of Commit: the buffer keeps what is in the posting lists now.
CommitKeepsBuffer(ps, k, nearest) ==
  /\ lists' = Written(ps, nearest)
  /\ nav' \in NewNavs(k)
  /\ idToCentroid' = [x \in Ids |-> IF x \in IdsIn(ps)
                                    THEN nearest[CHOOSE p \in ps : p.id = x] ELSE None]
  /\ UNCHANGED dirtyBuf /\ deleted' = {} /\ built' = TRUE /\ store' = "open"
  /\ dropped' = (dropped \/ diskFull)
  /\ UNCHANGED <<diskFull, given, inserts>>

\* The old store is closed, the new one written and mapped, and all is replaced.
Commit(ps, k, nearest) ==
  /\ lists' = Written(ps, nearest)
  /\ nav' \in NewNavs(k)
  /\ idToCentroid' = [x \in Ids |-> IF x \in IdsIn(ps)
                                    THEN nearest[CHOOSE p \in ps : p.id = x] ELSE None]
  /\ dirtyBuf' = {} /\ deleted' = {} /\ built' = TRUE /\ store' = "open"
  /\ dropped' = (dropped \/ diskFull)
  /\ UNCHANGED <<diskFull, given, inserts>>

\* Rebuild: nothing happens, deletes included, when no live vector is left.
Rebuild ==
  /\ store \in {"none", "open"}
  /\ ExportVectors # {}
  /\ LET k == Min({NumCents, Cardinality(ExportVectors)})
     IN \E nearest \in SpannAssignments(ExportVectors, k) : Commit(ExportVectors, k, nearest)

\* Creating, syncing or mapping the file fails after the old store is closed;
\* without posting lists there was no mapping to lose.
RebuildFails ==
  /\ store \in {"none", "open"}
  /\ ExportVectors # {}
  /\ store' = IF Stored # {} THEN "unmapped" ELSE store
  /\ UNCHANGED <<dirtyBuf, lists, idToCentroid, deleted, built, nav, diskFull,
                 given, dropped, inserts>>

\* The centroid index's applier empties its buffer, then applies the batch.
ApplierTake ==
  /\ nav.buffer # {} /\ nav.flight = {}
  /\ nav' = [nav EXCEPT !.buffer = {}, !.flight = nav.buffer]
  /\ UNCHANGED <<dirtyBuf, store, lists, idToCentroid, deleted, built, diskFull,
                 given, dropped, inserts>>

ApplierApply ==
  /\ nav.flight # {}
  /\ nav' = [nav EXCEPT !.flight = {}, !.graph = @ \cup nav.flight]
  /\ UNCHANGED <<dirtyBuf, store, lists, idToCentroid, deleted, built, diskFull,
                 given, dropped, inserts>>

\* The file system runs full or has room again.
DiskChanges ==
  /\ store # "closed"
  /\ diskFull' = ~diskFull
  /\ UNCHANGED <<dirtyBuf, store, lists, idToCentroid, deleted, built, nav,
                 given, dropped, inserts>>

\* A search, Len, ExportVectors or Rebuild that reads the unmapped store kills
\* the process.  The index is not persistent, and a new one has a new file.
Fault ==
  /\ store = "unmapped"
  /\ dirtyBuf' = {} /\ store' = "none" /\ lists' = NoLists
  /\ idToCentroid' = [x \in Ids |-> None] /\ deleted' = {} /\ built' = FALSE
  /\ nav' = [graph |-> {}, flight |-> {}, buffer |-> {}]
  /\ given' = [x \in Ids |-> None] /\ dropped' = FALSE
  /\ UNCHANGED <<diskFull, inserts>>

\* Close unmaps the store and removes the file; the manager has forgotten the
\* collection by then.
SpannClose ==
  /\ store # "closed"
  /\ store' = "closed" /\ lists' = NoLists
  /\ UNCHANGED <<dirtyBuf, idToCentroid, deleted, built, nav, diskFull,
                 given, dropped, inserts>>

-----------------------------------------------------------------------------

SpannInit ==
  /\ dirtyBuf = {} /\ store = "none" /\ lists = NoLists
  /\ idToCentroid = [x \in Ids |-> None] /\ deleted = {} /\ built = FALSE
  /\ nav = [graph |-> {}, flight |-> {}, buffer |-> {}]
  /\ diskFull = FALSE
  /\ given = [x \in Ids |-> None] /\ dropped = FALSE /\ inserts = 0

SpannNext ==
  \/ \E x \in Ids : SpannDelete(x) \/ \E v \in Vectors : SpannInsert(x, v)
  \/ Rebuild \/ RebuildFails \/ ApplierTake \/ ApplierApply
  \/ DiskChanges \/ Fault \/ SpannClose

SpannSpec == SpannInit /\ [][SpannNext]_spannVars

-----------------------------------------------------------------------------

Given == {p \in Posting : given[p.id] = p.vector}
Intact == store \in {"none", "open"} /\ ~dropped

\* Over any inserts, deletes, rebuilds and failed rebuilds an id is held once,
\* in the buffer or in the posting list idToCentroid names: a search never
\* returns it twice, and a re-inserted id never brings its old vector back
\* (Insert's duplicate checks and Rebuild's commit).
HeldOnce ==
  Intact =>
    \A x \in Ids :
      LET held == {<<p, Buffered>> : p \in {q \in dirtyBuf : q.id = x}} \cup
                  UNION {{<<p, c>> : p \in {q \in lists[c] : q.id = x}} : c \in Cents}
      IN /\ Cardinality(held) <= 1
         /\ Known(x) <=> held # {}
         /\ built => \A h \in held : idToCentroid[x] = h[2]

\* A search that probes every centroid, given that the centroid index reaches
\* its whole graph, finds the vectors given and not deleted, except that of the posting lists whose centroid is in flight in the centroid
\* index; and the probed lists never bring back a deleted or replaced vector.
\* No promise is made once a full disk has dropped a posting list (Search,
\* Rebuild, HNSWIndex.drainDirtyBuffer).
ProbesFindGiven ==
  Intact =>
    /\ \A P \in SUBSET Visible : SpannSearch(P) \subseteq Given
    /\ Given \subseteq SpannSearch(Visible) \cup UNION {lists[c] : c \in nav.flight}
    /\ SpannSearch(nav.flight \cup Visible) = ExportVectors
=============================================================================
