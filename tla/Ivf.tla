--------------------------------- MODULE Ivf ---------------------------------
(***************************************************************************)
(* IVFIndex: a clustered main index with posting lists, a dirty buffer     *)
(* (a FlatIndex) for new vectors, and a background rebuilder that drains   *)
(* the buffer under the lock, clusters without it and swaps the result in  *)
(* under the lock again.  Insert, Delete and Search hold the lock, so each *)
(* is one step; the rebuild is the tick that calls for it and three more.  *)
(*                                                                         *)
(* Vectors are their ids; K-Means is any assignment to clusters.  Product  *)
(* quantization changes how a row is stored, not which rows there are.     *)
(***************************************************************************)
EXTENDS VectorIndex, Integers, Sequences, FiniteSets, FiniteSetsExt, Functions

CONSTANTS K, Threshold, MaxRows

ASSUME IvfAssumption ==
  K \in Nat \ {0} /\ Threshold \in Nat /\ MaxRows \in Nat /\ None \notin 1..K

VARIABLES main,     \* the main index: rows, row of an id, cluster of an id, postings
          dirty,    \* the ids in the dirty buffer
          rebuild,  \* "idle", "due", "clustering", "collected" or "closed"
          all,      \* allIDs: what the running rebuild drained
          stale,    \* deletedDuringRebuild
          live,     \* history: ids whose last acknowledged operation is an insert
          gone,     \* history: ids deleted while no rebuild ran, not inserted since
          twice     \* history: ids inserted again while a rebuild held them

ivfVars == <<main, dirty, built, rebuild, all, stale, live, gone, twice>>

NoRow == 0
Clusters == 1..K
Has(m, x) == m.row[x] # NoRow
Running == rebuild \in {"clustering", "collected"}

-----------------------------------------------------------------------------

\* Mutant of RemoveRow: the row that moves keeps its old place in idToRow.
RemoveRowUnmoved(m, x) ==
  LET r == m.row[x]
      last == Len(m.ids)
      moved == [m.ids EXCEPT ![r] = m.ids[last]]
  IN [ids |-> SubSeq(moved, 1, last - 1),
      row |-> [m.row EXCEPT ![x] = NoRow],
      cluster |-> [m.cluster EXCEPT ![x] = None],
      posting |-> IF m.cluster[x] = None \/ m.posting[m.cluster[x]][x] = 0 THEN m.posting
                  ELSE [m.posting EXCEPT ![m.cluster[x]][x] = @ - 1]]

\* removeFromPostingList, then the last row takes the place of x's row.
RemoveRow(m, x) ==
  LET r == m.row[x]
      last == Len(m.ids)
      moved == [m.ids EXCEPT ![r] = m.ids[last]]
  IN [ids |-> SubSeq(moved, 1, last - 1),
      row |-> [m.row EXCEPT ![m.ids[last]] = r, ![x] = NoRow],
      cluster |-> [m.cluster EXCEPT ![x] = None],
      posting |-> IF m.cluster[x] = None \/ m.posting[m.cluster[x]][x] = 0 THEN m.posting
                  ELSE [m.posting EXCEPT ![m.cluster[x]][x] = @ - 1]]

\* Duplicates are looked for in the main index and in the buffer; what a
\* running rebuild has drained is in neither.
IvfInsert(x) ==
  /\ rebuild # "closed"
  /\ ~Has(main, x) /\ x \notin dirty
  /\ dirty' = dirty \cup {x}
  /\ live' = live \cup {x} /\ gone' = gone \ {x}
  /\ twice' = IF Running /\ x \in Range(all) THEN twice \cup {x} ELSE twice
  /\ UNCHANGED <<main, built, rebuild, all, stale>>

\* From the main index, else from the buffer; an id in neither is no error.
IvfDelete(x) ==
  /\ rebuild # "closed"
  /\ IF Has(main, x)
     THEN main' = RemoveRow(main, x) /\ dirty' = dirty
     ELSE main' = main /\ dirty' = dirty \ {x}
  /\ live' = live \ {x}
  /\ gone' = IF Running THEN gone ELSE gone \cup {x}
  /\ UNCHANGED <<built, rebuild, all, stale, twice>>

\* The answer of a search that probes clusters P, before the cut to k.
IvfSearch(P) ==
  dirty \cup {x \in Ids : built /\ Has(main, x) /\ \E c \in P : main.posting[c][x] > 0}

\* ExportVectors: every id with a row, and the buffer.
Exported == dirty \cup {x \in Ids : Has(main, x)}

-----------------------------------------------------------------------------

\* backgroundRebuilder: the buffer is found to be over its threshold, under a
\* lock that is let go before the rebuild takes it.
Tick ==
  /\ rebuild = "idle"
  /\ Cardinality(dirty) > Threshold
  /\ rebuild' = "due"
  /\ UNCHANGED <<main, dirty, built, all, stale, live, gone, twice>>

\* Mutant of Drain: the buffer is not copied before it is replaced.
DrainUncopied ==
  /\ rebuild = "due"
  /\ Len(main.ids) + Cardinality(dirty) <= MaxRows
  /\ all' = main.ids
  /\ dirty' = {}
  /\ rebuild' = IF all' = <<>> THEN "idle" ELSE "clustering"
  /\ UNCHANGED <<main, built, stale, live, gone, twice>>

\* Phase 1: copy the rows and the buffer, and start a fresh buffer; where
\* deletes have left neither there is nothing to do.
Drain ==
  /\ rebuild = "due"
  /\ Len(main.ids) + Cardinality(dirty) <= MaxRows
  /\ all' \in {main.ids \o s : s \in {t \in [1..Cardinality(dirty) -> dirty] : Range(t) = dirty}}
  /\ dirty' = {}
  /\ rebuild' = IF all' = <<>> THEN "idle" ELSE "clustering"
  /\ UNCHANGED <<main, built, stale, live, gone, twice>>

\* Phase 2 without the lock ends with the ids that have a row and were not
\* drained.
Collect ==
  /\ rebuild = "clustering"
  /\ stale' = {x \in Ids : Has(main, x) /\ x \notin Range(all)}
  /\ rebuild' = "collected"
  /\ UNCHANGED <<main, dirty, built, all, live, gone, twice>>

\* K-Means: with no more vectors than clusters, each has its own.
IvfAssignments(n) == IF n <= K THEN {[i \in 1..n |-> i]} ELSE [1..n -> Clusters]

LastRow(ids, x) == Max({i \in 1..Len(ids) : ids[i] = x} \cup {NoRow})

\* The index made from the drained rows.
Clustered(assignment) ==
  [ids |-> all,
   row |-> [x \in Ids |-> LastRow(all, x)],
   cluster |-> [x \in Ids |-> IF LastRow(all, x) = NoRow THEN None ELSE assignment[LastRow(all, x)]],
   posting |-> [c \in Clusters |->
                 [x \in Ids |-> Cardinality({i \in 1..Len(all) : all[i] = x /\ assignment[i] = c})]]]

\* Mutant of Swap: the fresh buffer is replaced as well.
SwapClears ==
  /\ rebuild = "collected"
  /\ \E assignment \in IvfAssignments(Len(all)) : main' = Clustered(assignment)
  /\ built' = TRUE /\ dirty' = {}
  /\ rebuild' = "idle" /\ all' = <<>> /\ stale' = {}
  /\ UNCHANGED <<live, gone, twice>>

\* Phase 3: the new state, and the deletes that were noticed.
Swap ==
  /\ rebuild = "collected"
  /\ \E assignment \in IvfAssignments(Len(all)) :
       main' = FoldSet(LAMBDA x, m : IF Has(m, x) THEN RemoveRow(m, x) ELSE m,
                       Clustered(assignment), stale)
  /\ built' = TRUE
  /\ rebuild' = "idle" /\ all' = <<>> /\ stale' = {}
  /\ UNCHANGED <<dirty, live, gone, twice>>

\* Close cancels the context; a rebuild that is still clustering gives up.
IvfClose ==
  /\ rebuild \in {"idle", "due", "clustering"}
  /\ rebuild' = "closed" /\ all' = <<>> /\ stale' = {}
  /\ UNCHANGED <<main, dirty, built, live, gone, twice>>

-----------------------------------------------------------------------------

IvfInit ==
  /\ main = [ids |-> <<>>, row |-> [x \in Ids |-> NoRow], cluster |-> [x \in Ids |-> None],
             posting |-> [c \in Clusters |-> [x \in Ids |-> 0]]]
  /\ dirty = {} /\ built = FALSE /\ rebuild = "idle"
  /\ all = <<>> /\ stale = {} /\ live = {} /\ gone = {} /\ twice = {}

IvfNext ==
  \/ \E x \in Ids : IvfInsert(x) \/ IvfDelete(x)
  \/ Tick \/ Drain \/ Collect \/ Swap \/ IvfClose

IvfSpec == IvfInit /\ [][IvfNext]_ivfVars

-----------------------------------------------------------------------------

\* The main index agrees with itself after any mix of deletes and rebuilds:
\* the row of an id holds that id, and an id that was not inserted again
\* during a rebuild has a row if and only if it has one posting, in the
\* cluster it is assigned to (Delete's swap with the last row, RebuildCtx).
RowsAgree ==
  /\ \A x \in Ids : Has(main, x) => main.row[x] <= Len(main.ids) /\ main.ids[main.row[x]] = x
  /\ \A x \in Ids \ twice :
       /\ Has(main, x) <=> x \in Range(main.ids)
       /\ \A c \in Clusters : main.posting[c][x] = IF main.cluster[x] = c THEN 1 ELSE 0
       /\ Has(main, x) <=> main.cluster[x] # None

\* "Concurrent inserts during the slow K-Means phase go to the new buffer and
\* are never lost": an acknowledged vector is exported, or held by the running
\* rebuild.  This is about ids: of an id inserted again while a rebuild held
\* it, the older vector may be the one that stays (ivf.go, Rebuild).
NeverLost == rebuild # "closed" => live \subseteq Exported \cup Range(all)

\* Between rebuilds a search that probes every cluster finds exactly the
\* acknowledged vectors, apart from those deleted while a rebuild ran: a
\* delete outside of one is never undone, and no vector is in the index but
\* out of reach of its posting list.  It promises nothing while a rebuild
\* runs, when Search sees neither what the rebuild has drained nor its result
\* (Search, Delete, RebuildCtx).
SearchExact ==
  ~Running /\ rebuild # "closed" =>
    /\ live \ twice \subseteq IvfSearch(Clusters)
    /\ IvfSearch(Clusters) \cap (gone \ twice) = {}

\* What Delete's comment promises, "it will be re-deleted during rebuild": an
\* id whose delete was acknowledged is not found again unless it is inserted.
DeletesStick == rebuild = "idle" => IvfSearch(Clusters) \subseteq live
=============================================================================
