------------------------------ MODULE Recovery ------------------------------
(***************************************************************************)
(* The collection manager over one log: creation and removal of            *)
(* collections, writes, the shutdown that flushes HNSW snapshots, crashes, *)
(* and the restart that loads snapshots and replays the log.               *)
(*                                                                         *)
(* An index is a sequence of nodes.  The HNSW index appends nodes and marks *)
(* them dead; the flat index, which has no snapshot and no buffer, appends *)
(* and removes them.  The log is synchronous: an appended entry survives.  *)
(***************************************************************************)
EXTENDS Integers, Sequences

CONSTANTS Cols,        \* collections that may be created, each once (UUIDs)
          Hnsw,        \* those of index type hnsw
          Ids, Vecs,   \* vector ids and vectors
          None,        \* no snapshot, no entry
          MaxLog,      \* bound on the log
          MaxRestarts  \* bound on restarts

Insertion == [id : Ids, vec : Vecs]
Node == [id : Ids, vec : Vecs, dead : BOOLEAN]
Inserts == [op : {"insert"}, col : Cols, id : Ids, vec : Vecs]
Deletes == [op : {"delete"}, col : Cols, id : Ids, vec : {None}]
Entry == Inserts \cup Deletes
Snapshot == [seq : Nat, nodes : Seq(Node), idle : BOOLEAN, alone : BOOLEAN]

ASSUME RecoveryAssumption ==
  /\ Hnsw \subseteq Cols
  /\ None \notin Entry
  /\ MaxLog \in Nat /\ MaxRestarts \in Nat

VARIABLES mode,      \* "up", "draining", "flushing", "down" or "replay"
          catalog,   \* SysDB collections rows
          wal,       \* the log; the sequence id of an entry is its position
          snap,      \* snapshot file of each collection, or None
          loaded,    \* Manager.collections
          nodes,     \* the index of each loaded collection
          dirty,     \* HNSW: the buffer of pending inserts
          batch,     \* HNSW: what the background applier took and has not applied
          writer,    \* the logged write of each collection not yet in the index
          creating,  \* collections with a row and not yet in Manager.collections
          dropping,  \* collections unloaded whose row is not yet deleted
          flush,     \* the progress of Flush
          pos,       \* replay: the last entry handled
          used,      \* ids of collections ever generated
          created,   \* history: acknowledged creations with no removal requested since
          present,   \* history: acknowledged inserts with no delete requested since
          suspect,   \* history: collections a restart did not bring back in full
          restarts   \* restarts so far

disk == <<catalog, wal, snap>>
index == <<nodes, dirty, batch>>
history == <<used, created, present, suspect, restarts>>
vars == <<mode, disk, loaded, index, writer, creating, dropping, flush, pos, history>>

NoFlush == [seq |-> 0, todo |-> {}, col |-> None, pc |-> "idle", batch |-> <<>>, idle |-> FALSE]
Empty == [c \in Cols |-> <<>>]

IdsOf(s) == {s[k].id : k \in 1..Len(s)}
LiveIds(ns) == {ns[k].id : k \in {n \in 1..Len(ns) : ~ns[n].dead}}

\* Every id a search of c can return, or the applier is about to add.
Served(c) == LiveIds(nodes[c]) \cup IdsOf(dirty[c]) \cup IdsOf(batch[c])

\* idToNode: the last node of an id, 0 when there is none.
NodeOf(ns, i) ==
  IF \E n \in 1..Len(ns) : ns[n].id = i
  THEN CHOOSE n \in 1..Len(ns) : ns[n].id = i /\ \A k \in n + 1 .. Len(ns) : ns[k].id # i
  ELSE 0

\* insertLocked (hnsw) and Insert (flat): a live id is refused.
IsLive(ns, i) == NodeOf(ns, i) # 0 /\ ~ns[NodeOf(ns, i)].dead
AddNode(ns, e) ==
  IF IsLive(ns, e.id) THEN ns ELSE Append(ns, [id |-> e.id, vec |-> e.vec, dead |-> FALSE])

\* A drained batch, applied in order under h.mu.
Apply(ns, b) ==
  LET after[k \in 0..Len(b)] == IF k = 0 THEN ns ELSE AddNode(after[k - 1], b[k])
  IN after[Len(b)]

\* Mutant of IndexInsert: the hnsw indexes share one buffer.
IndexInsertShared(c, e) ==
  /\ dirty' = [d \in Cols |-> Append(dirty[d], [id |-> e.id, vec |-> e.vec])]
  /\ UNCHANGED nodes

\* index.Insert of entry e into collection c.
CanInsert(c, e) == c \in Hnsw \/ ~IsLive(nodes[c], e.id)
IndexInsert(c, e) ==
  IF c \in Hnsw
  THEN /\ dirty' = [dirty EXCEPT ![c] = Append(@, [id |-> e.id, vec |-> e.vec])]
       /\ UNCHANGED nodes
  ELSE /\ nodes' = [nodes EXCEPT ![c] = AddNode(@, e)]
       /\ UNCHANGED dirty

\* Delete (flat): the last row takes the place of row n.
SwapRemove(ns, n) == SubSeq([ns EXCEPT ![n] = ns[Len(ns)]], 1, Len(ns) - 1)

\* index.Delete: the hnsw index looks in the graph only.
CanDelete(c, i) == NodeOf(nodes[c], i) # 0
IndexDelete(c, i) ==
  /\ nodes' = [nodes EXCEPT ![c] = IF c \in Hnsw THEN [@ EXCEPT ![NodeOf(@, i)].dead = TRUE]
                                   ELSE SwapRemove(@, NodeOf(@, i))]
  /\ UNCHANGED dirty

-----------------------------------------------------------------------------
(* CreateCollection and DeleteCollection.  m.mu is write-locked by the     *)
(* steps on Manager.collections, so they wait while Flush holds it.        *)

\* Mutant of CreateRow: the row is not written.
CreateRowMissing(c) ==
  /\ mode = "up" /\ c \notin used
  /\ used' = used \cup {c}
  /\ creating' = creating \cup {c}
  /\ UNCHANGED <<mode, disk, loaded, index, writer, dropping, flush, pos, created,
                 present, suspect, restarts>>

CreateRow(c) ==
  /\ mode = "up" /\ c \notin used
  /\ used' = used \cup {c}
  /\ catalog' = catalog \cup {c}
  /\ creating' = creating \cup {c}
  /\ UNCHANGED <<mode, wal, snap, loaded, index, writer, dropping, flush, pos, created,
                 present, suspect, restarts>>

CreateInstall(c) ==
  /\ mode \in {"up", "draining"} /\ c \in creating
  /\ loaded' = loaded \cup {c}
  /\ creating' = creating \ {c}
  /\ created' = created \cup {c}
  /\ UNCHANGED <<mode, disk, index, writer, dropping, flush, pos, used, present, suspect, restarts>>

DropUnload(c) ==
  /\ mode = "up" /\ c \in loaded
  /\ loaded' = loaded \ {c}
  /\ dropping' = dropping \cup {c}
  /\ created' = created \ {c}
  /\ UNCHANGED <<mode, disk, index, writer, creating, flush, pos, used, present, suspect, restarts>>

\* Close waits for the applier and drains the buffer; then the row goes.
DropRow(c) ==
  /\ mode \notin {"down", "replay"} /\ c \in dropping
  /\ batch[c] = <<>>
  /\ nodes' = [nodes EXCEPT ![c] = Apply(@, dirty[c])]
  /\ dirty' = [dirty EXCEPT ![c] = <<>>]
  /\ catalog' = catalog \ {c}
  /\ dropping' = dropping \ {c}
  /\ UNCHANGED <<mode, wal, snap, loaded, batch, writer, creating, flush, pos, history>>

-----------------------------------------------------------------------------
(* InsertVectors and DeleteVector: the log first, then the index.          *)

Serving == mode \in {"up", "draining", "flushing"}

\* A request may outlive the timeout of server.Shutdown, and logs its write
\* while Flush runs.
WriteLog(e) ==
  /\ Serving /\ e.col \in loaded /\ writer[e.col] = None
  /\ Len(wal) < MaxLog
  /\ wal' = Append(wal, e)
  /\ writer' = [writer EXCEPT ![e.col] = e]
  /\ present' = IF e.op = "delete" THEN [present EXCEPT ![e.col] = @ \ {e.id}] ELSE present
  /\ UNCHANGED <<mode, catalog, snap, loaded, index, creating, dropping, flush, pos, used,
                 created, suspect, restarts>>

InsertIndex(c) ==
  /\ Serving /\ writer[c] # None /\ writer[c].op = "insert"
  /\ IF CanInsert(c, writer[c])
     THEN /\ IndexInsert(c, writer[c])
          /\ present' = [present EXCEPT ![c] = @ \cup {writer[c].id}]
     ELSE UNCHANGED <<nodes, dirty, present>>
  /\ writer' = [writer EXCEPT ![c] = None]
  /\ UNCHANGED <<mode, disk, loaded, batch, creating, dropping, flush, pos, used, created,
                 suspect, restarts>>

DeleteIndex(c) ==
  /\ Serving /\ writer[c] # None /\ writer[c].op = "delete"
  /\ IF CanDelete(c, writer[c].id) THEN IndexDelete(c, writer[c].id)
     ELSE UNCHANGED <<nodes, dirty>>
  /\ writer' = [writer EXCEPT ![c] = None]
  /\ UNCHANGED <<mode, disk, loaded, batch, creating, dropping, flush, pos, history>>

-----------------------------------------------------------------------------
(* The background applier of a loaded hnsw index; it runs during replay    *)
(* too.                                                                    *)

ApplierTake(c) ==
  /\ mode # "down" /\ c \in loaded /\ batch[c] = <<>> /\ dirty[c] # <<>>
  /\ batch' = [batch EXCEPT ![c] = dirty[c]]
  /\ dirty' = [dirty EXCEPT ![c] = <<>>]
  /\ UNCHANGED <<mode, disk, loaded, nodes, writer, creating, dropping, flush, pos, history>>

ApplierApply(c) ==
  /\ mode # "down" /\ batch[c] # <<>>
  /\ nodes' = [nodes EXCEPT ![c] = Apply(@, batch[c])]
  /\ batch' = [batch EXCEPT ![c] = <<>>]
  /\ UNCHANGED <<mode, disk, loaded, dirty, writer, creating, dropping, flush, pos, history>>

-----------------------------------------------------------------------------
(* Shutdown.  server.Shutdown stops new requests and waits for the ones in *)
(* progress, but not past its timeout; then Manager.Flush runs under       *)
(* m.mu.RLock.                                                             *)

StopBegin ==
  /\ mode = "up"
  /\ mode' = "draining"
  /\ UNCHANGED <<disk, loaded, index, writer, creating, dropping, flush, pos, history>>

\* The sequence ids are the positions in the log.
GetMaxSeqID == Len(wal)

\* Mutant of FlushBegin: the stamp is the next sequence id, not the last one.
FlushBeginAhead ==
  /\ mode = "draining"
  /\ mode' = "flushing"
  /\ flush' = [NoFlush EXCEPT !.seq = GetMaxSeqID + 1, !.todo = loaded \cap Hnsw,
                              !.idle = \A c \in Cols : writer[c] = None]
  /\ UNCHANGED <<disk, loaded, index, writer, creating, dropping, pos, history>>

\* GetMaxSeqID is read once, for all collections; when that fails the stamp
\* is 0.
FlushBegin ==
  /\ mode = "draining"
  /\ mode' = "flushing"
  /\ \E seq \in {0, GetMaxSeqID} :
       flush' = [NoFlush EXCEPT !.seq = seq, !.todo = loaded \cap Hnsw,
                                !.idle = \A c \in Cols : writer[c] = None]
  /\ UNCHANGED <<disk, loaded, index, writer, creating, dropping, pos, history>>

\* Mutant of FlushTake: the buffer is not drained first.
FlushTakeNothing(c) ==
  /\ mode = "flushing" /\ flush.pc = "idle" /\ c \in flush.todo
  /\ flush' = [flush EXCEPT !.pc = "taken", !.col = c, !.todo = @ \ {c}]
  /\ UNCHANGED <<mode, disk, loaded, index, writer, creating, dropping, pos, history>>

\* HNSWIndex.Flush: take the buffer, apply it under h.mu, then write the
\* nodes to a temporary file that is renamed over the snapshot.
FlushTake(c) ==
  /\ mode = "flushing" /\ flush.pc = "idle" /\ c \in flush.todo
  /\ flush' = [flush EXCEPT !.pc = "taken", !.col = c, !.todo = @ \ {c}, !.batch = dirty[c]]
  /\ dirty' = [dirty EXCEPT ![c] = <<>>]
  /\ UNCHANGED <<mode, disk, loaded, nodes, batch, writer, creating, dropping, pos, history>>

FlushApply ==
  /\ mode = "flushing" /\ flush.pc = "taken"
  /\ nodes' = [nodes EXCEPT ![flush.col] = Apply(@, flush.batch)]
  /\ flush' = [flush EXCEPT !.pc = "drained", !.batch = <<>>]
  /\ UNCHANGED <<mode, disk, loaded, dirty, batch, writer, creating, dropping, pos, history>>

\* The file holds every node, dead or not, and not the deleted set.
Revived(ns) == [n \in 1..Len(ns) |-> [ns[n] EXCEPT !.dead = FALSE]]
FlushWrite ==
  /\ mode = "flushing" /\ flush.pc = "drained"
  /\ snap' = [snap EXCEPT ![flush.col] =
                [seq |-> flush.seq, nodes |-> Revived(nodes[flush.col]),
                 idle |-> flush.idle, alone |-> batch[flush.col] = <<>>]]
  /\ flush' = [flush EXCEPT !.pc = "idle", !.col = None]
  /\ UNCHANGED <<mode, catalog, wal, loaded, index, writer, creating, dropping, pos, history>>

-----------------------------------------------------------------------------
(* The end of the process, and NewManager.                                 *)

Halt ==
  /\ mode' = "down"
  /\ loaded' = {} /\ nodes' = Empty /\ dirty' = Empty /\ batch' = Empty
  /\ writer' = [c \in Cols |-> None]
  /\ creating' = {} /\ dropping' = {} /\ flush' = NoFlush /\ pos' = 0
  /\ UNCHANGED <<disk, history>>

StopExit == mode = "flushing" /\ flush.pc = "idle" /\ flush.todo = {} /\ Halt
Crash == mode # "down" /\ Halt

\* The collections that come back with a snapshot, and where replay starts:
\* the least sequence id of a snapshot, or 0 when there is none.
WithSnapshot == {c \in catalog \cap Hnsw : snap[c] # None}
AfterSeq ==
  IF WithSnapshot = {} THEN 0
  ELSE CHOOSE s \in {snap[c].seq : c \in WithSnapshot} : \A c \in WithSnapshot : s <= snap[c].seq

\* The snapshot of c has an id for every insert it claims to cover.
Covers(c) ==
  \A k \in 1..snap[c].seq :
    wal[k].op = "insert" /\ wal[k].col = c => wal[k].id \in IdsOf(snap[c].nodes)

\* A restart cannot bring c back in full: its snapshot lacks an insert, or
\* it has none and replay starts after some of its entries.
Incomplete(c) ==
  IF c \in WithSnapshot THEN ~Covers(c)
  ELSE \E k \in 1..AfterSeq : wal[k].col = c

\* LoadHNSWFromSnapshot, or an empty index.
LoadIndex(c) == IF c \in WithSnapshot THEN snap[c].nodes ELSE <<>>

Restart ==
  /\ mode = "down" /\ restarts < MaxRestarts
  /\ mode' = "replay"
  /\ loaded' = catalog
  /\ nodes' = [c \in Cols |-> LoadIndex(c)]
  /\ pos' = AfterSeq
  /\ suspect' = suspect \cup {c \in catalog : Incomplete(c)}
  /\ restarts' = restarts + 1
  /\ UNCHANGED <<disk, dirty, batch, writer, creating, dropping, flush, used, created, present>>

\* Mutant of Skipped: the comparison with the snapshot is off by one.
SkippedOneMore(e, n) ==
  \/ e.col \notin loaded
  \/ n <= (IF e.col \in WithSnapshot THEN snap[e.col].seq ELSE 0) + 1
  \/ e.op = "insert" /\ ~CanInsert(e.col, e)
  \/ e.op = "delete" /\ ~CanDelete(e.col, e.id)

\* Entries of missing collections, entries a snapshot covers, duplicates and
\* deletes of unknown ids are skipped.
Skipped(e, n) ==
  \/ e.col \notin loaded
  \/ e.col \in WithSnapshot /\ n <= snap[e.col].seq
  \/ e.op = "insert" /\ ~CanInsert(e.col, e)
  \/ e.op = "delete" /\ ~CanDelete(e.col, e.id)

\* The entries after a sequence id; nothing truncates the log.
ReadFrom(afterSeq) == SubSeq(wal, afterSeq + 1, Len(wal))

ReplayEntry ==
  /\ mode = "replay" /\ ReadFrom(pos) # <<>>
  /\ LET e == Head(ReadFrom(pos))
     IN IF Skipped(e, pos + 1) THEN UNCHANGED <<nodes, dirty>>
        ELSE IF e.op = "insert" THEN IndexInsert(e.col, e)
        ELSE IndexDelete(e.col, e.id)
  /\ pos' = pos + 1
  /\ UNCHANGED <<mode, disk, loaded, batch, writer, creating, dropping, flush, history>>

ReplayDone ==
  /\ mode = "replay" /\ ReadFrom(pos) = <<>>
  /\ mode' = "up"
  /\ pos' = 0
  /\ UNCHANGED <<disk, loaded, index, writer, creating, dropping, flush, history>>

-----------------------------------------------------------------------------

Init ==
  /\ mode = "up" /\ catalog = {} /\ wal = <<>> /\ snap = [c \in Cols |-> None]
  /\ loaded = {} /\ nodes = Empty /\ dirty = Empty /\ batch = Empty
  /\ writer = [c \in Cols |-> None]
  /\ creating = {} /\ dropping = {} /\ flush = NoFlush /\ pos = 0
  /\ used = {} /\ created = {} /\ present = [c \in Cols |-> {}]
  /\ suspect = {} /\ restarts = 0

Next ==
  \/ \E c \in Cols : \/ CreateRow(c) \/ CreateInstall(c) \/ DropUnload(c) \/ DropRow(c)
                     \/ InsertIndex(c) \/ DeleteIndex(c)
                     \/ ApplierTake(c) \/ ApplierApply(c) \/ FlushTake(c)
  \/ \E e \in Entry : WriteLog(e)
  \/ StopBegin \/ FlushBegin \/ FlushApply \/ FlushWrite \/ StopExit \/ Crash
  \/ Restart \/ ReplayEntry \/ ReplayDone

Spec == Init /\ [][Next]_vars

-----------------------------------------------------------------------------

TypeOK ==
  /\ mode \in {"up", "draining", "flushing", "down", "replay"}
  /\ catalog \in SUBSET Cols /\ wal \in Seq(Entry)
  /\ snap \in [Cols -> Snapshot \cup {None}]
  /\ \A c \in Cols : snap[c] # None => snap[c].seq <= Len(wal)
  /\ loaded \in SUBSET Cols
  /\ nodes \in [Cols -> Seq(Node)]
  /\ dirty \in [Cols -> Seq(Insertion)] /\ batch \in [Cols -> Seq(Insertion)]
  /\ writer \in [Cols -> Entry \cup {None}]
  /\ creating \in SUBSET Cols /\ dropping \in SUBSET Cols
  /\ flush \in [seq : 0..Len(wal), todo : SUBSET Cols, col : Cols \cup {None},
                pc : {"idle", "taken", "drained"}, batch : Seq(Insertion), idle : BOOLEAN]
  /\ pos \in 0..Len(wal)
  /\ used \in SUBSET Cols /\ created \in SUBSET Cols
  /\ present \in [Cols -> SUBSET Ids] /\ suspect \in SUBSET Cols /\ restarts \in Nat

InsertedAt(k, c, i) == wal[k].op = "insert" /\ wal[k].col = c /\ wal[k].id = i
AllLogged(c, s) ==
  \A n \in 1..Len(s) : \E k \in 1..Len(wal) : InsertedAt(k, c, s[n].id) /\ wal[k].vec = s[n].vec

\* A collection holds nothing that was not inserted into it: every node,
\* pending insert and snapshot node of a collection is an insert entry of that
\* collection in the log, over any drain, flush, crash and replay.
NothingInvented ==
  \A c \in Cols : /\ AllLogged(c, nodes[c]) /\ AllLogged(c, dirty[c]) /\ AllLogged(c, batch[c])
                  /\ snap[c] # None => AllLogged(c, snap[c].nodes)

\* An acknowledged collection survives: it has its SysDB row and, whenever
\* requests are served, it is loaded, however creations, removals and crashes
\* between their two steps interleave.
CollectionsSurvive ==
  created \subseteq catalog /\ (Serving => created \subseteq loaded)

\* A snapshot written while no write was in progress and the applier held no
\* batch contains every insert up to the sequence id it is stamped with, so
\* that replay may skip those entries (Flush, SnapshotToFile, replayWAL).
QuietSnapshotCovers ==
  \A c \in Hnsw \ suspect :
    snap[c] # None /\ snap[c].idle /\ snap[c].alone => Covers(c)

\* Nothing acknowledged is lost: a vector whose insert was acknowledged and
\* whose delete was never requested since is served again after any number of
\* crashes and restarts, unless a restart found a snapshot that lacks it or
\* started replay after its entry (InsertVectors, Flush, replayWAL).
RecoveryComplete ==
  mode = "up" => \A c \in created \ suspect : present[c] \subseteq Served(c)

\* The full log is replayed for a collection without a snapshot: what was
\* acknowledged before the restart is served after it (comment of replayWAL).
FullReplayWithoutSnapshot ==
  mode = "up" => \A c \in created : snap[c] = None => present[c] \subseteq Served(c)

\* Flush drains the buffer before it writes: a snapshot taken while no write
\* was in progress contains every insert up to its sequence id.
FlushedSnapshotCovers ==
  \A c \in Hnsw \ suspect : snap[c] # None /\ snap[c].idle => Covers(c)
=============================================================================
