--------------------------- MODULE FlatCollection ---------------------------
(***************************************************************************)
(* One collection backed by the flat index: Manager.InsertVectors,         *)
(* DeleteVector and SearchVectors over the SQLite write-ahead log, the     *)
(* in-memory flat index and inverted index, and the SysDB rows, with       *)
(* crashes between any two durable writes and the log replay of            *)
(* NewManager.                                                             *)
(*                                                                         *)
(* Writers hold col.mu from before the log append to their return, so at   *)
(* most one write is in progress; pc says how far it is.  Steps that only  *)
(* touch memory are merged with the next durable write: a crash forgets    *)
(* them and no search can run between them.                                *)
(*                                                                         *)
(* A vector stands for an embedding and its document; WithDoc are those    *)
(* whose metadata carries a "document" string.                             *)
(***************************************************************************)
EXTENDS Integers, Sequences

CONSTANTS Ids,       \* vector ids
          Vecs,      \* vectors of the collection's dimension
          BadVecs,   \* vectors of another dimension
          WithDoc,   \* vectors that carry a document
          MetaKeys,  \* keys of a vector's metadata
          MetaValues,
          None,      \* absent vector, absent metadata value
          MaxLog,    \* bound on the number of log entries
          MaxBatch   \* bound on the vectors of one InsertVectors call

Vectors == Vecs \cup BadVecs

ASSUME ConstantsAssumption ==
  /\ None \notin Ids \cup Vectors \cup MetaValues
  /\ Vecs \cap BadVecs = {}
  /\ WithDoc \subseteq Vecs
  /\ MaxLog \in Nat
  /\ MaxBatch \in Nat \ {0}

\* Metadata gives some of the keys a value.
Metas == [MetaKeys -> MetaValues \cup {None}]
NoMeta == [k \in MetaKeys |-> None]

\* One element of a request.  A delete is an item without a vector.
Item == [id : Ids, vec : Vectors, meta : Metas]
DeleteItem == [id : Ids, vec : {None}, meta : {NoMeta}]
Entry == [type : {"insert", "delete"}, id : Ids, vec : Vectors \cup {None}]
Batches == UNION {[1..n -> Item] : n \in 1..MaxBatch}

VARIABLES wal,      \* durable: the log; entry n has sequence id n
          meta,     \* durable: SysDB vector_metadata
          tomb,     \* durable: SysDB tombstones
          rows,     \* memory: ids and vectors of the flat index, by row
          idToRow,  \* memory: row of an id, 0 when the id is not indexed
          docs,     \* memory: ids in the inverted index
          phase,    \* "up", "down", or "replay" while NewManager replays
          pos,      \* entries replayed so far
          pc,       \* how far the write that holds col.mu is
          req,      \* its items
          nxt,      \* its next item
          answer,   \* what the last answered write returned
          seen,     \* the result of the last search
          acked,    \* history: what the clients were told about each id
          lost      \* history: the SysDB writes of an id that did not happen

durable == <<wal, meta, tomb>>
memory == <<rows, idToRow, docs>>
request == <<pc, req, nxt>>
vars == <<durable, memory, phase, pos, request, answer, seen, acked, lost>>

Unknown == [st |-> "unknown", vec |-> None, meta |-> NoMeta]
Deleted == [st |-> "deleted", vec |-> None, meta |-> NoMeta]
AckedLive(it) == [st |-> "live", vec |-> it.vec, meta |-> it.meta]

TypeOK ==
  /\ wal \in Seq(Entry)
  /\ meta \in [Ids -> Metas]
  /\ tomb \in SUBSET Ids
  /\ rows \in Seq([id : Ids, vec : Vecs])
  /\ idToRow \in [Ids -> Nat]
  /\ docs \in SUBSET Ids
  /\ phase \in {"up", "down", "replay"}
  /\ pos \in Nat
  /\ pc \in {"idle", "logged", "insert", "delete", "tombstone", "finish"}
  /\ req \in Seq(Item \cup DeleteItem)
  /\ nxt \in Nat
  /\ answer \in {"none", "ok", "error"}
  /\ seen \in SUBSET (Ids \X Vecs)
  /\ acked \in [Ids -> [st : {"unknown", "deleted", "live"},
                        vec : Vectors \cup {None}, meta : Metas]]
  /\ lost \in SUBSET ({"save", "clear", "delete"} \X Ids)

-----------------------------------------------------------------------------
(* The flat index.                                                         *)

\* Mutant of CanInsert: the dimension check is dropped.
CanInsertAnyDimension(i, v) == idToRow[i] = 0

CanInsert(i, v) == v \in Vecs /\ idToRow[i] = 0

\* FlatIndex.Insert past its two refusals: a new last row.
IndexInsert(i, v) ==
  /\ rows' = Append(rows, [id |-> i, vec |-> v])
  /\ idToRow' = [idToRow EXCEPT ![i] = Len(rows) + 1]

\* Mutant of IndexDelete: the moved row keeps its old entry in the map.
IndexDeleteNoRemap(i) ==
  LET row == idToRow[i]
      last == Len(rows)
  IN /\ rows' = [r \in 1..(last - 1) |-> IF r = row THEN rows[last] ELSE rows[r]]
     /\ idToRow' = [idToRow EXCEPT ![i] = 0]

\* FlatIndex.Delete of an indexed id: the last row moves into its place.
IndexDelete(i) ==
  LET row == idToRow[i]
      last == Len(rows)
  IN /\ rows' = [r \in 1..(last - 1) |-> IF r = row THEN rows[last] ELSE rows[r]]
     /\ idToRow' = [j \in Ids |-> IF j = i THEN 0
                                  ELSE IF j = rows[last].id THEN row
                                  ELSE idToRow[j]]

-----------------------------------------------------------------------------
(* The log and the SysDB rows: each call is one transaction.  A SysDB call *)
(* that fails changes nothing; its caller logs a warning and goes on.  The *)
(* failure of a call that has nothing to do is the same as its success.    *)

AppendBatch(es) == wal' = wal \o es
AppendOp(e) == wal' = Append(wal, e)

\* One row per key: a key the item gives gets its value, the others stay.
SaveVectorMetadata(i, m) ==
  \/ /\ meta' = [meta EXCEPT ![i] = [k \in MetaKeys |-> IF m[k] = None THEN meta[i][k] ELSE m[k]]]
     /\ lost' = lost \ {<<"save", i>>}
  \/ m # NoMeta /\ meta' = meta /\ lost' = lost \cup {<<"save", i>>}

DeleteVectorMetadata(i) ==
  \/ meta' = [meta EXCEPT ![i] = NoMeta] /\ lost' = lost \ {<<"delete", i>>}
  \/ meta[i] # NoMeta /\ meta' = meta /\ lost' = lost \cup {<<"delete", i>>}

RemoveTombstonesBatch(ids) ==
  \/ tomb' = tomb \ ids /\ lost' = lost \ ({"clear"} \X ids)
  \/ ids \cap tomb # {} /\ tomb' = tomb /\ lost' = lost \cup ({"clear"} \X ids)

AddTombstone(i) == tomb' = tomb \cup {i}

-----------------------------------------------------------------------------
(* InsertVectors and DeleteVector.                                         *)

LogEntry(type, it) == [type |-> type, id |-> it.id, vec |-> it.vec]

\* Append or AppendBatch fails: the write returns its error, nothing is done.
LogFails ==
  /\ phase = "up" /\ pc = "idle"
  /\ answer' = "error"
  /\ UNCHANGED <<durable, memory, phase, pos, request, seen, acked, lost>>

\* Take col.mu and append the whole batch to the log in one transaction.
InsertLog(b) ==
  /\ phase = "up" /\ pc = "idle"
  /\ Len(wal) + Len(b) <= MaxLog
  /\ AppendBatch([n \in 1..Len(b) |-> LogEntry("insert", b[n])])
  /\ pc' = "logged" /\ req' = b /\ nxt' = 1
  /\ acked' = [i \in Ids |-> IF /\ \E n \in 1..Len(b) : b[n].id = i
                                /\ acked[i].st # "live"
                             THEN Unknown ELSE acked[i]]
  /\ UNCHANGED <<meta, tomb, memory, phase, pos, answer, seen, lost>>

InsertClearTombstones ==
  /\ phase = "up" /\ pc = "logged" /\ req[1] \in Item
  /\ RemoveTombstonesBatch({req[n].id : n \in 1..Len(req)})
  /\ pc' = "insert"
  /\ UNCHANGED <<wal, meta, memory, phase, pos, req, nxt, answer, seen, acked>>

\* One round of the loop: idx.Insert, SaveVectorMetadata, AddDocument.
InsertApply ==
  /\ phase = "up" /\ pc = "insert"
  /\ LET it == req[nxt]
     IN /\ CanInsert(it.id, it.vec)
        /\ IndexInsert(it.id, it.vec)
        /\ SaveVectorMetadata(it.id, it.meta)
        /\ docs' = IF it.vec \in WithDoc THEN docs \cup {it.id} ELSE docs
  /\ nxt' = nxt + 1
  /\ pc' = IF nxt = Len(req) THEN "finish" ELSE "insert"
  /\ UNCHANGED <<wal, tomb, phase, pos, req, answer, seen, acked>>

\* idx.Insert refuses an item: InsertVectors returns at once, whatever is
\* left of the batch.
InsertRefused ==
  /\ phase = "up" /\ pc = "insert"
  /\ ~CanInsert(req[nxt].id, req[nxt].vec)
  /\ answer' = "error"
  /\ pc' = "idle" /\ req' = <<>> /\ nxt' = 0
  /\ UNCHANGED <<durable, memory, phase, pos, seen, acked, lost>>

\* Mutant of DeleteLog: the delete is never logged.
DeleteLogSkipped(i) ==
  /\ phase = "up" /\ pc = "idle"
  /\ pc' = "delete" /\ req' = <<[id |-> i, vec |-> None, meta |-> NoMeta]>> /\ nxt' = 1
  /\ acked' = [acked EXCEPT ![i] = IF @.st = "live" THEN Unknown ELSE @]
  /\ UNCHANGED <<wal, meta, tomb, memory, phase, pos, answer, seen, lost>>

\* Take col.mu and append the delete to the log.
DeleteLog(i) ==
  /\ phase = "up" /\ pc = "idle"
  /\ Len(wal) < MaxLog
  /\ LET it == [id |-> i, vec |-> None, meta |-> NoMeta]
     IN /\ AppendOp(LogEntry("delete", it))
        /\ pc' = "delete" /\ req' = <<it>> /\ nxt' = 1
  /\ acked' = [acked EXCEPT ![i] = IF @.st = "live" THEN Unknown ELSE @]
  /\ UNCHANGED <<meta, tomb, memory, phase, pos, answer, seen, lost>>

\* Mutant of DeleteApply: only the index forgets the vector.
DeleteApplyIndexOnly ==
  /\ phase = "up" /\ pc = "delete"
  /\ idToRow[req[1].id] # 0
  /\ IndexDelete(req[1].id)
  /\ pc' = "tombstone"
  /\ UNCHANGED <<durable, docs, phase, pos, req, nxt, answer, seen, acked, lost>>

\* idx.Delete, RemoveDocument and DeleteVectorMetadata.
DeleteApply ==
  /\ phase = "up" /\ pc = "delete"
  /\ LET i == req[1].id
     IN /\ idToRow[i] # 0
        /\ IndexDelete(i)
        /\ docs' = docs \ {i}
        /\ DeleteVectorMetadata(i)
  /\ pc' = "tombstone"
  /\ UNCHANGED <<wal, tomb, phase, pos, req, nxt, answer, seen, acked>>

\* idx.Delete finds no such id: DeleteVector returns its error at once.
DeleteRefused ==
  /\ phase = "up" /\ pc = "delete"
  /\ idToRow[req[1].id] = 0
  /\ answer' = "error"
  /\ pc' = "idle" /\ req' = <<>> /\ nxt' = 0
  /\ UNCHANGED <<durable, memory, phase, pos, seen, acked, lost>>

DeleteTombstone ==
  /\ phase = "up" /\ pc = "tombstone"
  /\ AddTombstone(req[1].id)
  /\ pc' = "finish"
  /\ UNCHANGED <<wal, meta, memory, phase, pos, req, nxt, answer, seen, acked, lost>>

\* AddTombstone fails: DeleteVector returns the error of a delete that took
\* effect in the log and in the index.
DeleteTombstoneFails ==
  /\ phase = "up" /\ pc = "tombstone"
  /\ answer' = "error"
  /\ pc' = "idle" /\ req' = <<>> /\ nxt' = 0
  /\ UNCHANGED <<durable, memory, phase, pos, seen, acked, lost>>

\* UpdateVectorCount, Notify, unlock and success.
Finish ==
  /\ phase = "up" /\ pc = "finish"
  /\ answer' = "ok"
  /\ acked' = [i \in Ids |->
                 IF \E n \in 1..Len(req) : req[n].id = i
                 THEN IF req[1].vec = None THEN Deleted
                      ELSE AckedLive(req[CHOOSE n \in 1..Len(req) : req[n].id = i])
                 ELSE acked[i]]
  /\ pc' = "idle" /\ req' = <<>> /\ nxt' = 0
  /\ UNCHANGED <<durable, memory, phase, pos, seen, lost>>

\* SearchVectors holds col.mu for reading; the flat index scans its rows.
Search ==
  /\ phase = "up" /\ pc = "idle"
  /\ seen' = {<<rows[r].id, rows[r].vec>> : r \in 1..Len(rows)}
  /\ UNCHANGED <<durable, memory, phase, pos, request, answer, acked, lost>>

-----------------------------------------------------------------------------
(* Crash, and the restart of NewManager.                                   *)

Crash ==
  /\ phase # "down"
  /\ phase' = "down"
  /\ rows' = <<>> /\ idToRow' = [i \in Ids |-> 0] /\ docs' = {}
  /\ pos' = 0
  /\ pc' = "idle" /\ req' = <<>> /\ nxt' = 0
  /\ lost' = IF pc = "delete" /\ meta[req[1].id] # NoMeta THEN lost \cup {<<"delete", req[1].id>>} ELSE lost
  /\ UNCHANGED <<durable, answer, seen, acked>>

\* Mutant of Restart: replay starts one entry late.
RestartLate ==
  /\ phase = "down"
  /\ phase' = "replay" /\ pos' = (IF wal = <<>> THEN 0 ELSE 1)
  /\ UNCHANGED <<durable, memory, request, answer, seen, acked, lost>>

Restart ==
  /\ phase = "down"
  /\ phase' = "replay"
  /\ UNCHANGED <<durable, memory, pos, request, answer, seen, acked, lost>>

\* replayWAL applies the next entry; an entry the index refuses is skipped.
ReplayEntry ==
  /\ phase = "replay" /\ pos < Len(wal)
  /\ LET e == wal[pos + 1]
     IN \/ /\ e.type = "insert" /\ CanInsert(e.id, e.vec)
           /\ IndexInsert(e.id, e.vec)
           /\ docs' = IF e.vec \in WithDoc THEN docs \cup {e.id} ELSE docs
        \/ /\ e.type = "insert" /\ ~CanInsert(e.id, e.vec)
           /\ UNCHANGED memory
        \/ /\ e.type = "delete" /\ idToRow[e.id] # 0
           /\ IndexDelete(e.id)
           /\ docs' = docs \ {e.id}
        \/ /\ e.type = "delete" /\ idToRow[e.id] = 0
           /\ UNCHANGED memory
  /\ pos' = pos + 1
  /\ UNCHANGED <<durable, phase, request, answer, seen, acked, lost>>

ReplayDone ==
  /\ phase = "replay" /\ pos = Len(wal)
  /\ phase' = "up" /\ pos' = 0
  /\ UNCHANGED <<durable, memory, request, answer, seen, acked, lost>>

Init ==
  /\ wal = <<>> /\ meta = [i \in Ids |-> NoMeta] /\ tomb = {}
  /\ rows = <<>> /\ idToRow = [i \in Ids |-> 0] /\ docs = {}
  /\ phase = "up" /\ pos = 0
  /\ pc = "idle" /\ req = <<>> /\ nxt = 0
  /\ answer = "none" /\ seen = {}
  /\ acked = [i \in Ids |-> Unknown] /\ lost = {}

Next ==
  \/ LogFails
  \/ \E b \in Batches : InsertLog(b)
  \/ InsertClearTombstones
  \/ InsertApply
  \/ InsertRefused
  \/ \E i \in Ids : DeleteLog(i)
  \/ DeleteApply
  \/ DeleteRefused
  \/ DeleteTombstone
  \/ DeleteTombstoneFails
  \/ Finish
  \/ Search
  \/ Crash
  \/ Restart
  \/ ReplayEntry
  \/ ReplayDone

Spec == Init /\ [][Next]_vars

-----------------------------------------------------------------------------
(* What a log says, without running it: the vector of an id after its      *)
(* first p entries is the one of the first accepted insert since the id's  *)
(* last delete.                                                            *)

LiveInserts(log, p, i) ==
  {n \in 1..p : /\ log[n].type = "insert" /\ log[n].id = i /\ log[n].vec \in Vecs
                /\ \A m \in (n + 1)..p : ~(log[m].type = "delete" /\ log[m].id = i)}

LogValue(log, p, i) ==
  LET s == LiveInserts(log, p, i)
  IN IF s = {} THEN None ELSE log[CHOOSE n \in s : \A m \in s : n <= m].vec

Contents(i) == IF idToRow[i] = 0 THEN None ELSE rows[idToRow[i]].vec

\* How much of the log the index has applied (for one-vector requests).
IndexPos ==
  IF phase # "up" THEN pos
  ELSE IF pc \in {"logged", "insert", "delete"} THEN Len(wal) - 1
  ELSE Len(wal)

\* The row map and the rows of the flat index are inverse to each other, so
\* Insert's duplicate check, Delete's swap and Search's scan of the rows
\* (flat.go Insert, Delete, Search) speak about the same vectors.
RowsMatchMap ==
  /\ \A i \in Ids : idToRow[i] # 0 =>
        idToRow[i] \in 1..Len(rows) /\ rows[idToRow[i]].id = i
  /\ \A r \in 1..Len(rows) : idToRow[rows[r].id] = r

\* With one-vector requests the index is always the meaning of a prefix of
\* the log: of all of it when no write is in progress, of all but the entry
\* of the write in progress before its idx call, and of the replayed part
\* during replayWAL.  So a restart rebuilds exactly the index that crashed.
IndexFollowsLog == \A i \in Ids : Contents(i) = LogValue(wal, IndexPos, i)

\* The inverted index (in memory, rebuilt from the documents in the log)
\* holds exactly the indexed vectors that carry a document.
DocsFollowIndex == docs = {i \in Ids : Contents(i) \in WithDoc}

\* What InsertVectors and DeleteVector acknowledged is what a reader finds,
\* after any number of crashes and replays.  An acknowledged insert is indexed
\* with its vector; unless a SysDB write failed behind a warning, its metadata
\* has the values it gave and no left-over key of an earlier vector of the
\* id, and its tombstone is gone.  An acknowledged delete leaves no vector, a
\* tombstone and, unless DeleteVectorMetadata failed, no metadata.
AckedDurable ==
  phase = "up" /\ pc = "idle" =>
    \A i \in Ids :
      /\ acked[i].st = "live" =>
           /\ Contents(i) = acked[i].vec
           /\ <<"save", i>> \notin lost => \A k \in MetaKeys :
                acked[i].meta[k] # None => meta[i][k] = acked[i].meta[k]
           /\ <<"delete", i>> \notin lost => \A k \in MetaKeys :
                meta[i][k] # None => meta[i][k] = acked[i].meta[k]
           /\ <<"clear", i>> \notin lost => i \notin tomb
      /\ acked[i].st = "deleted" =>
           /\ Contents(i) = None
           /\ i \in tomb
           /\ <<"delete", i>> \notin lost => meta[i] = NoMeta

-----------------------------------------------------------------------------
(* The collection implements the durable map of VectorStore.               *)

Store == [i \in Ids |-> LogValue(wal, Len(wal), i)]

WillSucceed ==
  IF pc \in {"logged", "insert"} THEN CanInsert(req[1].id, req[1].vec)
  ELSE pc = "delete" => idToRow[req[1].id] # 0

Pending ==
  IF pc = "idle" THEN [kind |-> "none", id |-> None, ok |-> FALSE]
  ELSE [kind |-> IF req[1].vec = None THEN "delete" ELSE "insert",
        id |-> req[1].id, ok |-> WillSucceed]

VS == INSTANCE VectorStore WITH store <- Store, pending <- Pending

\* With one-vector requests every behaviour of the collection, crashes and
\* replays included, is a behaviour of the durable map: a write takes effect
\* when its log entry commits, a write refused there is answered with an
\* error, a write answered ok took effect (a delete that took effect may still
\* be answered with the error of AddTombstone), and a search sees all the
\* writes logged before it and nothing else.
RefinesVectorStore == VS!Spec
=============================================================================
