# Magnitude: a TLA+ verification project

Magnitude is a vector database in Go. A server process keeps *collections*; each
has an in-memory index (flat, HNSW, IVF or SPANN), rows in a SQLite catalogue
(SysDB) and entries in one SQLite write-ahead log shared by all collections.
Around this core stand clustering (gossip, failure detection, hash ring, routing,
replication, migration) and segment storage (S3 log, compaction, garbage
collection, cache). This project models what each of these parts promises about
the vectors, records, events and files it was given, through concurrency,
failed calls, lost messages, crashes and restarts.

## Inventory

Paths are under `src/internal/` unless they start with `cmd/`.

| Component | State | Operations | What is hard | What makes it correct |
|---|---|---|---|---|
| Collection manager `collection/` | map of collections; per collection an index, inverted index, bitmap index and `col.mu` | create, delete, InsertVectors, DeleteVector, SearchVectors, Flush, NewManager | several durable writes per request; batches that fail half way; replay | what was acknowledged is found after any crash |
| Flat index `index/flat` | rows, `idToRow` | Insert, Delete (swap with last), Search | the moved row | rows and map are inverse |
| HNSW index `index/hnsw` | nodes, `idToNode`, vector slab, deleted set, dirty buffer; `h.mu`, `dirtyMu` | Insert (buffers), drain, Delete, three searches, Flush, Rebuild, Close; a background applier | two locks taken one after the other; searches, deletes and flushes in between | one live node per id; nothing lost; every insert reaches the graph |
| HNSW snapshots `index/hnsw/snapshot.go` | a file per collection, stamped with a log position | write (temporary file, rename), load | the stamp is read before the state it describes | the file contains what its stamp claims |
| Log `storage/wal.go` | entries with increasing sequence ids | Append, AppendBatch, ReadFrom, Truncate | crash points; sync modes | append only, read in order |
| SysDB `metadata/` | collections, vector metadata, tombstones | one transaction per call | crash between two calls | rows agree with the log |
| Bitmap index `index/bitmap_index.go` | bitsets per field value | Set from the drain callback, Resolve | the callback reads metadata that may not be written yet | bits agree with the metadata rows |
| Start and shutdown `cmd/server/main.go` | - | drain requests, Flush, close | timeouts; the applier still runs | a clean restart loses nothing |
| Gossip `gossip/` | seen set, dissemination buffer, peers, sequence number | Broadcast, dissemination ticks, reception | lost, reordered and repeated packets, bounded memory of what was seen, restarts | an event reaches everyone; gossip comes to an end |
| Failure detector `failure/`, ring `cluster/hash.go` | state of each known node; nodes and virtual nodes | heartbeats, periodic check, AddNode, RemoveNode, GetNode | callbacks in goroutines of their own; virtual nodes that collide | a node is on its own ring; ring members have addresses |
| Routing `routing/router.go`, `forwarder.go`, `api/handlers_v2.go` | none of its own | split, forward, scatter, merge | every node routes by its own ring; forwards fail, time out and are still carried out; addresses and a header decide where a request goes | acknowledged means stored; no request circulates |
| Replication `routing/replica.go`, `cluster/consistency.go` | acks per call | quorum writes and reads, by two clients | cancelled and late calls; what the receivers answer | an acknowledged write is on a quorum; quorums meet |
| Migration `migration/` | progress per plan | batches with retries | short batches, failures | everything is copied before completion |
| IVF index `index/ivf` | rows, clusters, posting lists, dirty buffer | Insert, Delete, Search, background rebuild | the rebuild clusters a copy without the lock | rows, clusters and lists agree; nothing is lost |
| SPANN index `index/spann` | posting file, centroid index, buffer, deleted set | Insert, Delete, Search, Rebuild, Close | the file is rewritten in place; the centroid index lags | each id is held once; a full probe finds it |
| S3 log `storage/s3wal.go` | manifest, fragments | NewS3WAL, Append, ReadSince, AdvanceCursor | store calls that fail before or after their effect, or with an error that is misread; reads without the lock | acknowledged records stay recoverable; reads are complete |
| Admission `storage/admission.go` | slots, wait queues | Acquire, Release | cancellation racing a hand-over | slots are neither lost nor invented |
| Segment gc `gc/` | pins, marked list | Pin, Unpin, Mark, Sweep | the sweep holds no lock between its first and last line | a pinned file stays; a marked segment is not forgotten |
| Compaction, cache, scheduler, tenants, quantization, distance, clients | see the code | - | crash between renames; numerics; input/output | not modelled, see below |

The manager calls the indexes, the log and SysDB; the applier goroutine of each
HNSW index calls back into the bitmap index; `main` calls Flush at shutdown.
`main` also wires the cluster: the manager broadcasts creations and removals, the
gossip callback updates the detector, the ring and the collections, the
detector's callback takes nodes off the ring, and the request handlers read the
ring. The S3 log calls its store through admission control.
`PROJECT.json` lists every component with its status, and every hazard with its
line.

## Modules

* `VectorStore`: the promise. A durable map from ids to vectors; a write takes
  effect, or is refused, at one point; an answer of ok means that it took effect,
  an error of an insert that it did not; a crash never undoes it, and a search
  sees exactly the map.
* `FlatCollection`: one flat collection in detail. Durable state: `wal`,
  `meta`, `tomb`; memory: `rows`, `idToRow`, `docs`; `pc` is the progress of the
  one write that holds `col.mu`. One action per durable write of InsertVectors
  and DeleteVector (`InsertLog`, `InsertClearTombstones`, `InsertApply`,
  `InsertRefused`, `DeleteLog`, `DeleteApply`, `DeleteRefused`,
  `DeleteTombstone`, `Finish`), `Search`, and `Crash`, `Restart`,
  `ReplayEntry`, `ReplayDone`. `AppendBatch`, `SaveVectorMetadata` and the like
  are the log's and SysDB's transactions. Metadata is one row per key, so that an
  insert changes the keys it gives and no others. Every call may fail: the log's
  and `AddTombstone` end the write with an error (`LogFails`,
  `DeleteTombstoneFails`), the other SysDB calls are passed over with a warning;
  `lost` remembers which of those did not happen.
* `HnswCollection`: one HNSW collection while the process is up, with a write, a
  search and any number of drains in progress at once. `DrainTake` empties the
  buffer under `dirtyMu`, `DrainLock`..`DrainUnlock` hold `h.mu`, `DrainNotify`
  is the OnDrain callback; `RebuildGraph` is Rebuild. Layers and edges are left
  out. An unfiltered search walks over the entry point alone when its visited
  tracker is new from the pool (`FreshWalks`), over as many nodes as its beam
  holds when it is not (`BeamWalks`), over some of them when its context ends
  (`CutWalks`), and returns the live ones; a filtered search returns the entry
  point and any of the matching nodes. Graphs with pruned edges, in which a beam
  may not fill, are left out.
* `Recovery`: the manager over one log, with HNSW and flat collections, creation
  and removal in their two steps, the shutdown with its flush, crashes, and
  NewManager: loading snapshots and replaying the log entry by entry while the
  appliers run. It uses the results of the first two modules: a flat index is
  its rows, from which a delete swaps the last one in, an HNSW node is found by
  the last node of its id. Requests that outlive the timeout of the shutdown go on
  during the flush (`Serving`), and the flush's stamp is 0 when the log cannot be
  asked (`FlushBegin`).
* `ClusterView`: what a node may believe about the cluster. While it runs it is
  on its own ring; others come and go.
* `Membership`: gossip, the detector and the ring of every node, and one
  collection name. The receive loop's `HandleMessage` is cut in two (`Receive`,
  `Finish`) because the detector's goroutines and client requests run between
  the callback's update of the detector and that of the ring. `View` maps it to
  `ClusterView`, with `running` the nodes that are up.
* `HashRing`: the ring as a function from occupied positions to nodes, with the
  code's treatment of virtual nodes that hash to one position: a position
  another node owns is skipped, and removal frees the positions the node owns. Two
  virtual nodes of one node at one position count once.
* `Routing`: `ClusterView` and `HashRing` composed with the scoped handlers. A
  request is a set of tasks (local calls and forwards); `Split` is
  InsertVectorsScoped at the first node and at every receiver; `TimeOut` lets
  the request go on while the forward is still under way. A node is called at the
  address it gossips, which is its listen address: `place.named` are the nodes
  whose address names their host, and a call to any other arrives at its sender
  (`Host`). A search or delete with an X-Forwarded-For header (`marked`) is not
  routed, whoever sent it.
* `Replication`: an operation is one call per node (`Send`, `Serve` or `Refuse`,
  `Answer`, `GiveUp`), by one of two clients. "router" is WriteWithConsistency and
  ReadWithConsistency: parallel calls of the scoped handlers with an empty tenant,
  which those refuse. "peer" is ReplicaClient: one call after the other of the
  replicate handlers, which act on their own store; its reads decode a field
  that the answers do not have (`Decoded`). `Orphan` is a cancelled insert that is
  carried out after all, `Remove` a replicated delete. Nothing in the server calls
  either client.
* `VectorIndex`: what the IVF and the SPANN index have in common, the ids and the
  field `built`. An operation both have carries the index's name (`IvfInsert`,
  `SpannInsert`), and so do the specifications, as with `SegmentGC`.
* `Ivf`: `Tick` is the rebuilder's look at the buffer, `Drain`, `Collect` and
  `Swap` are the phases of RebuildCtx; Insert, Delete and Search are atomic under
  `idx.mu`.
* `Spann`: operations are atomic under `s.mu`; the centroid HNSW index has its own
  applier, and its searches are taken to reach its whole graph. `RebuildFails` leaves an unmapped store, whose next reader is `Fault`:
  the process dies and, the index not being persistent, starts empty.
* `Admission`: the slots of one prefix. `S3Log` extends it: each step of the
  writer (the holder of `w.mu`) and of the readers is one store call, made through
  admission, that fails or succeeds, before or after taking effect; none takes
  effect after its error was returned. NewS3WAL loads the manifest (`Open`) or,
  when the Get's error reads like a missing object, whether it is missing or not,
  puts an empty one (`OpenMissing`, `PutFirst`): a new log, for which the
  histories begin anew. A manifest's
  list of fragments is a set of ranges; the code walks it in the order of their
  first records (`Oldest`). `LeaveQueue` is the removal from the wait queue that
  a hand-over and a cancellation share.
* `SegmentGC`: `PinLookup`/`PinAdd` are Pin's two halves, `SweepBegin` to
  `SweepEnd` the unlocked steps of Sweep.
* `MC*`: the instances TLC checks. `*Proofs`: the theorems.

Operators commented as mutants (`IndexDeleteNoRemap`, `DrainTakeLazy`, ...) are
wrong variants of the definition that follows them. No specification uses them;
putting one in the place of its original makes TLC report the property it is
paired with in `PROJECT.json`, which shows that the property can fail.

## Runs

| Run | Question | Result |
|---|---|---|
| `flat_collection` | Is a flat collection a durable map, with one-vector requests, crashes and failed calls? | holds (465,048 states) |
| `hnsw_concurrent` | Do writers, searches, two drainers and a rebuild keep every vector, one live node per id, does every insert reach the graph, and what can a search miss? | holds (378,322 states) |
| `recovery` | Do collections and acknowledged vectors survive create/drop races, shutdowns, crashes and replays? | holds, with the exceptions below (3.7 million states) |
| `recovery_replay` | Is the full log replayed for a collection without a snapshot? | violated |
| `membership` | Does gossip end and reach everyone, do rings stay valid views, and is a created collection everywhere at rest? | holds (430,707 states) |
| `routing` | With rings that change under the requests: do forwards end, and is what was acknowledged stored, at one place, and found? | holds (1.7 million states) |
| `replication` | Is an acknowledged write on as many nodes as its level says, and does a node that has it answer the reads whose quorum meets its own? | holds (825,985 states) |
| `ivf` | Do rows, clusters and posting lists agree, and is nothing lost, around rebuilds? | holds (425,022 states) |
| `ivf_delete` | Does a delete during a rebuild last? | violated |
| `spann` | Is every id held once and reachable, around rebuilds that may fail? | holds (81,056 states) |
| `s3log` | Are the records acknowledged since the log was begun recoverable and reads complete, with failing calls, cancelled waiters and a crash? | holds (1.2 million states) |
| `segment_gc` | Does a pin keep its file, and is no marked segment forgotten? | holds (1.4 million states) |

What the two violated runs show, against the sentences quoted in `PROJECT.json`:

* `replayWAL` starts at the least snapshot position for every collection. A flat
  collection next to an HNSW one comes back empty from a clean shutdown.
* The IVF rebuild looks for deletes it missed among the ids that are still in
  the index. A vector deleted while it clusters is in its copy and comes back
  with the swap.

### Limits of the code the models show

Six more configurations reproduce disagreements between the code and its own
comments. They lie beside those of the runs and are not part of them: `tlc -config
<configuration>.cfg <module>` reports the property violated.

| Configuration | Module | Property violated | The comment it is about |
|---|---|---|---|
| `flat_batch` | `MCFlatCollection` | `AckedDurable` | "WAL first (durability guarantee)", `collection.go:621` |
| `hnsw_search` | `MCHnswCollection` | `WideBeamReachesAll` | "Uses a generation counter to avoid clearing the entire bitmap on each search.", `hnsw.go:92` |
| `routing_loop` | `MCRouting` | `NeverBack` | "Prevent infinite loops in case of misconfiguration", `forwarder.go:81` |
| `replication_read` | `MCReplication` | `ReturnsAllResults` | "Returns all results from responding replicas.", `replica_client.go:171` |
| `replication_router` | `MCReplication` | `FailsOnlyOnLoss` | "Return success if enough acks received, error otherwise", `replica.go:21` |
| `s3log_open` | `MCS3Log` | `NeverTruncated` | "Otherwise, bubble the error up to prevent manifest truncation.", `s3wal.go:119` |

* `flat_batch`: InsertVectors logs a batch as a whole and stops at the first
  vector the index refuses. The rest stays in the log, and a later acknowledged
  insert of one of its ids is replaced by the older vector after a crash.
* `hnsw_search`: Search does not start a new generation of the visited tracker it
  takes from the pool. In a new tracker all neighbours count as visited, and the
  search returns its entry point, however wide the beam.
* `routing_loop`: a node gossips its listen address, by default `:8080`. Who
  forwards an insert there calls itself, and the mark the forward carries against
  such loops is not read on that path.
* `replication_read`: ReplicaClient decodes `results`, the replicas answer with
  `data`; its reads succeed and are empty.
* `replication_router`: Router's quorum writes and reads name no tenant, and all
  nodes refuse them.
* `s3log_open`: NewS3WAL takes every error with "not found" or "404" in it for a
  missing manifest and puts an empty one over the stored one.

The modules state four further properties that the code does not have. They are kept
next to the properties that hold, because those say what is left:

* `HnswCollection.DeletedNotReturned` (with one metadata value): the
  bitmap-filtered search never looks at the deleted set.
* `HnswCollection.BitmapInSync`: a drain between `idx.Insert` and
  `SaveVectorMetadata` finds no metadata, and the vector never gets its bits until
  a restart rebuilds the bitmap.
* `HnswCollection.VectorsAsGiven` (with two vectors): Rebuild keeps the old
  vector slab, so nodes read other nodes' vectors. Nothing in the server calls
  Rebuild.
* `Recovery.FlushedSnapshotCovers`: the applier empties the buffer before it
  takes `h.mu`; a flush in between writes a snapshot without that batch, and
  replay skips it for good.

Others are visible in the other modules, as the exceptions their properties make:

* `FlatCollection`: an insert inherits the metadata keys that a failed or
  interrupted DeleteVectorMetadata left behind (`lost`), and an error of
  AddTombstone answers a delete that took effect.
* `HnswCollection`: an acknowledged insert of an id that is live or in the buffer
  is dropped by the drain, so `NoVectorLost` speaks of ids; beside the defect of
  `hnsw_search`, the beam may be narrower than the graph and full of deleted
  nodes, so `MissesExplained` counts what the walk did not reach as explained.
* `Membership`: after a stop, the Alive event of the new process may carry the key
  of an old event and be dropped; a node revived by an ordinary event after the
  detector declared it dead stays off the ring; a drop and a create that overtake
  each other leave nodes disagreeing. `AliveReachesAll` and `QuietAgree` are
  therefore about runs without these faults, while `RingTracked`,
  `RefinesClusterView` and `LoopsEnd` hold with them. `LoopsEnd` gives way only
  when the seen set overflows.
* `Routing`: a collection created by gossip has another id on every node, so
  forwards of the creator's requests are refused (`Homes`); once two rings
  disagree about an owner, or an id gets a new owner, a delete may miss the copy
  and a search may ask too few nodes, so `StoredAtOwner` and `SearchFindsAcked`
  speak of the time before (`settled`: every id has had one owner so far, the
  same on all running nodes). Agreement among the running nodes alone would not
  do: when a node stops and the last one left drops it, that one agrees with
  itself and owns ids that are stored elsewhere. Searches and deletes of a client
  whose proxy adds X-Forwarded-For reach one node only, without an error;
  `SearchFindsAcked` leaves the searches out. `AckedStored` holds throughout,
  `NoForwardLoop` where every address names its host. Why no forward loops there,
  although the receiver does not look at the `X-Forwarded-For` mark: a node
  forwards an id only to a node that is closer to it, going round the ring from
  the id's hash, than the node itself, and where a node stands does not depend
  on whose ring is asked.
* `Replication`: `AckedOnRequired` and `QuorumsMeet` speak of the operations that
  succeed, which only those of ReplicaClient can, and `QuorumsMeet` of what the
  replicas send, not of what the caller is given.
* `Ivf`: an id inserted again while the rebuild holds its copy gets two rows
  (`twice`), and a search during a rebuild does not see the drained vectors, so
  `SearchExact` speaks of the time between rebuilds.
* `Spann`: once a full disk has dropped the posting lists, which WritePostings
  does not notice, nothing is promised (`dropped`).
* `S3Log`: `AckedRecoverable` speaks of the records acknowledged since the log was
  begun, by an empty store or by the misreading that `s3log_open` shows.
* `Admission`: a cancelled waiter returns the slot it was handed without waking
  the next one.
* `SegmentGC`: a segment marked during a sweep is forgotten (`late`), and a pin
  that starts after the sweep looked at the counter does not keep the file
  (`fenced`).

Properties of the passing `recovery` run say exactly how far the design carries:
`QuietSnapshotCovers` (a snapshot is complete if no write and no applier batch
was in progress) and `RecoveryComplete` (nothing acknowledged is lost unless a
restart met an incomplete snapshot or started replay too late, recorded in
`suspect`). Both count an
insert as recovered when its id is served. Two facts limit what can be claimed
about deletes: a snapshot has no deleted set, and a replayed delete looks in the
graph only, so it is skipped while its insert is still in the buffer. Deleted
vectors can therefore come back after a restart, and a re-inserted id may come
back with its older vector; the model contains both and no property denies it.

### Bounds

* `flat_collection`: two ids, two vectors (one with a document), one vector of the wrong
  dimension, two metadata keys with one value, logs of three entries: enough for
  insert, delete and re-insert of an id with other keys, for a refusal of each
  kind, and for the swap of two rows. Crashes and failed calls are unbounded.
  `flat_batch`: batches of two, logs of four entries, no metadata.
* `hnsw_concurrent`: two ids, three writes, the applier and one flusher, one
  rebuild: enough for insert, delete, re-insert with two drains holding batches.
  No metadata, which only the filtered searches read. The beam holds one node;
  in `hnsw_search` it holds as many as there can be.
* `recovery*`: one HNSW and one flat collection, one id (the index, the buffer and
  the log treat each id by itself, and the proofs cover any number), one vector, three log
  entries, two restarts: enough for a write before a snapshot, one after it, a
  delete, and a second restart that builds on the first. `CHECK_DEADLOCK` is
  off because a stopped server may stay stopped.

* `membership`: three nodes whose seed lists form a cycle, so that an event needs
  two hops and comes back; three events, a seen set of two entries, so that it
  overflows; one stop, and one more kind of fault (a lost packet, an expired entry
  or a node found dead). Starts from nothing and from a cluster that formed long
  ago.
* `routing`: three nodes, two ids, two requests of any kind, one lost node, any
  number of joins; a placement with distinct positions and one in which two
  nodes claim a position, with addresses that name their hosts; in
  `routing_loop`, with the default address, and at most three forwards in a row.
  With two requests an insert runs beside a search, a delete or a second insert
  of the same id.
* `replication*`: three nodes, every subset of them as the ring of a call, every
  pair of levels and of clients, one write and one read.
* `ivf`: three ids, two clusters, rebuilds from one buffered vector on, at most
  four rows: enough for a rebuild in which K-Means has a choice, and for an id
  that a rebuild holds twice.
* `spann`: three ids, two vectors, up to three centroids, five inserts: enough to
  insert, delete, rebuild and insert again with another vector, twice.
* `s3log`: three appends of one or two records onto two sequence ids, two readers,
  one slot for three callers, one crash: enough for a retried append after a
  failed manifest write and for a hand-over that races a cancellation.
* `segment_gc`: two segments, two readers, a list of up to three, so that a segment
  can be marked twice and a cancellation come after one was kept and one was
  collected, and one counter more than segments, so that a counter is made again
  after a segment was swept.

Deadlock is not checked in these runs, because servers may stop and bounded
requests run out; `flat_*` and `hnsw_*` have it checked. Ids, nodes, readers and segments are symmetric in every run
without a liveness property, where the instance treats them alike.

### Fairness

`InsertsReachGraph` needs it (`HnswCollection.FairSpec`): the applier's ticker fires again
and again, so `DrainTake(Applier, FALSE)` is weakly fair, and a drain that
started continues, so each drainer's steps are weakly fair: they wait for
nothing but `h.mu`, which every holder releases, and Go's `sync.RWMutex` does
not starve a waiting writer. `Membership.FairSpec` assumes that the
dissemination ticker of a running node fires, that its receive loop takes packets
and finishes its callback, and that packets to a stopped process are dropped.
Packets may still be lost: losing one is a fault that `AliveReachesAll` excuses and
`LoopsEnd` does not mind. No fairness is assumed of clients, of starts and stops,
or of the detector.

## Proofs

The `*Proofs` modules are checked by TLAPS for every value of the constants. What
they assume is named in the module that declares the constants and evaluated by
TLC in every run: that the bounds are numbers, that the sets of nodes and of
clients are finite where something is counted (in `Routing` also that there is a
node), that the applier is one of the drainers, that HNSW collections are
collections, and that `None` is none of the things it stands in for (an id, a
log entry, a message, an operation, a request, a manifest, a vector, a cluster),
which Go's nil and zero values are not either. The invariants named below are
inductive. One theorem, `QuietNodesAgree`, has hypotheses of its own.

*Flat collection.* `TypeInv` adds to the types the shape of the request in
progress and `RowsMatchMap`; it is inductive because Insert's new row and
Delete's swap keep rows and map inverse (`TypeCorrect`, `RowsAlwaysMatchMap`),
and it yields `DocsAlwaysFollowIndex`, for batches of any size. For one-vector
requests, `LogInv` says that the index is the meaning of the applied prefix of
the log; the key lemma `LogStep` computes that meaning one entry at a time, by
the least live insert, without induction over the log. `AckInv` adds what each
step of a request has already made durable, or left undone behind a warning. They give `IndexAlwaysFollowsLog`,
`AcknowledgedIsDurable` and, with `store` the meaning of the whole log and
`pending` the write in progress, `ImplementsVectorStore`. The restriction to
one-vector requests is needed: with batches of two the statement is false.

*HNSW collection.* `Inv` joins the types, `DrainShape` (only a drain between its
locks or applying has a batch), one vector per node, `GraphMapOK`,
`NoVectorLost`, `SearchInv` and `MissesExplained`. `SearchInv` is the
strengthening: a plain search in progress has found, or will have before it in the
graph, every vector that was not in flight when it read the buffer. It survives drains
because a batch that is applied only makes ids live, and deletes because a write
waits for the search's `col.mu`. The theorems are `TypeCorrect`,
`OneLiveNodePerId`, `NothingLost` and `SearchMissesExplained`, for any number of
drainers and any beam.

*Recovery.* The log decides. Beside the types, `Inv` says where the steps of
creations, removals, writes and the flush are (`CatalogOK`, `WriterOK`,
`FlushOK`) and what the log has for what was acknowledged: the last entry of an
acknowledged vector is its insert (`PresentOK`). `HeldOK` is the strengthening
behind the snapshots: each insert in the log of an HNSW collection that no restart
left incomplete has its id in the graph, the buffer or the applier's batch, or is
still with its writer, or is ahead of the replay; `FlushedOK` follows it through
a flush. `ServedOK` is the same for acknowledged vectors of both kinds of index,
live, and is why a replayed delete harms nothing acknowledged: the log has an
insert after it that replay will not skip. What a batch does to an index is
proved by its least step that would not (`ApplyOK`). The theorems are
`TypeCorrect`, `NeverInvents`, `CollectionsAlwaysSurvive`, `QuietSnapshotsCover`
and `AcknowledgedServed`.

*Membership.* A node never tracks itself and handles no message of its own
(`NeverItself`, `HandlingOK`), so that neither its detector nor a Dead event takes
it off its ring; an Alive event has its node tracked before the ring is touched.
With `RingTracked` and the bounds of the sequence numbers this is inductive, for any
seed lists. It gives `TypeCorrect`, `RingAlwaysTracked` and, step by step, the
refinement `ImplementsClusterView`.

`QuietNodesAgree` proves `QuietAgree` where the configuration allows it
(`SeedsReach`): no set of nodes short of all is closed under the seed lists, the
fanout covers a seed list, and no more events are broadcast than a dissemination
buffer holds (500 in the code). Each is needed: with a smaller fanout a round picks
peers at random and the message is never sent again, and a full buffer drops its
oldest message. `GossipInv` holds as long as no fault has happened. `Passed`: what
a node has seen is in its buffer, in its callback, in flight to each peer or seen
there. `Counted` keeps the buffers from overflowing: a message is buffered once
per node, and there are no more messages than events. At rest the nodes that
have seen a create event are therefore closed under the seed lists, which takes the
place of an induction over paths, and `Created` says that each has the collection.

*Routing.* `MapOK`: every position of a ring belongs to the node placed there, and a
running node has all its virtual nodes on its own ring, because it was the first to
be added to it (`BuiltOK`, for every order of adding the others). A node that
forwards an id therefore knows that the receiver has a virtual node nearer to the
id than any of its own (`Closer`), whatever the rings of the two are; `PathsOK`
keeps this along the way of an insert where every address names its host, and
`ForwardsNeverLoop` follows because nearer is a strict order. `OwnersOK`, `DeletesOK`, `InsertsOK` and `SearchesOK` say of each
kind of task what it has still to do, and give `OnlyOwnersStore`,
`AcknowledgedStored` and `SearchesFindAcknowledged`. The attempt to prove the second
of these showed that an earlier, weaker `settled` was not enough (see the limits
above); TLC confirms it with two nodes and two changes.

*Replication.* `AcksHeld`: the answers counted for a write are no more than the calls
that have ended at nodes that hold it, until it is deleted, so a count that reaches
the level is a count of holders (`AcknowledgedOnRequired`). `ReadsOK` is the same for
the nodes a read has heard of; two sets of nodes whose sizes exceed the number of
nodes share one (`OverlappingQuorumsMeet`).

*S3 log and admission.* `SlotsAlwaysAccounted` needs only the types of the queue and
sets beside it. `LogInv` turns on a floor, the last sequence id below the append
under way: what was acknowledged is at or below the head of the stored manifest,
which is at or below the floor, and a fragment is only written above the floor. With
it, no two fragments of a manifest start at the same record (`OneByFirst`), so an
object is never overwritten while a manifest lists it, and `AcknowledgedRecoverable`
holds through failed and repeated calls. A log that is begun anew has nothing
acknowledged. `ReadersOK` follows a read through its
copy of the list, for `ReadsAlwaysComplete`.

*Storage.* `StorageProofs` has the theorems about `SegmentGC`, `Spann` and `Ivf`.
They are about one specification each; the three share only lemmas.

The segment collector: `PinsCounted` says that a segment whose file is there has
had at most one counter, and that it counts the readers whose pin is complete; so a
count of zero at the fence means no reader, and `SweepOK` carries this to the delete
(`FenceHeld`). Once the file is gone the counter may be made anew, and nothing is said
of it. `MarksKept` follows a sweep through its copy of the list: what it has passed
was kept or has no file any more, and the number of deleted files, from which a
cancelled sweep puts the rest back, never runs ahead of the position
(`MarksNotLost`).

SPANN: while no write was dropped and the store is mapped, `PlacesOK` says that
idToCentroid names the place of every posting and has none without one, `GivenOK`
that what is held and not deleted is what was given, and `NavOK` that a list with
postings has its centroid in the graph, in flight or in the buffer of the centroid
index. A failed rebuild ends this (the store is unmapped) and the restart begins it
anew. They give `SpannHoldsOnce` and `SpannFindsGiven`, for any vectors, number
of centroids and nearest centroids.

IVF: `RowsOK` and `PostingsOK` describe the main index for the ids outside `twice`,
and the row of every id holds it, inside too; they survive Delete because the last
row that moves gets its new place, and a rebuild because an id was drained once.
`Apart` keeps buffer, rows and drained copy disjoint, and away from what was deleted
outside of a rebuild. `Drained` has the reason why deletes during a rebuild do not
last: every id with a row was drained, so what Phase 2 collects is empty
(`IvfCollectsNothing`), and the fold of Phase 3 over it is the clustered index
itself. The theorems are `IvfRowsAgree`, `IvfNeverLost` and `IvfSearchExact`, for any
assignment to any number of clusters.

Only model-checked: liveness (`InsertsReachGraph`, `LoopsEnd`, `AliveReachesAll`),
which TLAPS cannot prove. The properties the code violates have no theorem, of course.

## Not modelled

Distances, k and the top-k heap, HNSW layers and edges, K-Means and quantization
(numerics); filters other than one equality; gRPC, tenants, API keys, rate limits
and clients; the log's `delayed` and `none` sync modes, in which a machine crash
may lose acknowledged writes by design; `Truncate` and `SnapshotCollection`,
which nothing calls; ForkCollection and export/restore. In `Recovery` an IVF or
SPANN collection is created and replayed like a flat one.

The coordinator and rendezvous hashing are constructed by nothing. The migration
worker is started with an empty source, so that only the trigger's change of the
ring has an effect. Compaction is started by nothing; its action file and its
recovery are worth a module once it is. The segment cache, the scheduler and the
event bus are single-lock data structures that no modelled part waits for. The S3
log has one writer: its compare-and-swap cannot be reached. A Put of it that takes
effect after its error was returned is not modelled either.

## Plan

1. Done: the core (`FlatCollection`, `HnswCollection`, `Recovery`), the cluster
   (`Membership`, `Routing`, `Replication`), the clustered indexes (`Ivf`,
   `Spann`) and object storage (`Admission`, `S3Log`, `SegmentGC`).
2. Done: the proofs of the safety properties of `FlatCollection`,
   `HnswCollection`, `Recovery`, `Membership`, `Routing`, `Replication`, `S3Log`
   with `Admission`, `SegmentGC`, `Spann` and `Ivf`, and of both refinements: every
   invariant the runs check has its theorem.
3. Left: `Compaction`: the action file and its recovery.
