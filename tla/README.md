# EO-DB in TLA+

Specifications of the concurrent core of EO-DB, a local-first, event-sourced
database whose spaces live in Matrix rooms. The live program is the browser
application under `src/github-matrix-dev/app/src` (paths below are relative to it);
the server under `src/src` is an earlier implementation that the repository keeps
as reference and is not modelled.

Everything here is checked with TLC on small instances; the theorems in the
`...Proofs` modules are checked by TLAPS for every value of the constants.

## 1. The system

A *space* is a Matrix room. Every change is an *event*: an operator (NUL, SIG, INS,
SEG, CON, SYN, DEF, EVA, REC) applied to a target. Folding the events, in the
order of the operators' *helix levels*, yields the state rows, the edges and the
derived indexes that the application reads.

| Component | State | Operations | Hard because |
|---|---|---|---|
| Block chain (`sync/block-sealer`, `encoding-claim`, `publish-events`) | `m.eo.block` messages, `m.eo.head`, the encoding claim, the timeline | seal the tail, publish a batch, claim | several clients, reads that lag behind, two requests per block, crash between them |
| Block hydration (`sync/block-hydration`, `Layout`, `BlockListSection`) | marker in localStorage, cursor in the snapshot, runs in progress | page-load run, listener's run, forced run, disable a block | overlapping runs, cursor and data saved at different times, dropped notifications |
| Local store (`store/eo-store`, `db/memory-store`, `db/mutex`, `workers/fold.worker`) | the in-memory map, seq counter, inbox of the worker, OPFS log, kv snapshot | dispatch, batchImport, flushToOpfs, manualSnapshot, boot | a fold is many awaits, the page dies anywhere, writes go through a worker |
| Fold engine (`db/fold`, `fold-core`, `fold-isolate`, `fold-pool`, `fold-worker-transport`, `fold-cache`) | rows, edges, helix positions, log | processEvent, processEventsBulk, processEventsBulkViaDispatcher, replayFromLog | groups interleave on one store, shards fold stale copies and are merged, an import is cut short |
| OPFS log file (`db/log-opfs`, `log-index`, `init-cache`, `workers/fold.worker`) | index file, payload file, init cache, checkpoint, legacy log | open, append, scan, migrate, save the cache | torn writes, a migration that dies, a cache that is taken for the log |
| Block swarm (`sync/projection`, `derived`, `scheduler`, `network-sync-*`) | the projection of each piece, requests in flight, events on their way to the fold | tick (expire, derive, schedule), judge a delivery, fold | late deliveries, a fold that refuses some decisions, decisions on a projection that lags behind |
| Peer sync (`matrix/peer-sync`) | each device's log and seq counter, to-device messages on their way | edit and broadcast, announce, offer, request, answer, fold a batch | messages lost, late, repeated; seqs that differ per device; two devices make one target |
| SyncManager (`matrix/sync-manager`) | offline queue | never constructed by the live application | |
| Whisper, WebRTC transport and routing (`matrix/whisper`, `webrtc-peer`, `transport-router`) | connections | connect, send, back off | loss, timeouts |
| Yjs collaboration, keys, permissions, Airtable ingestion, projections, UI | | | see `PROJECT.json`, "components" |

How they interact. The user interface calls `dispatch` on the local store, which
folds the event under the fold mutex; each `log:` key that is put is posted to the
fold worker, which appends it to the OPFS log. The sealer and the publisher move
events of the room's timeline into blocks. Hydration walks the chain of blocks back
from `m.eo.head`, hands their events to `batchImport`, folds the unsealed tail,
records how far it got and asks for a flush, which saves the map as a snapshot. A
page load rebuilds the map from snapshot and log, then hydrates. Beside the blocks, PeerSync
sends each new event to the other members and fills gaps with an exchange of messages; what it
receives goes through `batchImport` too.

What makes each part correct:

- chain: every block a reader can reach exists, the walk ends, blocks leave out and
  repeat no event, a sealed block stays reachable unless a stale head is written over it, nobody seals an event twice;
- hydration: what the cursor says is folded is folded, and what is in the room is
  eventually folded;
- local store: nothing that reached the disk is forgotten, nothing is logged twice,
  the log can rebuild what the snapshot holds, a flush returns;
- fold engine: the concurrent folds leave what the serial fold leaves, the log
  alone rebuilds it, and every target is instantiated before it is used;
- log file: an append acknowledged on a log that holds nothing unreadable can be read ever after, nothing that stands
  in for the log (cache, reported head) is behind those appends, and a migration loses nothing;
- swarm: no piece is asked from too many, the author's seal stands, and an attestation stands on that many deliveries;
- peer sync: an exchange leaves no gap, and does no harm however often it is repeated: one
  INS for a target, and before all else, no seq given twice, no entry moved.

## 2. The modules

### BlockChain, SealedLog, BlockChainProofs

`BlockChain` is the room and its clients. `view[c]` is what /sync has delivered to
client `c`, `op[c]` the sealing run it has in progress. A run is
`StartSeal` (sealNextBlock: read head and tail, test the threshold) – `WriteClaim` –
`ConfirmClaim` (the re-read after the jittered wait) – `SendBlock` – `AdvanceHead`, or
`StartPublish` (publishEoEventBatch: an empty tail, no claim) and the last two. `Abort` is a
request that fails, `Restart` a page that dies or is reloaded, `ClaimExpires` the
claim's TTL. The i-th timeline event is the number i, and a block is the range
`lo..hi` it seals, with its chain index and its predecessor. `Sync` delivers any later state of the room to a client, so that every
read may be stale; `LiveWindow` is how much of the timeline a (re)started page shows.

`SealedLog` is the abstract specification: a log of segments which at any time is some earlier version of it with one
segment more, one that takes up the timeline where that version stopped. Several clients with stale views implement it
(`ImplementsSealedLog`, with `log <- Segments[head.latest]` and for `versions` every chain that the head ever named): they may drop each
other's segments, but never leave a chain that nobody had built on.

### BlockHydration, BlockHydrationProofs

One device and a room that others write. `marker` is the cursor in localStorage,
`saved` the device's storage (events and the snapshot's cursor), `mem` what is folded
in memory. Three runs (`boot`, `ingest`, `reapply`) go through walk – apply (one step
per block) – tail – mark – flush, as hydrateBlocksIfStale, hydrateFromBlocks and the
callers' flush do. `DropUpdate` is the listener's early return while a run is in
flight. `FailRun` is a download or a batch that throws. `LoseUnsaved` says whether the page may die
before its folds are saved; `MaxUpsets` bounds toggles, forced runs and failures together. `used.off` is a history:
the blocks that were ever disabled, which a run may have left out and the marker passed.

### LocalStore, LocalStoreProofs

The map `kv` (its `log:` and `idem:` keys and the set of executed events), the seq
counter, the fold of each event as the stages taken – logged – keyed – executed, the
gate, the flushes (quiesce – waiting – drain – read – capture), the worker's FIFO `inbox`, the queue of saves, the OPFS log, the snapshot file and the boot. `Reload` may come at
any point: what the worker has not written is gone. `Overlap` says whether folds go
on while a snapshot is taken.

The gate is as in the code: `foldsInFlight` counts the batches that have called enterFold, before they ask for the fold mutex and
between their chunks (`EnterFold`, `BatchImport` for one chunk, `ExitFold`), so that batches overlap; a flush that finds
some inside goes to sleep (`FlushWaits`, the entry in `foldQuiescentWaiters`), the last one out wakes all (`Woken`), and
each looks again. Batches may come and go without end: `MaxBatches` bounds only how many are inside at once.

### BulkFold, BulkFoldProofs, BulkSerialProofs

How a batch is folded. `processEvent`, `SerialFold` and `replayFromLog` are functions on
a store value and serve as reference. An import is cut into waves (`sortByHelixLevel`),
expanded with synthetic INS (`Expanded`, event by event `Visit`), given its seqs (`Reserved`) and split into steps (`splitWaveIntoSteps`).
In mode `shared` each target of a step is a group whose events go through
check – log – (read, write)* – end, interleaved with the other groups; a row is written
whole from the copy that was read. In mode `isolated` the store is snapshotted
(`ShipStep`), the shards fold their targets on the copy (`ShardRun`), and their rows are
put into the store in shard order, followed by the refresh of the metrics of CON
destinations (`MergeStep`). `RejectImport` and `RejectStep` are an INS over an existing
target: a shared import gives the mutex back while its other groups run on.

Abstractions: a row is what each operator last set, with the two caches (metrics as
the set of edges they were counted from, trajectory as the sequence of events); the
log key, the idem key and the edges of an event are put in one step; a synthetic INS
has the id 0, as its real id is never seen twice. `IdsAssumption` says that two events never have the same id: `client_event_id`
is the hash of an event's content where the caller gave none (`fold.ts:1046`). `EdgesAssumption` says that only CON brings
edges (`handleCON`, `fold.ts:1377`), as those of a SYN merge are left out. Left out: SIG, SYN merges and
aliases, removed edges, formula registrations, REC detection and derived entities,
and single dispatches beside the groups a rejected import left running.

### OpfsLog, AppendLog, OpfsLogProofs

The files are sequences of cells. A record takes `Stride` cells of `idx` and points at the
`PayLen[e]` cells of its payload in `pay`; a cell says which part of which record or payload
it is, and `Readable` is what decodeIndexRecord, the range check of scanLog and msgpack's unpack make of
cells that do not belong together. `log` holds the counters of the open log, which appendEvent
advances only after both flushes, `index` the worker's index, `cache` and `ckpt` the two files that
spare it a scan. An append is `Request` – `WritePayload` – `WriteRecord` – `Acknowledge`, an open `StartOpen` –
`FinishOpen`, preceded by `StartMigration` – `MigrateRecord`... – `CommitMigration` while there is a log.bin. `Kill` may come
between any two. The `Faults` say what may fail: "throw" makes each write able to fail, leaving a prefix of its
cells, and flushes too; "truncate" makes the best-effort truncates of the migration and of every scan able to fail, and "unlink" the removal of log.bin.
A scan that stops at a record it cannot read cuts the file there and sets the counter back, or, if the truncate throws, leaves
both (`ScanLeaves`); one that stops at less than a record at the end cuts nothing. With `ReuseSeqs` the main thread counts on from fewer
seqs than the log holds, as it does after replayFromLog has renumbered a log with gaps. `acked` is a history variable.

With all this the code does not keep every append it acknowledges (OpfsTorn). What it does keep are the appends that were
acknowledged on a clean log (`Clean`): log.bin is gone, and every record below the counter can be read from the payload below
its counter, so that there is nothing a scan may cut or a later append overwrite. A history bit of each acknowledged append says so, one of the cache
(`whole`) that it held all of a clean log when it was saved.

`AppendLog` is what LocalStore takes the log for: what it holds only grows, and what was promised is in it. The two files implement it
(`ImplementsAppendLog`) up to the last append acknowledged on a clean log (`Durable`). What was not acknowledged, or rejected, but written before
such an append may be in it too.

### Swarm, SwarmProofs

One device and one piece: every event changes one piece only, so the others show in the tick, where
they decide the fan-out (`Fanouts`) and which eligible peers have no budget left (any subset may be
picked). `piece` is the worker's projection, `flight` its in-flight entry, `asked` the requests
that a peer may still answer, late or not, `queue` the emitted events that the main thread has
yet to fold, `folded` what it folded. `Report`, `OtherReport`, `Instantiate`, `PromoteEvent` and
`FoldEvent` are onFoldedEvent, and `Deliver` is onInboundBulk, each with the
tick it ends in. `holds` is chosen at the start: the hash that each peer has and advertises.

The module is the system as `network-sync-wiring.ts` connects it, which differs from what the worker was written for in three ways:

- frames go to the worker with the hash that their sender claims (`network-sync-wiring.ts:186,193`). The bridge's comparison with the bytes
  (`network-sync-bridge.ts:152-179`) is never called, though `network-sync-bridge.ts:15-18` says that bytes "are hash-verified **before** the worker is
  told about them". A sender repeats the hash it was asked for, so a delivery fails only when it answers an earlier request (`Accepts`), and
  what the projection calls verified is what was claimed;
- validateEvent refuses every REC (`db/validate.ts:13`; the exemption for sync targets in `db/fold.ts:1203-1207` comes just before that
  check), so that no blacklisting and no loss ever reaches the projection (`Refused`);
- nothing calls `client.tick` or `client.reportDcState`: the worker ticks only when something is reported to it, `OtherReport` being the report of an
  event of another piece. Nothing makes it tick in a quiet room, so no liveness is claimed.

### PeerSync, PeerSyncProofs

The devices of one space, each of another user, as devices of one user send each other nothing. `store[d]` is a
device's seq counter and its log, as the seq of each event in it; rows are what the log gives. `net` holds the
to-device messages on their way, taken in any order and one at a time (`handlerChain`). `Dispatch` is an edit with the automatic
INS it may need and their broadcast, `Announce` the hello at start and heartbeat, `HandleHello`, `HandleOffer`,
`HandleRequest` and `HandleEvents` the four handlers, `Lose` a message that nobody listens for or that is never sent. An
event is its id: an automatic INS (`Synthetic(d, t)`) has an id of its own on each device, as it holds a timestamp.

`Imported` is processEventsBulk as `batchImport` calls it for up to 50 events: the INS wave, then the DEF wave with the pre-pass
(`Expanded`), each with a seq for every event, known ones included (`Reserved`), and the end after the first wave when an
INS has thrown. In `Expanded` an automatic INS has an odd place, just before the first event of its target. `FoldWave` is one step, as
imports hold the fold mutex; how its groups interleave is BulkFold's subject. `due` is a history variable: what a device has
been offered in full, by whom, until a message of that exchange is lost.

Left out: the WebRTC path for gaps over 500 events, encryption and missing keys, peers that send no fingerprint, operators other
than INS and DEF, the time between reading the seq and the fingerprint.

The MC modules only give values to constants.

## 3. The runs

| Run | Instance | Shows |
|---|---|---|
| ChainRaces | 2 clients, 2 events, 2 blocks, 2 claims, stale views, a live timeline of 1 event; symmetric | chain well-founded and linked, head names a posted block and the root of its chain; blocks drop off only by a stale head; refinement of SealedLog |
| StoreQuiet | 3 events, 4 seqs, 2 page loads, failing appends, no overlap | nothing on disk is forgotten, logged once, seqs fresh |
| StoreLive | 2 events, 2 seqs, 3 batches inside the gate, 1 flush, 1 page load, full overlap, unreadable snapshots; fair | the log backs the snapshot, folds reach the log, no wake-up is lost, flushes return once no batch enters |
| StoreFlushRace (violated) | 2 events, full overlap | an event in the log whose effect no later boot brings back |
| HydrateRuns | 2 events, 2 blocks, 2 page loads, 1 toggle, forced run or failure; fair | cursor and marker never pass an unfolded block that was never disabled; a page load catches up |
| HydrateCrash (violated) | 1 block, page death before the save | marker at a block that is nowhere folded |
| BulkImport | 2 targets, 2 shards, 8 batches of up to 3 events, 2 imports, 1 dispatch, both modes | concurrent folds equal the serial one, replay rebuilds, INS before use |
| OpfsFaults | 3 events, one with 2 payload cells, records of 2 cells, log.bin with a corrupt tail, 2 opens, seqs handed out again; kill, throw, truncate, unlink | clean acknowledged appends stay; a whole cache is fresh, the head covers; the migration loses nothing; refinement of AppendLog |
| OpfsTorn (violated) | the same without log.bin; kill, throw | an acknowledged append behind a part of a record is cut off |
| SwarmRounds | 2 peers, one of them the author, 2 hashes, fan-out 1, attestation by 2, 3 events in the queue | fan-out, seal, attestation |
| PeerExchange | 2 devices, 2 targets, 4 edits, batches of 3, 6 seqs, announcements while nothing is on its way; symmetric | one INS per target, before all else; seqs distinct, entries stand, gaps filled |
| PeerPoison (violated) | 2 devices, 2 edits of 1 target that nobody instantiates | a user's edit in a batch that an automatic INS makes throw |

Why the bounds are enough. Two clients and two blocks give every race on one head:
two genesis blocks, a fork, a takeover of an expired claim; with a third block nothing new
meets, and the proofs cover the rest. A live timeline of one event is enough for a first block that
begins in the middle and for a cutoff that is no longer shown. In the store two events let a fold overlap a flush and another
fold; three are needed without overlap, for a batch beside a logged event. Three batches inside the gate let
the count fall and rise without reaching 0 while a flush sleeps; one flush is enough, as flushes share nothing but the count. Two blocks let
a marker be at the first while the second is folded, and two page loads a cursor
from one be used by the next. Two targets and two shards are what a CON needs to
cross from one to the other; two imports let the second start beside the first one's
remains. In the log two opens let a cache be written in one, outgrown or cut down, and
looked at in the next, and a migration be cut off and begun again, or repeated over what was appended when the unlink failed; records and a payload of two cells can be
torn, read from the middle and written over. In the swarm two peers are what a switch to another peer
and an attestation by two need, and a fan-out of one makes every request exclude the others; a second hash is a peer that has
something else, and three events in the queue are a definition, an attestation and a delivery that the projection does not know of yet. Larger fan-outs and more
peers are covered by the proofs. Between devices two edits of one target give two automatic INS for it, two edits that declare another
target give two INS without any, which may be made before the answer was offered or after; batches of three cut an automatic
INS from the edit behind it. An announcement
waits until no message is on its way (`MaxNet`), but the four messages of an exchange meet each other and the
broadcasts of later edits; the properties are proved for any number of devices and messages.

Deadlock is not checked in BulkImport, OpfsFaults, OpfsTorn, SwarmRounds, PeerExchange and PeerPoison: after the last import, or the
last open, or once the piece is fetched or the seqs are used up, the model has nothing to do.

Fairness. `StoreFairSpec`: the event loops of the page and of the worker run every
continuation that is due, and a batch comes to its end (`ExitFold`); nothing is assumed of dispatches, flushes, page loads or that batches stop
coming. The page may be closed for good only by a reload in the model, which is why
`FoldedGetsLogged` allows the event to be gone. While batches overlap for ever the count of the gate need never be 0 and a flush sleeps on, as the
comment at `eo-store.ts:117-121` half admits; `FlushReturns` is therefore claimed for behaviours in which at some time no new batch
enters. `HydrFairSpec`: /sync goes on, the listener's timer
fires and the steps of a run end; `BootCatchesUp` promises nothing once a run failed or a block was
disabled, because a run that fails is not retried. The other specifications state no fairness.

What the violated runs show is described under "findings" in `PROJECT.json`, with
the sentence of the code that says otherwise:

1. **StoreFlushRace**: manualSnapshot does not wait for folds, and a dispatch does not enter the gate at which flushToOpfs waits. A snapshot
   may be captured when a dispatched event has its seq and its `log:` key, which is posted to the log ahead of the snapshot, but not its
   `idem:` key and its effect. The snapshot claims the event's seq, the next boot finds the log's head at that seq and replays nothing:
   the log holds the event, the rows never show it.
2. **HydrateCrash**: the marker is durable before the folds it stands for.
3. **PeerPoison**: a batch from a peer is one import. Two users edit one target, and each device puts an automatic INS
   of its own before the edit. The exchange sends one batch with the sender's INS and both edits; the INS throws, and the sender's edit in
   the batch is never folded, though the handshake goes on as if it had been.
4. **OpfsTorn**: a failing write leaves a part of a record. The next open takes the file's size for `idxBytes`, and the scan stops at
   the short read without cutting it off, so that the next append goes behind the part, off the stride, and is
   acknowledged; the scan after that cannot read what begins with the part and truncates the file there.

Known limits that no run shows, each met while the code was modelled:

- a crash between the block message and the head update makes the next run seal the same events into a
  second block (`block-sealer.ts:374`; 19-21 says it "advances head without re-sealing");
- the listener drops an update that comes while its run is in progress, and nothing runs after it
  (`Layout.tsx:1851`; `block-hydration.ts:671-673` says new blocks fold automatically);
- the metrics refresh of a CON rewrites the destination's whole row, also when another shard owns it
  (`fold-cache.ts:250`; `fold-worker-transport.ts:39-40` says shards write their own key space only);
- the init cache holds as many entries as there are distinct seqs (`fold.worker.ts:126`). A page that dies with a batch half
  appended leaves a log with a gap; its replay renumbers (`fold.ts:2276`; 2251-2253 says seqs have no gaps), the next event gets
  a seq that is in the log already, and a cache written then lacks the last entry, though `init-cache.ts:6-8` calls it complete
  when `log.size` matches. `CacheFresh` and `HeadCovers` leave such caches out; LocalStore assumes a complete index;
- an append that is acknowledged behind a record which the scan could not read and could not cut off either (`log-opfs.ts:549-553, 563-567,
  578-583`), or while log.bin is still there because its unlink failed (441), is lost at a later scan or migration. The properties
  of OpfsFaults claim the other appends, and name the condition (`Clean`). A write that returns a short count without throwing, which nothing looks
  at (467, 483), is not modelled;
- the live wiring believes the hash that a sender claims, and validateEvent refuses every REC, also those that `fold.ts:1203-1207` says must be
  accepted, so no peer is ever blacklisted and "re-run scheduler to pick another peer" (`network-sync-worker-core.ts:436`) may pick the same
  one for ever. What a peer delivered under another hash than the one that was asked for last is verified under that hash: two
  deliveries of different hashes by one peer let two definitions wait, so that a piece which the author's hash defines may be defined
  otherwise until the seal's own definition is folded. `SealStands` therefore speaks of a piece once that one is folded;
- the fingerprint of peer sync is made of seqs, as no row has a hash (`hash.ts:80`). Devices with the same rows differ in
  it, contrary to `hash.ts:69-71`, and exchange everything at each heartbeat, using up a seq for every event they know
  already; two offline edits of one target that got the same seq give the same fingerprint and are never exchanged, contrary to
  `peer-sync.ts:10-12`. Of two edits of one field the one that arrived last stands, so devices may differ for good;
- the scheduler asks the author whenever it picked nobody, also when an advertiser's answer is still
  waited for, and past the per-peer cap (`scheduler.ts:13-14,31`, 146).

The invariants that fail in these runs are checked in the passing ones under the
condition that excludes the case: `NothingForgotten` without overlap, `MarkerCovers` when unsaved
folds are not lost, `ImportEqualsSerial` when no two groups meet in a row (`Meets`), `AcksReadable` as `CleanAcksReadable`, for appends
acknowledged on a clean log, and the exchange as `GapFilled`, which leaves
out devices that have each made a target, be it after the answer was offered: its batches may be cut so that an INS made later
travels with what was offered.

## 4. What is proved

All theorems assume only the module's named ASSUME and what is stated here.

- `ChainTypeCorrect`, `StoreTypeCorrect`: the type invariants.
- `ChainIsGrounded`: `ChainGrounded`, for any clients and bounds, whatever is stale or lost. The
  invariant alone is not inductive, since a run works from a head it read long ago.
  `GroundedInv` adds that *every* head anyone holds – the room's, the one delivered to each
  client, the one each run started from – describes a posted block (`HeadDescribes`), and that a run
  that has sent its block and is about to write `m.eo.head` finds that block in the room
  as it was sent (`RunDescribes`). `HeadStable` is the lemma it turns on: appending a block changes nothing
  of what an older head describes.
- `ChainIsLinked`: `ChainLinked`, for any clients and any live timeline. `LinkedInv` adds that each run seals from its head's cutoff on,
  if it has one; a run without takes what its timeline shows, which is where events are left out before the first block that covers some.
- `GenesisIsTheRoot`: `GenesisIsRoot`, for any clients and bounds. `RootedInv` says of every head that anyone holds that the
  genesis it records is in the chain it names and has no predecessor, and of a run that sent its block that the block is in the
  room as it was made (`RunsSent`). The chain is the recursive function `Chain`. That it has the value its definition states is not given to a
  prover: `ChainFunction` shows it, by the least block for which no function would do, and `ChainStable` that it never changes
  for a block that was posted.
- `BlocksAreLostOnlyToStaleRuns`: `LostOnlyToStale`, for any clients, views and crashes. A head moves only when a run writes the head it
  made (`HeadMoves`); the block of that run points at the head it started from (`RunsSent`), so that the chain of the new head has all of
  that one's, and loses something only if the head in the room was another by then.
- `ChainImplementsSealedLog`: `ImplementsSealedLog`, for any clients, views and live timeline. `VersionsInv` says that every head a view or a
  run holds names a chain that the room's head named at some time, so that a run extends a version of the log. Each step moves the
  head to a block that takes up the timeline where that version stopped (`SealSegment` of SealedLog), or leaves head and versions as they are.
- `NoWakeUpIsLost`: `WaitersAreWoken`, for any number of batches and flushers and all interleavings.
- `SnapshotIsBacked`: `SnapshotBacked`, assuming that appends do not fail. `BackedInv` says
  that whatever a map holds is in the log *or in an append message ahead of it in
  the inbox*, for the map in memory, for each save in the inbox (appends in front of
  it), and for each save being written (in the log already). FIFO delivery is all it uses: neither the drain nor the
  gate is needed for this property.
- `NothingIsForgotten`, `NothingLoggedTwice`, `SeqsStayFresh`, `MapLogStaysComplete`: `NothingForgotten`, `LoggedOnce`, `SeqsFresh`
  and `MapLogComplete`, assuming `Overlap = FALSE` and `ReadFaults = {}`, i.e. that nobody folds while a snapshot is taken (StoreFlushRace is
  what happens otherwise) and that what is stored can be read; appends and saves may fail and the page may die at any point.
  `QuietInv` looks at all entries and all snapshots, on disk or on their way (`Entries`, `Saves`): whatever is in an
  entry is in a snapshot's map or has a higher seq (`SavesSound`), so that the scan of the next load posts it, although the replay
  renumbers what it folds and failed appends leave gaps; a seq that is taken is above those of all snapshots (`TakenSound`), which keeps
  this true of entries yet to come; and what the scan has passed is known (`ReplaySound`).
- `HydrTypeCorrect`: the types of hydration, and (`WithinChain`) no cursor or run ahead of the chain.
- `MarkerHonest`, `CursorHonest`: `MarkerCovers` and `CursorCovers`, assuming that the page is not closed over unsaved
  folds (HydrateCrash is what happens otherwise), for any chain, window, page loads, failures, forced runs and toggles. A run
  may set the marker to a head it read long ago, from a stop block it took from a marker that is gone. `HydrInv`
  says what makes this harmless: every run's stop block is covered by what is in memory (`Held`), of the blocks up to its head a
  run lacks only those it has yet to fold, and a run past its last block holds its head (`RunHolds`). `Held`
  stays true when the chain grows, more is folded or more blocks are disabled (`HeldStays`), so that the runs need know
  nothing of one another.
- `OpfsTypeCorrect`: the types of the log files.
- `CleanAcksStayReadable`, `TakenCacheIsFresh`, `LegacyLogIsKept`, `HeadIsNotBehind`, `FilesImplementAppendLog`: `CleanAcksReadable`,
  `CacheFresh`, `MigrationKeepsAll`, `HeadCovers` and `ImplementsAppendLog`, for any events, payloads and records of any length, any
  log.bin, any faults, with or without seqs handed out again, and any number of opens. A failed append leaves cells behind the counters
  that may look like anything; the next append, the next open or the next migration meets them. `OpfsInv` therefore says that the files have a
  base (`Base`): so many records and so much payload that every record among them can be read from that payload, which
  holds every clean append, whatever a whole cache was written for, and what log.bin held. The counters of the open log are not below
  it, so that nothing is written into it (`Behind`), and no scan, wherever it stops and whether or not its truncate throws, cuts into it
  (`LeavesSolid`). An append acknowledged on a clean log makes the base reach up to the counters (`CleanAppend`, `StepAcknowledge`), and a
  clean log that is cached is the base (`WholeCache`). While log.bin waits to be migrated, nothing was acknowledged or cached clean
  (`Lasting`), so that the migration may begin anew. What a scan reads below the last clean append is then the same from step to step, or
  longer (`DurableStays`, `DurableGrows`), which is the refinement.
- `SwarmTypeCorrect`: the types of the swarm.
- `AttestationsStand`: `AttestedByMany`. `CountInv` adds that whatever the projection takes for verified was folded (`Counted`), and that an
  attestation which waits in the queue has its deliveries folded already (`Stands`). A peer may deliver another hash later, which takes its first one
  from the projection; what it was counted for stays folded.
- `FanoutHolds`: `WithinFanout`. `FanoutInv` says that the entry in flight is finite and within a fan-out; a tick that finds
  no room adds nobody, though the fan-out it goes by may be the smaller one.
- `SealOutlasts`: `SealStands`, for any peers, holdings and threshold. `SealInv` looks at the order of the queue: behind a definition by
  the seal that waits, only such definitions wait (`LastWord`), as a tick that knows the author's hash derives nothing else and no event
  is emitted twice; and once it is folded, no other definition waits at all and the piece is defined so (`Sealed`).
- `PeerTypeCorrect`, `OneInstantiation`, `SeqsStayDistinct`, `TargetsConstitutedFirst`, `EntriesStandStill`: the five safety
  properties of PeerExchange, for any devices, targets, edits and batch size. `SyncInv` joins them, as none is inductive alone, and adds that
  the batches on their way are sound too: no seq twice, one INS for a target. `FoldWaveKeeps` is the lemma they turn on: a sound
  store that folds sound entries, each behind an INS in the store or among them (`Prepared`), stays sound. `ExpandedSound` says that the
  pre-pass prepares its entries, and `RankFacts` that places among entries keep their order, which is an argument on
  the cardinality of finite sets.
- `GapsGetFilled`: `GapFilled`, for any devices, edits and batch size, whatever is sent, lost, late or repeated beside the
  exchange. `FillInv` says of every event that was offered in full (`due`) that the device has it, or that a message on its way brings it
  or leads to one that does (`Pending`: the offer, the request for everything, a batch with it), or that the two devices have
  each made a target, for good (`Blocked`). `ImportedGrows` is the lemma on the bulk path: it folds all of a batch, or the log clashes
  with the batch; `BatchesCover` says that the batches leave nothing out.
- `BulkTypeCorrect`, `ImportsConstituted`: `TypeOK` and `ConstitutedFirst` of BulkFold, for any targets, any number of shards
  and any assignment to them, any batches and dispatches. `BulkInv` follows an event from the pre-pass to the log: every
  operator that is planned in a step or waits in a group is `Covered`, by an INS that is logged under a lower seq or by a
  synthetic one ahead of it for the same target; steps and groups are in seq order; and a target whose INS the pre-pass takes
  for granted (`insed`) has it in the log or ahead (`PlanFine`). An event may leave a group only when it is `Settled`, i.e.
  has an entry, under its own seq or an older one, and a synthetic INS under its own. Ids and helix positions in the store
  come from the log (`Sound`), so that a skipped event and an omitted synthetic INS rest on an entry that is there. An import
  that rejects leaves groups that need nothing of the import (`GroupFine`), and for the shards the snapshot only has to be a
  past state of the store (`PhaseFine`): the merge appends all that a shard logged, in whatever order, which changes no seq
  (`MergingKeeps`).
  The folds (`FoldLeft`, a recursive function over sets of indices) are unrolled to the states they go through:
  that such a function exists is shown, not assumed (`FoldExists`), and from then on a property of all states on the
  way is an argument by the least counterexample (`UpTo`). With it the serial fold of `Dispatch`, the pre-pass, the
  split into steps, a shard's run and the merge are each treated step by step.
- `ReplayIsFaithful`: `LogRebuilds`, for the same values and any interleaving of the groups, on top of `BulkInv`. While groups are
  at work the log is ahead of the rows, as an event is logged before it is applied. `RebuildInv` says where the replay of the
  log stands then (`Follows`): on the rows that a group's logged event reaches it is the store with the operations that group
  has left done, elsewhere it is the store. So logging an event does to the replay what the group will do to the rows
  (`LogEvent` extends the log, `ReadRow`, `WriteRow` and `DeclareTarget` shorten what is left), provided that
  groups keep out of each other's rows: the pending events of different targets reach different rows (`Apart`), which follows from
  the absence of `Meets` when the import began (`History`: the waves left are the last of that batch, no helix position went
  away), and the destinations of a pending CON are declared (`Brought`), so that no synthetic INS of another group makes
  their rows. The replay itself has a row wherever an INS is logged (`RowsOn`) and counts each row's
  metrics from the final edges (`Fresh`), which is why a log in another order of the groups gives the same. For the shards, the run of each on the
  snapshot is compared with the same events folded on the merged store, in lockstep (`Beside`), and the merge shard by
  shard with the replay of the log so far (`Partly`).
- `ImportsAreSerial` (BulkSerialProofs): `ImportEqualsSerial`, for the same values, on top of `BulkInv` and `RebuildInv`. The import and the serial
  fold log the events of a wave in different orders and under different seqs, so that the logs cannot be compared entry by entry. What can
  is the `Ledger` of a target: the events that a log has on it, in order and each once. Two stores that each equal the
  replay of their log and have the same ledgers show the same (`SameLedgersSameLook`): an operation that writes its own row needs only
  that row, the target's edges and its helix position (`Twin`, `CoreTwins`), another target's event changes none of them (`ReplayTwins`), and
  the metrics, which do depend on others, are counted from the final edges. The serial fold of a wave notes on every target what
  the pre-pass planned for the wave (`WaveLedger`): it makes a synthetic INS where the pre-pass has put one ahead (`SerialVisit`).
  `SerialInv` is the lockstep (`Lockstep`): at any time the ledger of a target, continued with what its group has still to log (`Owed`) and
  then with the steps to come in seq order, is the one that the serial fold has after the waves that were started.
  A group that logs an event moves it from what is owed to the ledger; the merge of the shards notes a whole step
  at once (`StepLedger`); a new wave adds to both sides the same. That a wave's steps are in seq order and groups keep to their own
  targets comes from `BulkInv`. As in the property, an import that rejected or whose groups meet in a row is not compared.

Only model-checked: the liveness properties (`FoldedGetsLogged`, `FlushReturns` and `BootCatchesUp`), which TLAPS cannot
prove, as it does not reason about ENABLED. Every invariant and action property of a passing run, and both
refinements, are proved.

## 5. How the project grew, and what is left

The chain came first because it is shared by all devices and cannot be
repaired, then what one device may lose (LocalStore, BlockHydration, OpfsLog), then the fold, then
the swarm, whose worker decides on a state that lags behind, and the exchange between devices.

Candidates, in order:

1. BulkFold extended by SYN merges and by REC and derived entities.
2. A composition of BlockHydration with LocalStore, and of LocalStore with OpfsLog's init cache.
3. PeerSync with the WebRTC path and its fall-back, and with devices that lack a key.
4. Swarm with a worker that restarts, with events that other devices derived, and with the bridge's comparison once the wiring calls it.
5. The resumable Airtable hydration and its checkpoints.

Theorems: none of the properties above is left but liveness; each candidate brings new ones.

## 6. Not modelled

- SyncManager with its offline queue: the live application never constructs it.
- Whisper, WebRTC transport, the Yjs provider, key delivery and the resumable Airtable
  hydration: protocols of their own, left for further modules.
- Of the swarm: the serving side (token bucket, pending reads), EVA events, the reputation of peers, events that other
  devices derived and broadcast (`network-sync-wiring.ts` sends them, `derived.ts:5-6` says they stay local), the live tail,
  a worker that restarts, the bridge's hash comparison (no caller), the order in which pieces are served.
- Of the log: the tries and per-operator arrays of the index, and the fold position apart from its seq.
- Of the fold: SIG, SYN merges and aliases, removed edges, formula registrations, REC detection, derived entities.
- Byte formats and hashes (no control), the GPU path and projections (read only), permissions (pure functions), the user
  interface, the homeserver and external services (pure I/O), the cryptography, and the earlier server under `src/src`.
