----------------------------- MODULE LocalStore -----------------------------
(***************************************************************************)
(* One device's store of a space: the in-memory key-value map that the     *)
(* fold engine writes, the fold worker that keeps the append-only OPFS log *)
(* and the kv snapshot, and the page load that rebuilds the map from the   *)
(* two (app/src/store/eo-store.ts, db/memory-store.ts, db/fold.ts,         *)
(* workers/fold.worker.ts).                                                *)
(*                                                                         *)
(* The fold of an event is several steps with an await between any two:    *)
(* its seq is taken, its log: key is put (and posted to the worker), its   *)
(* idem: key is put, its operator is executed.  A flush is several steps   *)
(* too, several flushes may be in progress, and nothing but the count of   *)
(* running batches keeps folds and flushes apart.  The page can be closed  *)
(* between any two steps: what the worker has not written is gone.         *)
(***************************************************************************)
EXTENDS Integers, Sequences, FiniteSets

CONSTANTS
  Events,         \* the events, named by their client_event_id
  Flushers,       \* the callers of flushToOpfs and manualSnapshot
  Overlap,        \* TRUE: folds go on while a snapshot is being taken
  AppendMayFail,  \* TRUE: the worker may fail to append an event (no quota, I/O error)
  ReadFaults,     \* what a page load may fail to read: "snapshot", "log"
  MaxSeq,         \* bound: sequence numbers handed out
  MaxBatches,     \* bound: batchImport calls inside the gate at once
  MaxReloads,     \* bound: page loads after the first one
  MaxSaves        \* bound: flushes in progress and snapshots waiting to be written

ASSUME StoreAssumption ==
  /\ IsFiniteSet(Events)
  /\ Overlap \in BOOLEAN /\ AppendMayFail \in BOOLEAN
  /\ ReadFaults \subseteq {"snapshot", "log"}
  /\ MaxSeq \in Nat /\ MaxBatches \in Nat /\ MaxReloads \in Nat /\ MaxSaves \in Nat

VARIABLES
  kv,           \* the in-memory map: its log: and idem: keys, and what was executed
  seq,          \* currentSeq of the memory store
  folding,      \* the stage each event's fold has reached
  foldsInFlight,  \* the batchImport calls that have entered and not returned
  chunking,     \* one of them holds the fold mutex, for the chunk that is being folded
  flush,        \* where each flushToOpfs or manualSnapshot is
  inbox,        \* messages posted to the fold worker
  saving,       \* kvSnapshotChain: snapshots being written
  opfs,         \* the OPFS log
  snapshot,     \* kv-snapshot.bin
  boot,         \* the page load: replaying the log, or ready
  reloads       \* how many page loads there have been

storeVars == <<kv, seq, folding, foldsInFlight, chunking, flush, inbox, saving, opfs, snapshot,
               boot, reloads>>

-----------------------------------------------------------------------------
(* Types. *)

Entry    == [seq : Nat, ev : Events]
Kv       == [log : SUBSET Entry, idem : SUBSET Events, state : SUBSET Events]
Fold     == [stage : {"none", "taken", "logged", "keyed"}, seq : Nat]
Flush    == [pc : {"idle", "quiesce", "waiting", "drain", "read", "capture"}, seq : Nat]
Snapshot == [hit : BOOLEAN, seq : Nat, kv : Kv]
Message  == [kind : {"append"}, entry : Entry] \union [kind : {"save"}, snap : Snapshot]
Boot     == [pc : {"replaying", "ready"}, since : Nat, at : Nat \ {0}]

EmptyKv    == [log |-> {}, idem |-> {}, state |-> {}]
NoFold     == [stage |-> "none", seq |-> 0]
NoFlush    == [pc |-> "idle", seq |-> 0]
NoSnapshotUnset == [hit |-> FALSE, seq |-> -1, kv |-> EmptyKv]
NoSnapshot == [hit |-> FALSE, seq |-> 0, kv |-> EmptyKv]

TypeOK ==
  /\ kv \in Kv
  /\ seq \in Nat
  /\ folding \in [Events -> Fold]
  /\ foldsInFlight \in Nat
  /\ chunking \in BOOLEAN
  /\ flush \in [Flushers -> Flush]
  /\ inbox \in Seq(Message)
  /\ saving \in Seq(Snapshot)
  /\ opfs \in Seq(Entry)
  /\ snapshot \in Snapshot
  /\ boot \in Boot
  /\ reloads \in Nat

StoreInit ==
  /\ kv = EmptyKv
  /\ seq = 0
  /\ folding = [e \in Events |-> NoFold]
  /\ foldsInFlight = 0
  /\ chunking = FALSE
  /\ flush = [f \in Flushers |-> NoFlush]
  /\ inbox = << >>
  /\ saving = << >>
  /\ opfs = << >>
  /\ snapshot = NoSnapshot
  /\ boot = [pc |-> "ready", since |-> 0, at |-> 1]
  /\ reloads = 0

-----------------------------------------------------------------------------
(* Folding. *)

\* The memory store's counter, and what a put of a log: key and a post to the
\* worker do.
NextSeq == seq + 1

PutLog(log, entry) == {x \in log : x.seq # entry.seq} \union {entry}

PostInFront(m) == <<m>> \o inbox
PostUnattached(m) == inbox
Post(m) == Append(inbox, m)

\* The idem: key of the event is there.
KnownToNobody(e) == FALSE
Known(e) == e \in kv.idem

Ready     == boot.pc = "ready"
InFold    == {e \in Events : folding[e].stage # "none"}
MutexFree == InFold = {}

\* With Overlap = FALSE nobody folds while a snapshot is taken.
FoldsAllowed == Ready /\ MutexFree /\ (Overlap \/ \A f \in Flushers : flush[f].pc = "idle")

\* dispatch: processEvent takes the fold mutex, finds the event unknown and
\* takes a seq for it.  (A known event returns at once and changes nothing.)
Dispatch(e) ==
  /\ FoldsAllowed
  /\ ~Known(e)
  /\ seq < MaxSeq
  /\ seq' = NextSeq
  /\ folding' = [folding EXCEPT ![e] = [stage |-> "taken", seq |-> NextSeq]]
  /\ UNCHANGED <<kv, foldsInFlight, chunking, flush, inbox, saving, opfs, snapshot, boot, reloads>>

\* The seq an event of a wave gets from those that were reserved for the wave.
ReservedEarly(arrival, e) == seq + arrival[e] - 1
Reserved(arrival, e) == seq + arrival[e]

\* enterFold: a batchImport counts itself before it asks for the fold mutex, so that
\* any number of them may be inside the gate.
EnterFold ==
  /\ Ready
  /\ foldsInFlight < MaxBatches
  /\ foldsInFlight' = foldsInFlight + 1
  /\ UNCHANGED <<kv, seq, folding, chunking, flush, inbox, saving, opfs, snapshot, boot, reloads>>

\* A batch that is inside and not in the middle of a chunk.
BetweenChunks == foldsInFlight > IF chunking THEN 1 ELSE 0

\* The next chunk of a batch takes the mutex: the events of a wave get their seqs in
\* arrival order before any of them is folded, the known ones too; then the targets
\* are folded in parallel.
BatchImport(arrival) ==
  /\ FoldsAllowed
  /\ BetweenChunks
  /\ seq + Cardinality(DOMAIN arrival) <= MaxSeq
  /\ seq' = seq + Cardinality(DOMAIN arrival)
  /\ chunking' = TRUE
  /\ folding' = [e \in Events |->
        IF e \in DOMAIN arrival THEN [stage |-> "taken", seq |-> Reserved(arrival, e)]
                                ELSE folding[e]]
  /\ UNCHANGED <<kv, foldsInFlight, flush, inbox, saving, opfs, snapshot, boot, reloads>>

Arrivals == UNION {{f \in [S -> 1 .. Cardinality(S)] :
                      \A d, e \in S : d # e => f[d] # f[e]} : S \in SUBSET Events \ {{}}}

\* An event leaves the fold; with the last one of a chunk the mutex is free again.
Leave(e) ==
  /\ folding' = [folding EXCEPT ![e] = NoFold]
  /\ chunking' = (chunking /\ InFold # {e})

\* The flushes that are in foldQuiescentWaiters are resolved, and look again.
WokenEarly(n) ==
  [f \in Flushers |-> IF n = 1 /\ flush[f].pc = "waiting"
                      THEN [flush[f] EXCEPT !.pc = "quiesce"] ELSE flush[f]]
Woken(n) ==
  [f \in Flushers |-> IF n = 0 /\ flush[f].pc = "waiting"
                      THEN [flush[f] EXCEPT !.pc = "quiesce"] ELSE flush[f]]

\* exitFold: a batch has no more chunks, or throws; the last one out wakes the flushes.
ExitFold ==
  /\ BetweenChunks
  /\ foldsInFlight' = foldsInFlight - 1
  /\ flush' = Woken(foldsInFlight - 1)
  /\ UNCHANGED <<kv, seq, folding, chunking, inbox, saving, opfs, snapshot, boot, reloads>>

\* A batch finds that it knows an event already: its seq is used for nothing.
SkipKnown(e) ==
  /\ folding[e].stage = "taken"
  /\ Known(e)
  /\ Leave(e)
  /\ UNCHANGED <<kv, seq, foldsInFlight, flush, inbox, saving, opfs, snapshot, boot, reloads>>

\* appendToLog puts the log: key, which also posts the event to the worker.
LogEvent(e) ==
  LET entry == [seq |-> folding[e].seq, ev |-> e] IN
  /\ folding[e].stage = "taken"
  /\ ~Known(e)
  /\ kv' = [kv EXCEPT !.log = PutLog(@, entry)]
  /\ inbox' = Post([kind |-> "append", entry |-> entry])
  /\ folding' = [folding EXCEPT ![e].stage = "logged"]
  /\ UNCHANGED <<seq, foldsInFlight, chunking, flush, saving, opfs, snapshot, boot, reloads>>

\* The idem: key is put.
KeyEvent(e) ==
  /\ folding[e].stage = "logged"
  /\ kv' = [kv EXCEPT !.idem = @ \union {e}]
  /\ folding' = [folding EXCEPT ![e].stage = "keyed"]
  /\ UNCHANGED <<seq, foldsInFlight, chunking, flush, inbox, saving, opfs, snapshot, boot, reloads>>

\* The operator is executed (one that throws leaves its error: key instead).
ExecuteEvent(e) ==
  /\ folding[e].stage = "keyed"
  /\ kv' = [kv EXCEPT !.state = @ \union {e}]
  /\ Leave(e)
  /\ UNCHANGED <<seq, foldsInFlight, flush, inbox, saving, opfs, snapshot, boot, reloads>>

-----------------------------------------------------------------------------
(* Snapshots. *)

FlushTo(f, pc, n) ==
  /\ flush' = [flush EXCEPT ![f] = [pc |-> pc, seq |-> n]]
  /\ UNCHANGED <<kv, seq, folding, foldsInFlight, chunking, saving, opfs, snapshot, boot, reloads>>

\* flushToOpfs begins with the wait for running batches, manualSnapshot without.
MayStart(f) ==
  /\ Ready /\ flush[f].pc = "idle"
  /\ Cardinality({g \in Flushers : flush[g].pc # "idle"}) + Len(saving)
       + Len(SelectSeq(inbox, LAMBDA m : m.kind = "save")) < MaxSaves

StartFlush(f) == /\ MayStart(f)
                 /\ FlushTo(f, "quiesce", 0)
                 /\ UNCHANGED inbox

StartManualSnapshot(f) == /\ MayStart(f)
                          /\ FlushTo(f, "read", 0)
                          /\ UNCHANGED inbox

\* awaitFoldQuiescent finds batches inside, and goes on to foldQuiescentWaiters.
FlushWaitsUnasked(f) == /\ flush[f].pc = "quiesce"
                        /\ FlushTo(f, "waiting", 0)
                        /\ UNCHANGED inbox
FlushWaits(f) == /\ flush[f].pc = "quiesce" /\ foldsInFlight > 0
                 /\ FlushTo(f, "waiting", 0)
                 /\ UNCHANGED inbox

\* awaitFoldQuiescent finds none, and returns.
FlushQuiescent(f) == /\ flush[f].pc = "quiesce" /\ foldsInFlight = 0
                     /\ FlushTo(f, "drain", 0)
                     /\ UNCHANGED inbox

\* awaitPersistence returns: every appendRaw has settled.
FlushDrained(f) == /\ flush[f].pc = "drain"
                   /\ \A i \in 1 .. Len(inbox) : inbox[i].kind # "append"
                   /\ FlushTo(f, "read", 0)
                   /\ UNCHANGED inbox

FlushReadSeq(f) == /\ flush[f].pc = "read"
                   /\ Overlap \/ MutexFree
                   /\ FlushTo(f, "capture", seq)
                   /\ UNCHANGED inbox

\* The map is copied into the message that saves it.
FlushCapture(f) ==
  /\ flush[f].pc = "capture"
  /\ inbox' = Post([kind |-> "save", snap |-> [hit |-> TRUE, seq |-> flush[f].seq, kv |-> kv]])
  /\ FlushTo(f, "idle", 0)

-----------------------------------------------------------------------------
(* The fold worker. *)

WorkerUnchanged == UNCHANGED <<kv, seq, folding, foldsInFlight, chunking, flush, boot, reloads>>

WorkerAppend ==
  /\ inbox # << >> /\ Head(inbox).kind = "append"
  /\ opfs' = Append(opfs, Head(inbox).entry)
  /\ inbox' = Tail(inbox)
  /\ UNCHANGED <<saving, snapshot>> /\ WorkerUnchanged

\* The append throws; the error is logged to the console and the promise settles.
WorkerAppendFails ==
  /\ AppendMayFail
  /\ inbox # << >> /\ Head(inbox).kind = "append"
  /\ inbox' = Tail(inbox)
  /\ UNCHANGED <<opfs, saving, snapshot>> /\ WorkerUnchanged

\* A save waits for the saves before it; appends go on meanwhile.
WorkerSave ==
  /\ inbox # << >> /\ Head(inbox).kind = "save"
  /\ saving' = Append(saving, Head(inbox).snap)
  /\ inbox' = Tail(inbox)
  /\ UNCHANGED <<opfs, snapshot>> /\ WorkerUnchanged

\* writable.close() replaces the file.
CommitSnapshot ==
  /\ saving # << >>
  /\ snapshot' = Head(saving)
  /\ saving' = Tail(saving)
  /\ UNCHANGED <<inbox, opfs>> /\ WorkerUnchanged

\* The write throws: it is aborted, the old file stays and the next save goes on.
AbortSave ==
  /\ saving # << >>
  /\ saving' = Tail(saving)
  /\ UNCHANGED <<inbox, opfs, snapshot>> /\ WorkerUnchanged

-----------------------------------------------------------------------------
(* The page load. *)

LogHead == LET seqs == {opfs[i].seq : i \in 1 .. Len(opfs)} IN
           IF seqs = {} THEN 0 ELSE CHOOSE s \in seqs : \A t \in seqs : t <= s

\* The page is closed, at any point, and loaded again: the map comes from the
\* snapshot s (an empty one if it cannot be read), and unless s has the log's last
\* seq the log is scanned for the entries after it.
LoadFrom(s) ==
  /\ reloads < MaxReloads
  /\ reloads' = reloads + 1
  /\ kv' = s.kv
  /\ seq' = s.seq
  /\ folding' = [e \in Events |-> NoFold]
  /\ foldsInFlight' = 0
  /\ chunking' = FALSE
  /\ flush' = [f \in Flushers |-> NoFlush]
  /\ inbox' = << >>
  /\ saving' = << >>
  /\ boot' = [pc |-> IF s.hit /\ LogHead = s.seq THEN "ready" ELSE "replaying",
              since |-> s.seq, at |-> 1]
  /\ UNCHANGED <<opfs, snapshot>>

Reload == LoadFrom(snapshot) \/ ("snapshot" \in ReadFaults /\ LoadFrom(NoSnapshot))

\* scanLog({since}) posts the entry.
ScannedLate(x) == x.seq > boot.since + 1
Scanned(x) == x.seq > boot.since

Replaying == boot.pc = "replaying" /\ boot.at <= Len(opfs)

\* An entry the scan leaves out, or that replayFromLog knows already.
ReplaySkip ==
  /\ Replaying
  /\ ~Scanned(opfs[boot.at]) \/ Known(opfs[boot.at].ev)
  /\ boot' = [boot EXCEPT !.at = @ + 1]
  /\ UNCHANGED <<kv, seq, folding, foldsInFlight, chunking, flush, inbox, saving, opfs, snapshot,
                 reloads>>

\* The replay puts a log: key too, for the event with its new seq.
RelogSkipped(entry) == kv.log
Relog(entry) == PutLog(kv.log, entry)

\* An entry that is replayed gets the next seq, not the one it was logged with.
ReplayEvent ==
  LET e == opfs[boot.at].ev IN
  /\ Replaying
  /\ Scanned(opfs[boot.at]) /\ ~Known(e)
  /\ seq' = NextSeq
  /\ kv' = [log   |-> Relog([seq |-> NextSeq, ev |-> e]),
            idem  |-> kv.idem \union {e},
            state |-> kv.state \union {e}]
  /\ boot' = [boot EXCEPT !.at = @ + 1]
  /\ UNCHANGED <<folding, foldsInFlight, chunking, flush, inbox, saving, opfs, snapshot, reloads>>

\* The store is published and the rebuilt map is saved for the next load, also if
\* the scan or an event of it failed.
ReplayDone ==
  /\ boot.pc = "replaying"
  /\ boot.at > Len(opfs) \/ "log" \in ReadFaults
  /\ boot' = [boot EXCEPT !.pc = "ready"]
  /\ inbox' = Post([kind |-> "save", snap |-> [hit |-> TRUE, seq |-> seq, kv |-> kv]])
  /\ UNCHANGED <<kv, seq, folding, foldsInFlight, chunking, flush, saving, opfs, snapshot, reloads>>

-----------------------------------------------------------------------------

FoldStep == \E e \in Events : SkipKnown(e) \/ LogEvent(e) \/ KeyEvent(e) \/ ExecuteEvent(e)

FlushStep(f) == FlushWaits(f) \/ FlushQuiescent(f) \/ FlushDrained(f) \/ FlushReadSeq(f)
                \/ FlushCapture(f)

WorkerStep == WorkerAppend \/ WorkerSave

ReplayStep == ReplaySkip \/ ReplayEvent \/ ReplayDone

StoreNext ==
  \/ \E e \in Events : Dispatch(e)
  \/ EnterFold \/ ExitFold
  \/ \E arrival \in Arrivals : BatchImport(arrival)
  \/ FoldStep
  \/ \E f \in Flushers : StartFlush(f) \/ StartManualSnapshot(f) \/ FlushStep(f)
  \/ WorkerStep \/ WorkerAppendFails \/ CommitSnapshot \/ AbortSave
  \/ Reload \/ ReplayStep

StoreSpec == StoreInit /\ [][StoreNext]_storeVars

\* The event loops of the page and of the worker run every continuation that is due,
\* and a batch has a last chunk.
StoreFairSpec ==
  /\ StoreSpec
  /\ WF_storeVars(FoldStep) /\ WF_storeVars(ExitFold)
  /\ \A f \in Flushers : WF_storeVars(FlushStep(f))
  /\ WF_storeVars(WorkerStep) /\ WF_storeVars(CommitSnapshot)
  /\ WF_storeVars(ReplayStep)

-----------------------------------------------------------------------------
(* Safety. *)

Logged == {opfs[i].ev : i \in 1 .. Len(opfs)}

\* Once the page is ready, every event that ever reached the OPFS log is folded
\* into the map or is being folded, whenever and wherever earlier pages died.
NothingForgotten == Ready => Logged \subseteq kv.state \union InFold

\* A snapshot on disk holds no event that the OPFS log does not hold: the log can
\* rebuild everything if the snapshot is lost.
SnapshotBacked == snapshot.kv.idem \subseteq Logged

\* No event is appended to the OPFS log twice.
LoggedOnce == \A i, j \in 1 .. Len(opfs) : opfs[i].ev = opfs[j].ev => i = j

\* A seq that is taken is never put over an entry of the map's log.
SeqsFresh ==
  /\ \A x \in kv.log : x.seq <= seq
  /\ \A x, y \in kv.log : x.seq = y.seq => x = y
  /\ \A e \in Events : folding[e].stage = "taken" =>
                         \A x \in kv.log : x.seq # folding[e].seq

\* The map's log names every event the map knows.
MapLogComplete == kv.idem \subseteq {x.ev : x \in kv.log}

\* A flush is left in foldQuiescentWaiters only as long as a batch is inside the gate,
\* whose exit will wake it: however batches overlap and flushes look again, no wake-up
\* is lost.
WaitersAreWoken == \A f \in Flushers : flush[f].pc = "waiting" => foldsInFlight > 0

-----------------------------------------------------------------------------
(* Liveness. *)

\* What is folded reaches the OPFS log, unless the page dies first.
FoldedGetsLogged == \A e \in Events : e \in kv.state ~> (e \in Logged \/ e \notin kv.state)

\* A flush waits for the batches inside the gate, however they overlap, and for the
\* appends; once no new batch enters it returns.  (While new ones keep coming the count
\* need never be 0.)
FlushReturns ==
  <>[][~EnterFold]_storeVars =>
    \A f \in Flushers : flush[f].pc # "idle" ~> flush[f].pc = "idle"
=============================================================================
