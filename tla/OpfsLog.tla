------------------------------- MODULE OpfsLog -------------------------------
(***************************************************************************)
(* The two files of a space's append-only log and the fold worker that     *)
(* owns them (app/src/db/log-opfs.ts, db/log-index.ts, db/init-cache.ts,   *)
(* workers/fold.worker.ts).                                                *)
(*                                                                         *)
(* An append writes the payload to eodb.pay, then a fixed-stride record    *)
(* that points at it to eodb.idx, and advances the counters of the open    *)
(* log only after both flushes.  The worker can be killed between any two  *)
(* of these, and each of them can throw.  An open migrates the older       *)
(* log.bin first, as long as there is one, takes the index from the init   *)
(* cache if that was written for a log of the same size, and scans the     *)
(* record file otherwise.  A scan truncates the record file at the first   *)
(* record it cannot read, best-effort: when the truncate throws, the open  *)
(* log goes on counting what the scan could not read.                      *)
(*                                                                         *)
(* Files are sequences of cells.  A record is Stride cells, a payload      *)
(* PayLen[e] cells; a cell says of which record or payload it is which     *)
(* part, so what a reader makes of cells that do not belong together is    *)
(* that it cannot read them: a pointer that is part of a hash fails the    *)
(* range check, msgpack that is cut off or followed by more throws.        *)
(***************************************************************************)
EXTENDS Integers, Sequences, FiniteSets

CONSTANTS
  Events,       \* the events
  PayLen,       \* the cells of an event's packed payload
  Stride,       \* the cells of an index record (INDEX_RECORD_BYTES)
  Hole,         \* what a file holds where nothing was written, a corrupt legacy entry
  Legacy,       \* log.bin as the first open finds it: entries, or << >>
  HasLegacy,    \* TRUE: there is a log.bin
  Faults,       \* what may fail: "kill", "throw", "truncate", "unlink"
  ReuseSeqs,    \* TRUE: after a page load seqs are handed out that the log holds already
  MaxSeq,       \* bound: sequence numbers
  MaxSkip,      \* bound: seqs that reach no append, before one that does
  MaxOpens      \* bound: opens of the log

Entry == [seq : Nat, ev : Events]

ASSUME OpfsAssumption ==
  /\ IsFiniteSet(Events)
  /\ PayLen \in [Events -> Nat \ {0}]
  /\ Stride \in Nat \ {0}
  /\ Legacy \in Seq(Entry \union {Hole})
  /\ HasLegacy \in BOOLEAN /\ ReuseSeqs \in BOOLEAN
  /\ Faults \subseteq {"kill", "throw", "truncate", "unlink"}
  /\ MaxSeq \in Nat /\ MaxSkip \in Nat /\ MaxOpens \in Nat

VARIABLES
  legacy,    \* there is a log.bin
  idx,       \* eodb.idx
  pay,       \* eodb.pay
  cache,     \* init-cache.bin; history: whole, see CachePayload
  ckpt,      \* the seq in fold-position.bin
  pc,        \* what the worker is doing
  log,       \* the counters of the open log: idxBytes and payBytes
  index,     \* the entries the index holds, with their offsets
  position,  \* position.seq
  job,       \* the entry being appended; how many records of log.bin are migrated
  given,     \* the last seq the main thread handed out
  acked,     \* history: the appends that were acknowledged, clean or not (see Clean)
  opens      \* how often the log was opened

vars == <<legacy, idx, pay, cache, ckpt, pc, log, index, position, job, given,
          acked, opens>>

-----------------------------------------------------------------------------
(* Cells, reads and writes. *)

IdxCell == [entry : Entry, off : Nat, part : 1 .. Stride]
PayCell == [entry : Entry, part : Nat \ {0}]

ASSUME HoleAssumption == Hole \notin IdxCell \union PayCell \union Entry

PayCellsFromZero(entry) == [k \in 1 .. PayLen[entry.ev] |-> [entry |-> entry, part |-> k - 1]]
PayCells(entry) == [k \in 1 .. PayLen[entry.ev] |-> [entry |-> entry, part |-> k]]
Record(entry, off) == [k \in 1 .. Stride |-> [entry |-> entry, off |-> off, part |-> k]]

ReadAt(file, p, n) == [k \in 1 .. n |-> IF p + k <= Len(file) THEN file[p + k] ELSE Hole]

Larger(a, b) == IF a >= b THEN a ELSE b

WriteAt(file, p, cells) ==
  [i \in 1 .. Larger(Len(file), p + Len(cells)) |->
     IF i > p /\ i <= p + Len(cells) THEN cells[i - p]
     ELSE IF i <= Len(file) THEN file[i] ELSE Hole]

\* What a write that throws leaves: nothing, or what the disk had room for.
Failed(cells) == IF "throw" \in Faults THEN {SubSeq(cells, 1, n) : n \in 0 .. Len(cells) - 1}
                                       ELSE {}

\* decodeIndexRecord succeeds, and the payload it points to unpacks.
Decodes(f, o) == LET r == ReadAt(f, o, Stride) IN
                 r[1] # Hole /\ r = Record(r[1].entry, r[1].off)

Pointed(f, g, o) == LET c == f[o + 1] IN ReadAt(g, c.off, PayLen[c.entry.ev])

Readable(f, g, o) == /\ Decodes(f, o)
                     /\ LET p == Pointed(f, g, o) IN
                        p[1] # Hole /\ p = PayCells(p[1].entry)

\* readEventAt.
EntryAt(f, g, o) == Pointed(f, g, o)[1].entry

\* scanLog: the offsets below the limit, the first one it cannot read or, failing
\* that, the end; and what it yields before.
Offsets(limit) == {Stride * i : i \in 0 .. (limit + Stride - 1) \div Stride - 1}
ScanEnd(f, g, limit) ==
  LET bad == {o \in Offsets(limit) : ~Readable(f, g, o)} IN
  IF bad = {} THEN Stride * ((limit + Stride - 1) \div Stride)
  ELSE CHOOSE o \in bad : \A p \in bad : o <= p
Scan(f, g, limit) ==
  [i \in 1 .. ScanEnd(f, g, limit) \div Stride |->
     [off |-> (i - 1) * Stride, entry |-> EntryAt(f, g, (i - 1) * Stride)]]

\* A scan that stops early cuts the record file there and sets the limit back to it,
\* unless what is there is less than a record, or the truncate throws.
Cuts(f, g, limit) == LET e == ScanEnd(f, g, limit) IN e < limit /\ e + Stride <= Len(f)
ScanLeaves(f, g, limit) ==
  (IF Cuts(f, g, limit)
   THEN LET e == ScanEnd(f, g, limit) IN {[file |-> SubSeq(f, 1, e), limit |-> e]}
   ELSE {})
  \union
  (IF Cuts(f, g, limit) => "truncate" \in Faults THEN {[file |-> f, limit |-> limit]} ELSE {})

Elements(s) == {s[i] : i \in 1 .. Len(s)}
MaxOf(S) == IF S = {} THEN 0 ELSE CHOOSE n \in S : \A m \in S : m <= n

-----------------------------------------------------------------------------
(* Types. *)

Located == [off : Nat, entry : Entry]
NoJob   == [entry |-> Hole, migrated |-> 0]
Closed  == [idxBytes |-> 0, payBytes |-> 0]
Open    == {"ready", "payload", "record", "flush"}

TypeOK ==
  /\ legacy \in BOOLEAN
  /\ idx \in Seq(IdxCell \union {Hole}) /\ pay \in Seq(PayCell \union {Hole})
  /\ cache \in [size : Int, bad : BOOLEAN, entries : Seq(Located), whole : BOOLEAN]
  /\ pc \in {"closed", "migrating", "opening"} \union Open
  /\ log \in [idxBytes : Nat, payBytes : Nat]
  /\ index \in Seq(Located)
  /\ {ckpt, position, given, opens} \subseteq Nat
  /\ job \in [entry : Entry \union {Hole}, migrated : Nat]
  /\ acked \subseteq [off : Nat, entry : Entry, clean : BOOLEAN]

Init ==
  /\ legacy = HasLegacy
  /\ idx = << >> /\ pay = << >>
  /\ cache = [size |-> -1, bad |-> FALSE, entries |-> << >>, whole |-> FALSE]
  /\ ckpt = 0
  /\ pc = "closed"
  /\ log = Closed /\ index = << >> /\ position = 0
  /\ job = NoJob
  /\ given = 0
  /\ acked = {}
  /\ opens = 0

-----------------------------------------------------------------------------
(* Opening, and the migration of log.bin. *)

\* log.bin up to its first corrupt entry.
LegacyPrefix ==
  LET bad == {i \in 1 .. Len(Legacy) : Legacy[i] = Hole} IN
  SubSeq(Legacy, 1, IF bad = {} THEN Len(Legacy) ELSE (CHOOSE i \in bad : \A j \in bad : i <= j) - 1)

\* What a best-effort truncate(0) leaves of a file.
Truncated(file) == {<< >>} \union IF "truncate" \in Faults THEN {file} ELSE {}

\* The migration starts from scratch as long as log.bin is there.
StartMigration ==
  /\ pc = "closed" /\ legacy /\ Legacy # << >>
  /\ opens < MaxOpens
  /\ opens' = opens + 1
  /\ idx' \in Truncated(idx) /\ pay' \in Truncated(pay)
  /\ pc' = "migrating"
  /\ log' = Closed /\ job' = NoJob
  /\ UNCHANGED <<legacy, cache, ckpt, index, position, given, acked>>

\* The counters behind one more record and its payload.
AdvancedIdxOnly(entry) == [log EXCEPT !.idxBytes = @ + Stride]
Advanced(entry) == [idxBytes |-> log.idxBytes + Stride,
                    payBytes |-> log.payBytes + PayLen[entry.ev]]

\* One record of log.bin is copied: the payload, then the record that points at it.
MigrateRecord ==
  /\ pc = "migrating" /\ job.migrated < Len(LegacyPrefix)
  /\ LET entry == LegacyPrefix[job.migrated + 1] IN
     /\ pay' = WriteAt(pay, log.payBytes, PayCells(entry))
     /\ idx' = WriteAt(idx, log.idxBytes, Record(entry, log.payBytes))
     /\ log' = Advanced(entry)
  /\ job' = [job EXCEPT !.migrated = @ + 1]
  /\ UNCHANGED <<legacy, cache, ckpt, pc, index, position, given, acked, opens>>

MigrationDoneEarly == TRUE
MigrationDone == job.migrated = Len(LegacyPrefix)

\* A write or a flush throws: the handles are closed, openLog rejects and log.bin stays.
MigrationThrows ==
  /\ pc = "migrating" /\ "throw" \in Faults
  /\ pc' = "closed" /\ log' = Closed /\ job' = NoJob
  /\ UNCHANGED <<legacy, idx, pay, cache, ckpt, index, position, given, acked, opens>>

\* What there is of log.bin after it was unlinked, best-effort.
Unlinked == {FALSE} \union IF "unlink" \in Faults THEN {legacy} ELSE {}

\* Both files are flushed and log.bin is unlinked.
CommitMigration ==
  /\ pc = "migrating" /\ MigrationDone
  /\ legacy' \in Unlinked
  /\ pc' = "opening" /\ log' = Closed /\ job' = NoJob
  /\ UNCHANGED <<idx, pay, cache, ckpt, index, position, given, acked, opens>>

\* An empty log.bin is unlinked, best-effort; without one there is nothing to do.
StartOpen ==
  /\ pc = "closed"
  /\ ~legacy \/ Legacy = << >>
  /\ opens < MaxOpens
  /\ opens' = opens + 1
  /\ legacy' \in Unlinked
  /\ pc' = "opening"
  /\ UNCHANGED <<idx, pay, cache, ckpt, log, index, position, job, given, acked>>

\* The cache is taken if it was written for a log of this many bytes.
CacheOfAnySize == cache.size >= 0 /\ ~cache.bad
CacheHit == cache.size = Len(idx) + Len(pay) /\ ~cache.bad

Seqs(located) == {x.entry.seq : x \in Elements(located)}

\* The head is that of the checkpoint or of the index, whichever is later.
CheckpointHead(seqs) == ckpt
ReadyHead(seqs) == Larger(ckpt, MaxOf(seqs))

\* What the main thread may go on counting from: with ReuseSeqs its replay has
\* renumbered the entries of the log without the gaps between them.
CountsFrom(entries) ==
  IF ReuseSeqs THEN Len(entries) .. MaxOf(Seqs(entries)) ELSE {MaxOf(Seqs(entries))}

\* The files are opened and the index is taken from the cache or built by a scan.
FinishOpen ==
  LET found == Scan(idx, pay, Len(idx)) IN
  /\ pc = "opening"
  /\ \E left \in IF CacheHit THEN {[file |-> idx, limit |-> Len(idx)]}
                             ELSE ScanLeaves(idx, pay, Len(idx)) :
       /\ idx' = left.file
       /\ log' = [idxBytes |-> left.limit, payBytes |-> Len(pay)]
  /\ index' = IF CacheHit THEN cache.entries ELSE found
  /\ position' = ReadyHead(Seqs(index'))
  /\ given' \in CountsFrom(found)
  /\ pc' = "ready"
  /\ UNCHANGED <<legacy, pay, cache, ckpt, job, acked, opens>>

-----------------------------------------------------------------------------
(* appendRaw. *)

\* No log.bin is left to be migrated again, and every record below the counter can be
\* read from the payload below its counter: there is nothing that a scan might cut or a
\* later append overwrite.
Clean ==
  /\ ~(legacy /\ Legacy # << >>)
  /\ ScanEnd(idx, SubSeq(pay, 1, log.payBytes), log.idxBytes) = log.idxBytes

Held == {x.entry.ev : x \in Elements(Scan(idx, pay, log.idxBytes))}

\* The main thread posts an event that the log does not hold.
Request(e, s) ==
  /\ pc = "ready"
  /\ s <= MaxSeq
  /\ given' = s
  /\ job' = [job EXCEPT !.entry = [seq |-> s, ev |-> e]]
  /\ pc' = "payload"
  /\ UNCHANGED <<legacy, idx, pay, cache, ckpt, log, index, position, acked, opens>>

\* The append is answered with an error: nothing but what was written remains.
Reject == pc' = "ready" /\ job' = NoJob

WritePayload ==
  /\ pc = "payload"
  /\ \/ /\ pay' = WriteAt(pay, log.payBytes, PayCells(job.entry))
        /\ pc' = "record"
        /\ UNCHANGED job
     \/ /\ \E cells \in Failed(PayCells(job.entry)) : pay' = WriteAt(pay, log.payBytes, cells)
        /\ Reject
  /\ UNCHANGED <<legacy, idx, cache, ckpt, log, index, position, given, acked, opens>>

\* Where the next record goes.
RecordAtEnd == Len(idx)
RecordOffset == log.idxBytes

WriteRecord ==
  /\ pc = "record"
  /\ LET cells == Record(job.entry, log.payBytes) IN
     \/ /\ idx' = WriteAt(idx, RecordOffset, cells)
        /\ pc' = "flush"
        /\ UNCHANGED job
     \/ /\ \E c \in Failed(cells) : idx' = WriteAt(idx, RecordOffset, c)
        /\ Reject
  /\ UNCHANGED <<legacy, pay, cache, ckpt, log, index, position, given, acked, opens>>

\* The flushes return: the counters advance and the event is indexed and answered.
Acknowledge ==
  LET located == [off |-> log.idxBytes, entry |-> job.entry] IN
  /\ pc = "flush"
  /\ log' = Advanced(job.entry)
  /\ index' = Append(index, located)
  /\ position' = job.entry.seq
  /\ acked' = acked \union {[off |-> located.off, entry |-> job.entry, clean |-> Clean]}
  /\ Reject
  /\ UNCHANGED <<legacy, idx, pay, cache, ckpt, given, opens>>

FlushThrows ==
  /\ pc = "flush" /\ "throw" \in Faults
  /\ Reject
  /\ UNCHANGED <<legacy, idx, pay, cache, ckpt, log, index, position, given, acked, opens>>

-----------------------------------------------------------------------------
(* Scans, the init cache and the checkpoint. *)

\* scanLog{since}: the main thread asks for the entries after its snapshot.
ScanRequest ==
  /\ pc = "ready"
  /\ \E left \in ScanLeaves(idx, pay, log.idxBytes) :
       /\ idx' = left.file
       /\ log' = [log EXCEPT !.idxBytes = left.limit]
  /\ UNCHANGED <<legacy, pay, cache, ckpt, pc, index, position, job, given, acked, opens>>

\* buildInitCachePayload: as many entries as there are seqs in the index, under the size
\* that the log has after the scan.  It is whole when that was all there is to read, and
\* the log was clean.
CachePayload(seqs, limit) ==
  LET found == Scan(idx, pay, log.idxBytes)
      n     == Cardinality(seqs)
  IN
  [size    |-> limit + log.payBytes,
   bad     |-> Len(found) < n,
   entries |-> SubSeq(found, 1, IF Len(found) < n THEN Len(found) ELSE n),
   whole   |-> Clean /\ Len(found) = n]

\* saveInitCache; the file is replaced by a rename or not at all.
SaveInitCache ==
  /\ pc = "ready"
  /\ \E left \in ScanLeaves(idx, pay, log.idxBytes) :
       /\ idx' = left.file
       /\ log' = [log EXCEPT !.idxBytes = left.limit]
       /\ cache' = CachePayload(Seqs(index), left.limit)
  /\ UNCHANGED <<legacy, pay, ckpt, pc, index, position, job, given, acked, opens>>

\* scheduleCheckpoint.
SaveCheckpoint ==
  /\ pc = "ready"
  /\ ckpt' = position
  /\ UNCHANGED <<legacy, idx, pay, cache, pc, log, index, position, job, given, acked, opens>>

\* The worker dies, in the middle of a write or after it.
Kill ==
  /\ pc # "closed" /\ "kill" \in Faults
  /\ pc' = "closed"
  /\ log' = Closed /\ index' = << >> /\ position' = 0
  /\ job' = NoJob /\ given' = 0
  /\ UNCHANGED <<legacy, idx, pay, cache, ckpt, acked, opens>>

-----------------------------------------------------------------------------

Migrate == StartMigration \/ MigrateRecord \/ MigrationThrows \/ CommitMigration

AppendRaw ==
  \/ pc = "ready" /\ \E e \in Events \ Held, skip \in 0 .. MaxSkip : Request(e, given + skip + 1)
  \/ WritePayload \/ WriteRecord \/ Acknowledge \/ FlushThrows

Next ==
  \/ Migrate \/ StartOpen \/ FinishOpen
  \/ AppendRaw
  \/ ScanRequest \/ SaveInitCache \/ SaveCheckpoint
  \/ Kill

Spec == Init /\ [][Next]_vars

-----------------------------------------------------------------------------
(* Safety. *)

CanBeRead(a) == /\ a.off < Len(idx)
                /\ Readable(idx, pay, a.off)
                /\ EntryAt(idx, pay, a.off) = a.entry

CleanAcks == {a \in acked : a.clean}

\* An append that was acknowledged while the log below it was clean can be read at its
\* offset ever after: no failed write, torn record, migration, kill or scan reaches it,
\* and no truncate that throws.
CleanAcksReadable == \A a \in CleanAcks : CanBeRead(a)

\* Any append that was acknowledged can be read at its offset ever after.
AcksReadable == \A a \in acked : CanBeRead(a)

\* The size of the log tells whether the cache is stale: a cache that was whole when it
\* was saved and is taken at an open holds what a scan would find there.
CacheFresh ==
  pc = "opening" /\ CacheHit /\ cache.whole => cache.entries = Scan(idx, pay, Len(idx))

\* The head reported at an open that indexes the whole log is not below any append
\* acknowledged on a clean log: a main thread that has seen the head has seen them all.
HeadCovers ==
  [][pc = "opening" /\ pc' = "ready" /\ index' = Scan(idx, pay, Len(idx)) =>
       \A a \in CleanAcks : a.entry.seq <= position']_vars

\* Once log.bin is gone the log begins with every entry of it that could be read.
MigrationKeepsAll ==
  ~legacy /\ HasLegacy =>
    LET found == Scan(idx, pay, Len(idx)) IN
    /\ Len(LegacyPrefix) <= Len(found)
    /\ \A i \in 1 .. Len(LegacyPrefix) : found[i].entry = LegacyPrefix[i]

\* What the log of the space holds for good: its records up to the last one that was
\* acknowledged on a clean log.
DurableEnd == MaxOf({a.off + Stride : a \in CleanAcks})
Durable == LET found == Scan(idx, pay, DurableEnd) IN
           [i \in 1 .. Len(found) |-> found[i].entry]

AppendLog == INSTANCE AppendLog
               WITH contents <- Durable, promised <- {a.entry : a \in CleanAcks}

\* Up to there the two files behave as one log that only grows and that holds whatever
\* was acknowledged.
ImplementsAppendLog == AppendLog!Spec
=============================================================================
