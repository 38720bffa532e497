------------------------------ MODULE BulkFold ------------------------------
(***************************************************************************)
(* How the fold engine brings a batch of events into the store             *)
(* (app/src/db/fold.ts, fold-core.ts, fold-isolate.ts, fold-pool.ts).      *)
(*                                                                         *)
(* A batch is cut into waves by helix level and waves into steps; the      *)
(* events of a step are grouped by target and the groups run concurrently. *)
(* A small batch runs its groups as interleaved promises on the one store  *)
(* ("shared": processEventsBulk).  A large one ships a snapshot to shard   *)
(* workers and merges the rows they wrote ("isolated":                     *)
(* processEventsBulkViaDispatcher).  The serial fold, one processEvent     *)
(* after the other, is the reference for both.                             *)
(*                                                                         *)
(* A state row is read, then written back whole; only the group of a       *)
(* target writes its row, except that CON also refreshes the graph metrics *)
(* of the destination's row.                                               *)
(***************************************************************************)
EXTENDS Integers, Sequences, FiniteSets, SequencesExt

CONSTANTS
  TargetKeys,    \* the targets in key order, a sequence without repetitions
  NumShards,     \* the shards a step is cut into
  ShardOf,       \* the shard each target is assigned to
  Imports,       \* the batches that may be imported, sequences of events
  Locals,        \* the events that may be dispatched one by one
  Modes,         \* a subset of {"shared", "isolated"}
  MaxImports,    \* bound: imports
  MaxDispatches  \* bound: single dispatches

Targets == ToSet(TargetKeys)
Ops     == {"NUL", "INS", "SEG", "CON", "SYN", "DEF", "EVA"}
Event   == [id : Nat, op : Ops, on : Targets, to : SUBSET Targets]
Given   == Locals \union UNION {ToSet(b) : b \in Imports}

ASSUME BulkAssumption ==
  /\ TargetKeys \in Seq(Targets)
  /\ \A i, j \in 1 .. Len(TargetKeys) : TargetKeys[i] = TargetKeys[j] => i = j
  /\ NumShards \in Nat /\ ShardOf \in [Targets -> 0 .. NumShards - 1]
  /\ Imports \subseteq Seq(Event) /\ Locals \subseteq Event
  /\ Modes \subseteq {"shared", "isolated"}
  /\ MaxImports \in Nat /\ MaxDispatches \in Nat

\* An id names one event; 0 is kept for the INS the fold makes (SyntheticINS).
ASSUME IdsAssumption ==
  \A e \in Given : e.id # 0 /\ \A f \in Given : f.id = e.id => f = e

\* Only CON brings graph edges (handleCON; merges of SYN are not modelled).
ASSUME EdgesAssumption == \A e \in Given : e.to # {} => e.op = "CON"

VARIABLES
  store,       \* the kv map: rows, graph edges, helix positions, ids, log
  imp,         \* the import that holds the fold mutex
  task,        \* the groups of a shared import, per import and target
  mixed,       \* an import was cut short, or had groups that meet in a row
  dispatches   \* single dispatches so far

bulkVars == <<store, imp, task, mixed, dispatches>>

-----------------------------------------------------------------------------
(* The store. *)

\* A state row: what INS, SEG or EVA last set, the DEF merged on top, the edges CON
\* copied into the value, and the caches: graph metrics and trajectory.
Row   == [on : BOOLEAN, base : Nat, def : Nat, edges : SUBSET Targets,
          metrics : SUBSET (Targets \X Targets), fold : Seq(Nat)]
NoRow == [on |-> FALSE, base |-> 0, def |-> 0, edges |-> {}, metrics |-> {}, fold |-> << >>]

Planned == [seq : Nat, ev : Event]
Store   == [rows : [Targets -> Row], edges : SUBSET (Targets \X Targets),
            helix : SUBSET Targets, idem : SUBSET Nat, log : Seq(Planned), seq : Nat]
EmptyStore == [rows |-> [t \in Targets |-> NoRow], edges |-> {}, helix |-> {},
               idem |-> {}, log |-> << >>, seq |-> 0]

\* The fold gives a synthetic INS an id of its own each time; 0 stands for all of them.
SyntheticINS(t) == [id |-> 0, op |-> "INS", on |-> t, to |-> {}]

NeedsINS == {"SEG", "CON", "SYN", "DEF", "EVA"}

Known(s, e)  == e.id # 0 /\ e.id \in s.idem
Throws(s, e) == e.op = "INS" /\ ~Known(s, e) /\ s.rows[e.on].on

\* Mutant: the log keeps the bare event, without its seq.
LoggedBare(s, x) == [s EXCEPT !.log = Append(@, x.ev), !.idem = @ \union {x.ev.id}]

Logged(s, x) == [s EXCEPT !.log = Append(@, x), !.idem = @ \union {x.ev.id}]

\* The reads and writes of rows an event brings, in order; recordOperator declares the
\* target's helix position before the fold cache is brought up to date.
RowOps(e) ==
  LET metrics(t) == [do |-> "metrics", row |-> t]
      dests      == SetToSeq(e.to)
  IN  (IF e.op \in {"NUL", "SYN"} THEN << >> ELSE << [do |-> "apply", row |-> e.on] >>)
      \o (IF e.op = "CON"
          THEN <<metrics(e.on)>> \o [i \in 1 .. Len(dests) |-> metrics(dests[i])]
          ELSE << >>)
      \o << [do |-> "declare", row |-> e.on], [do |-> "cache", row |-> e.on] >>

\* refreshGraphMetrics and updateFoldCache leave a missing row alone; handleINS throws
\* on one that exists.
Skips(o, e, copy) == IF o.do = "apply" THEN e.op = "INS" /\ copy.on ELSE ~copy.on

\* The row as it is put: computed from the copy that was read; setState takes the
\* caches of an operator's row from the row it overwrites.
Put(o, e, copy, now, edges) ==
  LET whole == [now EXCEPT !.on = TRUE, !.base = e.id, !.def = 0, !.edges = {}]
      merge == [now EXCEPT !.base = copy.base, !.def = copy.def, !.edges = copy.edges]
  IN  IF o.do = "metrics" THEN [copy EXCEPT !.metrics = {x \in edges : o.row \in {x[1], x[2]}}]
      ELSE IF o.do = "cache" THEN [copy EXCEPT !.fold = Append(@, e.id)]
      ELSE CASE e.op = "DEF" -> [merge EXCEPT !.def = e.id]
             [] e.op = "CON" -> [merge EXCEPT !.edges = {d \in Targets : <<e.on, d>> \in edges}]
             [] OTHER        -> whole

WithEdges(s, e) == [s EXCEPT !.edges = @ \union ({e.on} \X e.to)]
Declared(s, e)  == [s EXCEPT !.helix = IF e.op = "INS" THEN @ \union {e.on} ELSE @]

DoRowOp(s, o, e) ==
  LET row == s.rows[o.row] IN
  IF o.do = "declare" THEN Declared(s, e)
  ELSE IF Skips(o, e, row) THEN s
  ELSE [s EXCEPT !.rows[o.row] = Put(o, e, row, row, s.edges)]

Executed(s, e) == FoldLeft(LAMBDA acc, o : DoRowOp(acc, o, e), s, RowOps(e))

\* The effect of one event when nothing runs beside it.
processEventCoreWithSeq(s, x) ==
  IF Known(s, x.ev) THEN s ELSE Executed(WithEdges(Logged(s, x), x.ev), x.ev)

-----------------------------------------------------------------------------
(* The serial fold, and the replay of a log. *)

\* The targets an event needs an INS of, when some have theirs.
Missing(e, have) ==
  SetToSeq(IF e.op \in NeedsINS THEN ({e.on} \union e.to) \ have ELSE {})

INSsOf(ts) == [i \in 1 .. Len(ts) |-> SyntheticINS(ts[i])]

Sequenced(s, e) ==
  processEventCoreWithSeq([s EXCEPT !.seq = @ + 1], [seq |-> s.seq + 1, ev |-> e])

processEvent(s, e) ==
  IF Known(s, e) THEN s ELSE FoldLeft(Sequenced, s, INSsOf(Missing(e, s.helix)) \o <<e>>)

HELIX_LEVEL ==
  [op \in Ops |-> CASE op = "NUL" -> 0  [] op = "INS" -> 1  [] op \in {"SEG", "CON"} -> 2
                    [] op = "SYN" -> 3  [] op = "DEF" -> 4  [] op = "EVA" -> 5]

\* The bucket of the elements of s in T, in their order.
Bucket(s, T) == FoldLeft(LAMBDA acc, x : IF x \in T THEN Append(acc, x) ELSE acc, << >>, s)

sortByHelixLevel(b) ==
  [l \in 1 .. 6 |-> Bucket(b, {e \in ToSet(b) : HELIX_LEVEL[e.op] = l - 1})]

SerialWave(s, wave) == FoldLeft(processEvent, s, wave)

SerialFold(s, b) == FoldLeft(SerialWave, s, sortByHelixLevel(b))

replayFromLog(log) == FoldLeft(processEventCoreWithSeq, EmptyStore, log)

\* What a reader sees: everything but the log and the seqs.
Projection(s) == [rows |-> s.rows, edges |-> s.edges, helix |-> s.helix]

-----------------------------------------------------------------------------
(* Waves and steps. *)

Insed(insed, ins, e) ==
  insed \union ToSet(ins) \union (IF e.op = "INS" THEN {e.on} ELSE {})

\* Mutant: the INS comes behind the event that needs it.
VisitLate(acc, e) ==
  LET ins == Missing(e, acc.insed)
  IN  [out |-> acc.out \o <<e>> \o INSsOf(ins), insed |-> Insed(acc.insed, ins, e)]

\* The pre-pass: a synthetic INS before the first event that needs its target.
Visit(acc, e) ==
  LET ins == Missing(e, acc.insed)
  IN  [out |-> acc.out \o INSsOf(ins) \o <<e>>, insed |-> Insed(acc.insed, ins, e)]

Expanded(wave, insed) == FoldLeft(Visit, [out |-> << >>, insed |-> insed], wave)

\* The seqs of a whole wave are reserved before any of its events runs.
Reserved(evs, seq) == [i \in 1 .. Len(evs) |-> [seq |-> seq + i, ev |-> evs[i]]]

\* A DEF is a step of its own.
InStep(acc, x) ==
  IF x.ev.op # "DEF" /\ acc # << >> /\ Last(acc)[1].ev.op # "DEF"
  THEN [acc EXCEPT ![Len(acc)] = Append(@, x)]
  ELSE Append(acc, <<x>>)

splitWaveIntoSteps(wave) == FoldLeft(InStep, << >>, wave)

OfTarget(step, t) == Bucket(step, {x \in ToSet(step) : x.ev.on = t})

\* Two groups of a step meet in a row: a CON refreshes a row that another group
\* writes, or brings in a destination that another group instantiates.
Meets(s, b) ==
  \E i \in 1 .. Len(b) : \E d \in b[i].to \ {b[i].on} :
    \/ d \notin s.helix /\ \A j \in 1 .. Len(b) : ~(b[j].op = "INS" /\ b[j].on = d)
    \/ \E j \in (1 .. Len(b)) \ {i} : /\ HELIX_LEVEL[b[j].op] = 2
                                    /\ d \in {b[j].on} \union b[j].to

-----------------------------------------------------------------------------
(* The import and its groups. *)

Import == [n : Nat, pc : {"idle", "run", "shipped", "done"}, mode : {"shared", "isolated"},
           waves : Seq(Seq(Event)), steps : Seq(Seq(Planned)), insed : SUBSET Targets,
           batch : Seq(Event), from : Store, snap : Store]
Task   == [pc : {"check", "log", "read", "write"}, todo : Seq(Planned),
           ops : Seq([do : {"apply", "metrics", "declare", "cache"}, row : Targets]), copy : Row]

NoImport == [n |-> 0, pc |-> "idle", mode |-> "shared", waves |-> << >>, steps |-> << >>,
             insed |-> {}, batch |-> << >>, from |-> EmptyStore, snap |-> EmptyStore]
NoTask   == [pc |-> "check", todo |-> << >>, ops |-> << >>, copy |-> NoRow]

TypeOK ==
  /\ store \in Store
  /\ imp \in Import
  /\ task \in [(1 .. MaxImports) \X Targets -> Task]
  /\ mixed \in BOOLEAN
  /\ dispatches \in Nat

BulkInit ==
  /\ store = EmptyStore
  /\ imp = NoImport
  /\ task = [k \in (1 .. MaxImports) \X Targets |-> NoTask]
  /\ mixed = FALSE
  /\ dispatches = 0

\* Mutant: the next step or wave does not wait for the groups of the last one.
QuietAlways(n) == TRUE

\* Promise.all over the groups of a step.
Quiet(n) == \A t \in Targets : task[<<n, t>>].todo = << >>

\* processEvent holds the fold mutex from its first read to its last write.
Dispatch(e) ==
  /\ imp.pc = "idle" /\ \A n \in 1 .. MaxImports : Quiet(n)
  /\ dispatches < MaxDispatches
  /\ ~Throws(store, e)
  /\ store' = processEvent(store, e)
  /\ dispatches' = dispatches + 1
  /\ UNCHANGED <<imp, task, mixed>>

Begin(b, mode) ==
  /\ imp.pc = "idle" /\ imp.n < MaxImports
  /\ imp' = [n |-> imp.n + 1, pc |-> "run", mode |-> mode, waves |-> sortByHelixLevel(b),
             steps |-> << >>, insed |-> {}, batch |-> b, from |-> store, snap |-> EmptyStore]
  /\ mixed' = (mixed \/ Meets(store, b))
  /\ UNCHANGED <<store, task, dispatches>>

StartWave ==
  LET wave == Expanded(Head(imp.waves), imp.insed \union store.helix) IN
  /\ imp.pc = "run" /\ imp.waves # << >> /\ imp.steps = << >> /\ Quiet(imp.n)
  /\ imp' = [imp EXCEPT !.waves = Tail(@), !.insed = wave.insed,
                        !.steps = splitWaveIntoSteps(Reserved(wave.out, store.seq))]
  /\ store' = [store EXCEPT !.seq = @ + Len(wave.out)]
  /\ UNCHANGED <<task, mixed, dispatches>>

StartStep ==
  /\ imp.pc = "run" /\ imp.mode = "shared" /\ imp.steps # << >> /\ Quiet(imp.n)
  /\ task' = [k \in DOMAIN task |->
                IF k[1] = imp.n THEN [NoTask EXCEPT !.todo = OfTarget(Head(imp.steps), k[2])]
                ELSE task[k]]
  /\ imp' = [imp EXCEPT !.steps = Tail(@)]
  /\ UNCHANGED <<store, mixed, dispatches>>

Finish ==
  /\ imp.pc = "run" /\ imp.waves = << >> /\ imp.steps = << >> /\ Quiet(imp.n)
  /\ imp' = [imp EXCEPT !.pc = "done"]
  /\ UNCHANGED <<store, task, mixed, dispatches>>

Leave ==
  /\ imp.pc = "done"
  /\ imp' = [NoImport EXCEPT !.n = imp.n]
  /\ UNCHANGED <<store, task, mixed, dispatches>>

-----------------------------------------------------------------------------
(* A group of a shared import. *)

Working(k, pc) == task[k].pc = pc /\ task[k].todo # << >>
Doing(k)       == Head(task[k].todo).ev
GroupOnly      == UNCHANGED <<imp, mixed, dispatches>>

NextEvent(k) == [NoTask EXCEPT !.todo = Tail(task[k].todo)]
NextRow(k)   == [task[k] EXCEPT !.pc = "read", !.ops = Tail(@), !.copy = NoRow]

SkipKnown(k) ==
  /\ Working(k, "check") /\ Known(store, Doing(k))
  /\ task' = [task EXCEPT ![k] = NextEvent(k)]
  /\ GroupOnly /\ UNCHANGED store

CheckEvent(k) ==
  /\ Working(k, "check") /\ ~Known(store, Doing(k)) /\ ~Throws(store, Doing(k))
  /\ task' = [task EXCEPT ![k].pc = "log"]
  /\ GroupOnly /\ UNCHANGED store

\* The target exists: the import rejects and gives the mutex back, the other groups
\* run on.
RejectImport(k) ==
  /\ Working(k, "check") /\ Throws(store, Doing(k))
  /\ task' = [task EXCEPT ![k] = NoTask]
  /\ mixed' = TRUE
  /\ imp' = IF k[1] = imp.n /\ imp.pc = "run" THEN [NoImport EXCEPT !.n = imp.n] ELSE imp
  /\ UNCHANGED <<store, dispatches>>

LogEvent(k) ==
  /\ Working(k, "log")
  /\ store' = WithEdges(Logged(store, Head(task[k].todo)), Doing(k))
  /\ task' = [task EXCEPT ![k].pc = "read", ![k].ops = RowOps(Doing(k))]
  /\ GroupOnly

\* The first row the event still has to write is read; handleINS throws on a row that
\* came into being since the check, and the event ends there.
ReadRow(k) ==
  LET o == Head(task[k].ops)  row == store.rows[o.row] IN
  /\ Working(k, "read") /\ task[k].ops # << >> /\ o.do # "declare"
  /\ task' = [task EXCEPT ![k] =
                IF ~Skips(o, Doing(k), row) THEN [@ EXCEPT !.pc = "write", !.copy = row]
                ELSE IF o.do = "apply" THEN NextEvent(k) ELSE NextRow(k)]
  /\ GroupOnly /\ UNCHANGED store

WriteRow(k) ==
  LET o == Head(task[k].ops) IN
  /\ Working(k, "write")
  /\ store' = [store EXCEPT !.rows[o.row] =
                 Put(o, Doing(k), task[k].copy, @, store.edges)]
  /\ task' = [task EXCEPT ![k] = NextRow(k)]
  /\ GroupOnly

DeclareTarget(k) ==
  /\ Working(k, "read") /\ task[k].ops # << >> /\ Head(task[k].ops).do = "declare"
  /\ store' = Declared(store, Doing(k))
  /\ task' = [task EXCEPT ![k] = NextRow(k)]
  /\ GroupOnly

EndEvent(k) ==
  /\ Working(k, "read") /\ task[k].ops = << >>
  /\ task' = [task EXCEPT ![k] = NextEvent(k)]
  /\ GroupOnly /\ UNCHANGED store

GroupStep(k) == \/ SkipKnown(k) \/ CheckEvent(k) \/ RejectImport(k) \/ LogEvent(k)
                \/ ReadRow(k) \/ WriteRow(k) \/ DeclareTarget(k) \/ EndEvent(k)

-----------------------------------------------------------------------------
(* The shards of an isolated import. *)

\* The events of a shard, target by target in key order.
ShardEvents(step, i) ==
  FoldLeft(LAMBDA acc, t : IF ShardOf[t] = i THEN acc \o OfTarget(step, t) ELSE acc,
           << >>, TargetKeys)

\* A shard folds its events on the snapshot; it rejects on an INS over a row.
InShard(acc, x) == [ok |-> acc.ok /\ ~Throws(acc.s, x.ev), s |-> processEventCoreWithSeq(acc.s, x)]

ShardRun(snap, evs) == FoldLeft(InShard, [ok |-> TRUE, s |-> snap], evs)

\* The rows a shard put.
Touched(snap, evs, done) ==
  {t \in Targets : done.rows[t].on /\
     \E x \in ToSet(evs) : ~Known(snap, x.ev) /\ \E o \in ToSet(RowOps(x.ev)) : o.row = t}

\* Mutant: the log: keys a shard wrote are taken for its own and left behind.
MergeWithoutLog(s, snap, evs, done) ==
  [s EXCEPT !.rows  = [t \in Targets |-> IF t \in Touched(snap, evs, done) THEN done.rows[t] ELSE @[t]],
            !.edges = @ \union done.edges,
            !.helix = @ \union done.helix,
            !.idem  = @ \union done.idem]

\* applyMutations: the rows a shard wrote replace those of the store, whole.
Merge(s, snap, evs, done) ==
  [s EXCEPT !.rows  = [t \in Targets |-> IF t \in Touched(snap, evs, done) THEN done.rows[t] ELSE @[t]],
            !.edges = @ \union done.edges,
            !.helix = @ \union done.helix,
            !.idem  = @ \union done.idem,
            !.log   = @ \o SubSeq(done.log, Len(snap.log) + 1, Len(done.log))]

\* Then the metrics of every CON destination are computed on the merged store.
Reconciled(s, dests) ==
  [s EXCEPT !.rows = [t \in Targets |->
     IF t \in dests /\ @[t].on
     THEN [@[t] EXCEPT !.metrics = {x \in s.edges : t \in {x[1], x[2]}}] ELSE @[t]]]

Shards == [i \in 1 .. NumShards |-> i - 1]

\* The store is snapshotted and the step posted to the shard workers.
ShipStep ==
  /\ imp.pc = "run" /\ imp.mode = "isolated" /\ imp.steps # << >>
  /\ imp' = [imp EXCEPT !.pc = "shipped", !.snap = store]
  /\ UNCHANGED <<store, task, mixed, dispatches>>

Result(i) == ShardRun(imp.snap, ShardEvents(Head(imp.steps), i))

Merging(acc, i) == Merge(acc, imp.snap, ShardEvents(Head(imp.steps), i), Result(i).s)

\* All shards have answered: their rows go into the store in shard order.
MergeStep ==
  LET step  == Head(imp.steps)
      dests == UNION {step[i].ev.to : i \in 1 .. Len(step)}
  IN
  /\ imp.pc = "shipped"
  /\ \A i \in ToSet(Shards) : Result(i).ok
  /\ store' = Reconciled(FoldLeft(Merging, store, Shards), dests)
  /\ imp' = [imp EXCEPT !.pc = "run", !.steps = Tail(@), !.snap = EmptyStore]
  /\ UNCHANGED <<task, mixed, dispatches>>

\* One shard threw: what the others folded is dropped.
RejectStep ==
  /\ imp.pc = "shipped"
  /\ \E i \in ToSet(Shards) : ~Result(i).ok
  /\ imp' = [NoImport EXCEPT !.n = imp.n]
  /\ UNCHANGED <<store, task, mixed, dispatches>>

BulkNext ==
  \/ \E e \in Locals : Dispatch(e)
  \/ \E b \in Imports, mode \in Modes : Begin(b, mode)
  \/ StartWave \/ StartStep \/ ShipStep \/ MergeStep \/ RejectStep \/ Finish \/ Leave
  \/ \E k \in (1 .. MaxImports) \X Targets : GroupStep(k)

BulkSpec == BulkInit /\ [][BulkNext]_bulkVars

-----------------------------------------------------------------------------
(* Properties. *)

SameAsSerial == Projection(store) = Projection(SerialFold(imp.from, imp.batch))

\* An import, whatever the interleaving of its groups or the partition into shards,
\* leaves what the serial fold of the same events by helix level would, promotions
\* included, as long as no two groups of a step meet in a row (processEventsBulk,
\* processEventsBulkViaDispatcher against processEvent).
ImportEqualsSerial == imp.pc = "done" /\ ~mixed => SameAsSerial

\* The log alone rebuilds what a reader sees: replaying it into an empty store gives
\* the rows, edges and helix positions the folds and imports left.
LogRebuilds ==
  imp.pc \in {"idle", "done"} /\ ~mixed =>
    Projection(replayFromLog(store.log)) = Projection(store)

\* No operator is logged on a target before the target's INS, real or synthetic, has
\* got a lower seq, also when an import is cut short and another one takes over.
ConstitutedFirst ==
  \A i \in 1 .. Len(store.log) : store.log[i].ev.op \in NeedsINS =>
    \E j \in 1 .. Len(store.log) :
      /\ store.log[j].ev.op = "INS" /\ store.log[j].ev.on = store.log[i].ev.on
      /\ store.log[j].seq < store.log[i].seq
=============================================================================
