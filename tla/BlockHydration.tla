--------------------------- MODULE BlockHydration ---------------------------
(***************************************************************************)
(* How one device folds the block chain of a room into its store, and      *)
(* remembers how far it got (app/src/sync/block-hydration.ts, and its      *)
(* callers in components/Layout.tsx and BlockListSection.tsx).             *)
(*                                                                         *)
(* The cursor "hydrated up to block k" is kept twice: in localStorage      *)
(* (marker), written as soon as a run has folded its blocks, and in the kv *)
(* snapshot (saved.head), written with the map when the run flushes.       *)
(* Three runs can be in progress at a time: the one of the page load, the  *)
(* one of the listener for chain updates, and the forced one of the        *)
(* Uploaded Blocks panel.                                                  *)
(*                                                                         *)
(* Block k is the k-th of the chain and holds the timeline's events after  *)
(* cut[k-1] up to cut[k]; head 0 is an empty chain.                        *)
(***************************************************************************)
EXTENDS Integers, Sequences, FiniteSets

CONSTANTS
  LiveWindow,    \* how many EO events the live timeline shows after a page load
  LoseUnsaved,   \* TRUE: the page may die before the worker has saved what is folded
  MaxEvents,     \* bound: EO events in the timeline
  MaxBlocks,     \* bound: blocks in the chain
  MaxReloads,    \* bound: page loads after the first one
  MaxUpsets      \* bound: blocks disabled or enabled again, forced runs and failures

ASSUME HydrationAssumption ==
  /\ LoseUnsaved \in BOOLEAN
  /\ {LiveWindow, MaxEvents, MaxBlocks, MaxReloads, MaxUpsets} \subseteq Nat

VARIABLES
  room,      \* the room: posted events, block cutoffs, disabled blocks
  seen,      \* what /sync has delivered of it, and where the live timeline begins
  mem,       \* events folded into the in-memory store
  saved,     \* events the device's storage holds, and the snapshot's hydratedHead
  marker,    \* the hydrated head in localStorage
  run,       \* the hydration runs
  booting,   \* the page load has not started its run yet
  armed,     \* the listener's debounce timer is running
  used       \* page loads, toggles, forced runs and failures so far, blocks ever disabled

hydrVars == <<room, seen, mem, saved, marker, run, booting, armed, used>>

-----------------------------------------------------------------------------
(* Types. *)

Runs  == {"boot", "ingest", "reapply"}
Room  == [posted : Nat, cut : Seq(Nat), off : SUBSET Nat]
Seen  == [head : Nat, len : Nat, off : SUBSET Nat, base : Nat]
Run   == [pc : {"idle", "walk", "apply", "tail", "mark", "flush"},
          head : Nat, stop : Nat, todo : SUBSET Nat]
Spent == [reloads : Nat, toggles : Nat, reapplies : Nat, fails : Nat, off : SUBSET Nat]

NoRun == [pc |-> "idle", head |-> 0, stop |-> 0, todo |-> {}]

TypeOK ==
  /\ room \in Room
  /\ seen \in Seen
  /\ mem \in SUBSET Nat
  /\ saved \in [events : SUBSET Nat, head : Nat]
  /\ marker \in Nat
  /\ run \in [Runs -> Run]
  /\ booting \in BOOLEAN /\ armed \in BOOLEAN
  /\ used \in Spent

HydrInit ==
  /\ room = [posted |-> 0, cut |-> << >>, off |-> {}]
  /\ seen = [head |-> 0, len |-> 0, off |-> {}, base |-> 0]
  /\ mem = {}
  /\ saved = [events |-> {}, head |-> 0]
  /\ marker = 0
  /\ run = [r \in Runs |-> NoRun]
  /\ booting = TRUE
  /\ armed = FALSE
  /\ used = [reloads |-> 0, toggles |-> 0, reapplies |-> 0, fails |-> 0, off |-> {}]

-----------------------------------------------------------------------------
(* The room: others post events, seal them into blocks and toggle blocks. *)

CutoffOf(k) == IF k = 0 THEN 0 ELSE room.cut[k]
BlockEvents(k) == CutoffOf(k - 1) + 1 .. CutoffOf(k)
ChainLen == Len(room.cut)

MayUpset == used.toggles + used.reapplies + used.fails < MaxUpsets

RoomOnly == UNCHANGED <<seen, mem, saved, marker, run, booting, armed>>

PostEvent ==
  /\ room.posted < MaxEvents
  /\ room' = [room EXCEPT !.posted = @ + 1]
  /\ RoomOnly /\ UNCHANGED used

SealBlock ==
  /\ ChainLen < MaxBlocks
  /\ room.posted > CutoffOf(ChainLen)
  /\ room' = [room EXCEPT !.cut = Append(@, room.posted)]
  /\ RoomOnly /\ UNCHANGED used

\* setBlockDisabled, by this device or another.
ToggleBlock(k) ==
  /\ MayUpset
  /\ room' = [room EXCEPT !.off = IF k \in @ THEN @ \ {k} ELSE @ \union {k}]
  /\ used' = [used EXCEPT !.toggles = @ + 1, !.off = @ \union {k}]
  /\ RoomOnly

\* /sync delivers the room; a block, a head or a toggle arms the listener's timer.
Sync ==
  /\ seen' = [seen EXCEPT !.head = ChainLen, !.len = room.posted, !.off = room.off]
  /\ armed' = (armed \/ seen.head # ChainLen \/ seen.off # room.off)
  /\ UNCHANGED <<room, mem, saved, marker, run, booting, used>>

-----------------------------------------------------------------------------
(* Hydration runs. *)

\* The marker says that the chain has not moved, unless the run is forced.
FreshOnceMarked(force) == ~force /\ marker # 0
Fresh(force) == ~force /\ marker = seen.head

\* Where the backward walk stops.
StopAt(force) == IF force THEN 0 ELSE marker

\* hydrateBlocksIfStale: an empty chain has its tail folded, a chain that has not
\* moved past the marker is skipped, any other is walked back to the marker.
Begin(r, force) ==
  /\ run[r].pc = "idle"
  /\ IF seen.head = 0
     THEN /\ marker' = 0
          /\ run' = [run EXCEPT ![r] = [NoRun EXCEPT !.pc = "tail"]]
     ELSE /\ UNCHANGED marker
          /\ IF Fresh(force)
             THEN UNCHANGED run
             ELSE run' = [run EXCEPT ![r] =
                            [pc |-> "walk", head |-> seen.head, stop |-> StopAt(force),
                             todo |-> {}]]
  /\ UNCHANGED <<room, seen, mem, saved>>

BeginBoot == /\ booting /\ booting' = FALSE
             /\ Begin("boot", FALSE)
             /\ UNCHANGED <<armed, used>>

\* The timer fires while no run of the listener is in progress.
BeginIngest == /\ armed /\ armed' = FALSE
               /\ Begin("ingest", FALSE)
               /\ UNCHANGED <<booting, used>>

\* The timer fires while one is (ingestInFlight): the handler returns.
DropUpdate == /\ armed /\ armed' = FALSE
              /\ run["ingest"].pc # "idle"
              /\ UNCHANGED <<room, seen, mem, saved, marker, run, booting, used>>

BeginReapply == /\ MayUpset
                /\ used' = [used EXCEPT !.reapplies = @ + 1]
                /\ Begin("reapply", TRUE)
                /\ UNCHANGED <<booting, armed>>

RunOnly == UNCHANGED <<room, seen, booting, armed, used>>

\* The first block the walk reaches: the one after the stop block, or genesis.
FirstBlockLate(r)  == IF run[r].stop <= run[r].head THEN run[r].stop + 2 ELSE 1
FirstBlock(r) == IF run[r].stop <= run[r].head THEN run[r].stop + 1 ELSE 1

\* walkBlockChain from the head to the stop block (to genesis if it is not on the
\* way), then the blocks disabled by now are left out.
WalkChain(r) ==
  /\ run[r].pc = "walk"
  /\ run' = [run EXCEPT ![r] =
               [@ EXCEPT !.pc = "apply",
                         !.todo = (FirstBlock(r) .. run[r].head) \ seen.off]]
  /\ RunOnly /\ UNCHANGED <<mem, saved, marker>>

\* The blocks are folded in chain order.
ApplyBlock(r) ==
  /\ run[r].pc = "apply" /\ run[r].todo # {}
  /\ LET k == CHOOSE i \in run[r].todo : \A j \in run[r].todo : i <= j IN
     /\ mem' = mem \union BlockEvents(k)
     /\ run' = [run EXCEPT ![r].todo = @ \ {k}]
  /\ RunOnly /\ UNCHANGED <<saved, marker>>

BlocksDone(r) ==
  /\ run[r].pc = "apply" /\ run[r].todo = {}
  /\ run' = [run EXCEPT ![r].pc = "tail"]
  /\ RunOnly /\ UNCHANGED <<mem, saved, marker>>

\* applyTail: the events after the cutoff, none if the live timeline does not show
\* the cutoff event.
ApplyTail(r) ==
  LET cutoff == CutoffOf(run[r].head)
      first  == IF run[r].head = 0 THEN seen.base + 1 ELSE cutoff + 1 IN
  /\ run[r].pc = "tail"
  /\ mem' = IF run[r].head = 0 \/ cutoff > seen.base
            THEN mem \union (first .. seen.len) ELSE mem
  /\ run' = [run EXCEPT ![r].pc = IF run[r].head = 0 THEN "flush" ELSE "mark"]
  /\ RunOnly /\ UNCHANGED <<saved, marker>>

WriteMarker(r) ==
  /\ run[r].pc = "mark"
  /\ marker' = run[r].head
  /\ run' = [run EXCEPT ![r].pc = "flush"]
  /\ RunOnly /\ UNCHANGED <<mem, saved>>

\* The cursor the flush of a run saves: flushToOpfs(latestBlockEventId); the forced
\* run flushes without one and so keeps the one the last snapshot had.
FlushCursorOfRoom(r) == IF r = "reapply" THEN saved.head ELSE seen.head
FlushCursor(r) == IF r = "reapply" THEN saved.head ELSE run[r].head

FlushRun(r) ==
  /\ run[r].pc = "flush"
  /\ saved' = [events |-> saved.events \union mem, head |-> FlushCursor(r)]
  /\ run' = [run EXCEPT ![r] = NoRun]
  /\ RunOnly /\ UNCHANGED <<mem, marker>>

\* Something throws: the run ends, what it folded stays folded.
FailRun(r) ==
  /\ MayUpset
  /\ run[r].pc \in {"walk", "apply", "tail"}
  /\ run' = [run EXCEPT ![r] = NoRun]
  /\ used' = [used EXCEPT !.fails = @ + 1]
  /\ UNCHANGED <<room, seen, mem, saved, marker, booting, armed>>

-----------------------------------------------------------------------------
(* The device. *)

\* The fold worker saves an event that was folded.
Persist(e) ==
  /\ e \in mem \ saved.events
  /\ saved' = [saved EXCEPT !.events = @ \union {e}]
  /\ UNCHANGED <<room, seen, mem, marker, run, booting, armed, used>>

\* Where the live timeline begins after a page load.
LiveBaseUnclamped == room.posted - LiveWindow
LiveBase == IF room.posted > LiveWindow THEN room.posted - LiveWindow ELSE 0

\* The page is closed and loaded again.  The map is rebuilt from what was saved,
\* and a marker that is missing is restored from the snapshot's cursor.
Reload ==
  /\ used.reloads < MaxReloads
  /\ LoseUnsaved \/ mem \subseteq saved.events
  /\ used' = [used EXCEPT !.reloads = @ + 1]
  /\ mem' = saved.events
  /\ marker' = IF marker = 0 THEN saved.head ELSE marker
  /\ run' = [r \in Runs |-> NoRun]
  /\ booting' = TRUE
  /\ armed' = FALSE
  /\ seen' = [head |-> ChainLen, len |-> room.posted, off |-> room.off, base |-> LiveBase]
  /\ UNCHANGED <<room, saved>>

\* The browser drops localStorage.
ClearMarker ==
  /\ marker' = 0
  /\ UNCHANGED <<room, seen, mem, saved, run, booting, armed, used>>

RunStep(r) == \/ WalkChain(r) \/ ApplyBlock(r) \/ BlocksDone(r)
              \/ ApplyTail(r) \/ WriteMarker(r) \/ FlushRun(r)

HydrNext ==
  \/ PostEvent \/ SealBlock \/ \E k \in 1 .. ChainLen : ToggleBlock(k)
  \/ Sync
  \/ BeginBoot \/ BeginIngest \/ DropUpdate \/ BeginReapply
  \/ \E r \in Runs : RunStep(r) \/ FailRun(r)
  \/ \E e \in mem : Persist(e)
  \/ Reload \/ ClearMarker

HydrSpec == HydrInit /\ [][HydrNext]_hydrVars

\* Requests are answered, timers fire and /sync goes on.
HydrFairSpec ==
  /\ HydrSpec
  /\ WF_hydrVars(Sync) /\ WF_hydrVars(BeginBoot)
  /\ WF_hydrVars(BeginIngest \/ DropUpdate)
  /\ \A r \in Runs : WF_hydrVars(RunStep(r))

-----------------------------------------------------------------------------
(* Properties. *)

Folded(k) == k <= ChainLen /\ BlockEvents(k) \subseteq mem

\* What hydrateBlocksIfStale skips because of the marker is in the store: every block
\* up to the marker that was never disabled is folded, also when several runs that began
\* at different heads finish in any order, fail halfway, or start over.
MarkerCovers ==
  \A k \in 1 .. ChainLen : k <= marker /\ k \notin used.off => Folded(k)

\* The cursor in the snapshot is atomic with the map it is saved with.
CursorCovers ==
  \A k \in 1 .. ChainLen : k <= saved.head /\ k \notin used.off =>
                             BlockEvents(k) \subseteq saved.events

\* A page load catches up with every block it can see, as long as no run failed and no
\* block was ever disabled.
Smooth == used.toggles = 0 /\ used.fails = 0
BootCatchesUp ==
  \A k \in 1 .. MaxBlocks :
    (booting /\ k <= seen.head /\ Smooth) ~> (Folded(k) \/ ~Smooth)
=============================================================================
