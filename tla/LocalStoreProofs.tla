-------------------------- MODULE LocalStoreProofs --------------------------
(***************************************************************************)
(* Theorems about LocalStore, for any number of events, page loads and     *)
(* snapshots in flight, first with folds and flushes overlapping freely,   *)
(* then without, which is when nothing is forgotten.                       *)
(*                                                                         *)
(* SnapshotBacked rests on the order in which the worker takes its         *)
(* messages: an event's idem: key is put only after the event was posted,  *)
(* so a message that saves a map stands in the inbox behind the appends of *)
(* every event in that map.  BackedInv says so for each place a map can be *)
(* in on its way to kv-snapshot.bin.                                       *)
(***************************************************************************)
EXTENDS LocalStore, WellFoundedInduction, FiniteSetTheorems, TLAPS

\* Numbers have a least one among them.
LEMMA LeastNatural ==
  ASSUME NEW S \in SUBSET Nat, S # {}
  PROVE  \E x \in S : \A y \in S : x <= y
<1> DEFINE R == OpToRel(<, Nat)
<1>1. \A x, y \in Nat : x < y => <<x, y>> \in R
  BY Zenon DEF OpToRel
<1> HIDE DEF R
<1>2. PICK x \in S : \A y \in S : <<y, x>> \notin R
  <2>1. IsWellFoundedOn(R, Nat)
    BY NatLessThanWellFounded DEF R
  <2> QED
    BY <2>1, WFMin
<1>3. \A y \in S : ~(y < x)
  BY <1>1, <1>2
<1> QED
  BY <1>3

\* A bounded set of numbers has a greatest one.
LEMMA GreatestBelow ==
  ASSUME NEW S \in SUBSET Nat, S # {}, NEW B \in Nat, \A n \in S : n <= B
  PROVE  \E n \in S : \A m \in S : m <= n
<1> DEFINE D == {B - n : n \in S}
<1>1. D \in SUBSET Nat /\ D # {}
  <2>1. \A n \in S : B - n \in Nat
    OBVIOUS
  <2> QED
    BY <2>1
<1>2. PICK d \in D : \A c \in D : d <= c
  BY <1>1, LeastNatural
<1>3. PICK n \in S : d = B - n
  BY <1>2
<1>4. ASSUME NEW m \in S PROVE m <= n
  <2>1. B - n <= B - m
    BY <1>2, <1>3
  <2>2. m \in Nat /\ n \in Nat
    OBVIOUS
  <2> QED
    BY <2>1, <2>2
<1> QED
  BY <1>4

-----------------------------------------------------------------------------
(* Type correctness. *)

LEMMA EmptySnapshot == NoSnapshot \in Snapshot
BY DEF NoSnapshot, Snapshot, EmptyKv, Kv

LEMMA StoreInitTypeOK == StoreInit => TypeOK
<1> SUFFICES ASSUME StoreInit
    PROVE  TypeOK
  OBVIOUS
<1>1. EmptyKv \in Kv
  BY DEF EmptyKv, Kv
<1>2. NoSnapshot \in Snapshot
  BY EmptySnapshot
<1>3. NoFold \in Fold /\ NoFlush \in Flush
  BY DEF NoFold, Fold, NoFlush, Flush
<1>4. [pc |-> "ready", since |-> 0, at |-> 1] \in Boot
  BY DEF Boot
<1>5. [e \in Events |-> NoFold] \in [Events -> Fold]
  BY <1>3
<1>6. << >> \in Seq(Message) /\ << >> \in Seq(Snapshot) /\ << >> \in Seq(Entry)
  OBVIOUS
<1> QED
  BY <1>1, <1>2, <1>3, <1>4, <1>5, <1>6 DEF StoreInit, TypeOK

LEMMA ArrivalType ==
  ASSUME NEW arrival \in Arrivals
  PROVE  /\ Cardinality(DOMAIN arrival) \in Nat
         /\ \A e \in DOMAIN arrival : arrival[e] \in Nat
<1>1. PICK S \in SUBSET Events : arrival \in [S -> 1 .. Cardinality(S)]
  BY DEF Arrivals
<1>2. Cardinality(S) \in Nat
  BY <1>1, StoreAssumption, FS_Subset, FS_CardinalityType
<1> QED
  BY <1>1, <1>2

\* The steps of one event's fold keep it a fold, and touch no other.
LEMMA FoldTypes ==
  ASSUME TypeOK, NEW e \in Events
  PROVE  /\ folding[e] \in Fold
         /\ folding[e].seq \in Nat
         /\ [stage |-> "taken", seq |-> seq + 1] \in Fold
         /\ [folding[e] EXCEPT !.stage = "logged"] \in Fold
         /\ [folding[e] EXCEPT !.stage = "keyed"] \in Fold
         /\ NoFold \in Fold
BY DEF TypeOK, Fold, NoFold

\* The steps of a flush that post nothing.
FlushMove(f) ==
  \/ StartFlush(f) \/ StartManualSnapshot(f) \/ FlushWaits(f)
  \/ FlushQuiescent(f) \/ FlushDrained(f) \/ FlushReadSeq(f)

LEMMA FlushSteps ==
  ASSUME NEW f \in Flushers, StartFlush(f) \/ StartManualSnapshot(f) \/ FlushStep(f)
  PROVE  FlushMove(f) \/ FlushCapture(f)
BY DEF FlushMove, FlushStep

LEMMA StoreNextTypeOK == TypeOK /\ [StoreNext]_storeVars => TypeOK'
<1> SUFFICES ASSUME TypeOK, [StoreNext]_storeVars
    PROVE  TypeOK'
  OBVIOUS
<1>t. /\ kv \in Kv /\ seq \in Nat /\ folding \in [Events -> Fold]
      /\ foldsInFlight \in Nat /\ chunking \in BOOLEAN
      /\ flush \in [Flushers -> Flush] /\ inbox \in Seq(Message) /\ saving \in Seq(Snapshot)
      /\ opfs \in Seq(Entry) /\ snapshot \in Snapshot /\ boot \in Boot /\ reloads \in Nat
  BY DEF TypeOK
<1>s. \A s \in Snapshot : [kind |-> "save", snap |-> s] \in Message
  BY DEF Message
<1>at. /\ boot.at \in Nat \ {0}
       /\ [boot EXCEPT !.at = @ + 1] \in Boot
  <2>1. boot.at \in Nat \ {0}
    BY <1>t DEF Boot
  <2>2. boot.at + 1 \in Nat \ {0}
    BY <2>1
  <2>3. boot \in Boot
    BY <1>t
  <2> QED
    BY <2>1, <2>2, <2>3 DEF Boot
<1>1. ASSUME NEW e \in Events, Dispatch(e)
      PROVE  TypeOK'
  <2>1. folding' \in [Events -> Fold]
    BY <1>1, <1>t, FoldTypes DEF Dispatch, NextSeq
  <2>2. seq' \in Nat
    BY <1>1, <1>t DEF Dispatch, NextSeq
  <2> QED
    BY <1>1, <1>t, <2>1, <2>2 DEF Dispatch, NextSeq, TypeOK
<1>2. ASSUME NEW arrival \in Arrivals, BatchImport(arrival)
      PROVE  TypeOK'
  <2>1. seq' \in Nat
    BY <1>2, <1>t, ArrivalType DEF BatchImport, Reserved
  <2>2. folding' \in [Events -> Fold]
    <3>1. ASSUME NEW e \in Events
          PROVE  (IF e \in DOMAIN arrival THEN [stage |-> "taken", seq |-> seq + arrival[e]]
                  ELSE folding[e]) \in Fold
      <4>1. CASE e \in DOMAIN arrival
        <5>1. seq + arrival[e] \in Nat
          BY <4>1, <1>t, ArrivalType
        <5> QED
          BY <4>1, <5>1 DEF Fold
      <4>2. CASE e \notin DOMAIN arrival
        BY <4>2, <1>t
      <4> QED
        BY <4>1, <4>2
    <3> QED
      BY <1>2, <3>1 DEF BatchImport, Reserved
  <2> QED
    BY <1>2, <1>t, <2>1, <2>2 DEF BatchImport, Reserved, TypeOK
<1>3. ASSUME NEW e \in Events, SkipKnown(e)
      PROVE  TypeOK'
  BY <1>3, <1>t, FoldTypes DEF SkipKnown, Leave, TypeOK
<1>4. ASSUME NEW e \in Events, LogEvent(e)
      PROVE  TypeOK'
  <2> DEFINE entry == [seq |-> folding[e].seq, ev |-> e]
  <2>1. entry \in Entry
    BY FoldTypes DEF Entry
  <2>2. [kind |-> "append", entry |-> entry] \in Message
    BY <2>1 DEF Message
  <2>3. kv' \in Kv
    <3>1. kv' = [kv EXCEPT !.log = {x \in @ : x.seq # entry.seq} \union {entry}]
      BY <1>4 DEF LogEvent, PutLog, Post
    <3>2. {x \in kv.log : x.seq # entry.seq} \union {entry} \in SUBSET Entry
      BY <2>1, <1>t DEF Kv
    <3> QED
      BY <3>1, <3>2, <1>t DEF Kv
  <2>4. inbox' \in Seq(Message)
    BY <1>4, <1>t, <2>2 DEF LogEvent, PutLog, Post
  <2>5. folding' \in [Events -> Fold]
    BY <1>4, <1>t, FoldTypes DEF LogEvent, PutLog, Post
  <2> QED
    BY <1>4, <1>t, <2>3, <2>4, <2>5 DEF LogEvent, PutLog, Post, TypeOK
<1>5. ASSUME NEW e \in Events, KeyEvent(e)
      PROVE  TypeOK'
  <2>1. kv' \in Kv
    BY <1>5, <1>t DEF KeyEvent, Kv
  <2>2. folding' \in [Events -> Fold]
    BY <1>5, <1>t, FoldTypes DEF KeyEvent
  <2> QED
    BY <1>5, <1>t, <2>1, <2>2 DEF KeyEvent, TypeOK
<1>6. ASSUME NEW e \in Events, ExecuteEvent(e)
      PROVE  TypeOK'
  <2>1. kv' \in Kv
    BY <1>6, <1>t DEF ExecuteEvent, Kv
  <2>2. folding' \in [Events -> Fold] /\ chunking' \in BOOLEAN
    BY <1>6, <1>t, FoldTypes DEF ExecuteEvent, Leave
  <2> QED
    BY <1>6, <1>t, <2>1, <2>2 DEF ExecuteEvent, TypeOK
<1>6a. CASE EnterFold
  BY <1>6a, <1>t DEF EnterFold, TypeOK
<1>6b. CASE ExitFold
  <2>1. foldsInFlight' \in Nat
    BY <1>6b, <1>t DEF ExitFold, BetweenChunks
  <2>2. flush' \in [Flushers -> Flush]
    <3>1. \A f \in Flushers : [flush[f] EXCEPT !.pc = "quiesce"] \in Flush
      BY <1>t DEF Flush
    <3> QED
      BY <3>1, <1>6b, <1>t DEF ExitFold, Woken
  <2> QED
    BY <1>6b, <2>1, <2>2, <1>t DEF ExitFold, TypeOK
<1>7. ASSUME NEW f \in Flushers,
             NEW pc \in {"idle", "quiesce", "waiting", "drain", "read", "capture"}, NEW n \in Nat,
             FlushTo(f, pc, n), inbox' \in Seq(Message)
      PROVE  TypeOK'
  <2>1. flush' \in [Flushers -> Flush]
    BY <1>7, <1>t DEF FlushTo, Flush
  <2> QED
    BY <1>7, <2>1, <1>t DEF FlushTo, TypeOK
<1>8. ASSUME NEW f \in Flushers, FlushMove(f)
      PROVE  TypeOK'
  BY <1>8, <1>7, <1>t
  DEF FlushMove, StartFlush, StartManualSnapshot, FlushWaits, FlushQuiescent, FlushDrained,
      FlushReadSeq
<1>9. ASSUME NEW f \in Flushers, FlushCapture(f)
      PROVE  TypeOK'
  <2> DEFINE s == [hit |-> TRUE, seq |-> flush[f].seq, kv |-> kv]
             m == [kind |-> "save", snap |-> s]
  <2>1. s \in Snapshot
    BY <1>t DEF Snapshot, Flush
  <2>2. inbox' = Append(inbox, m)
    BY <1>9 DEF FlushCapture, Post
  <2>m. m \in Message
    BY <2>1, <1>s
  <2>3. inbox' \in Seq(Message)
    <3> HIDE DEF m
    <3> QED
      BY <2>2, <2>m, <1>t
  <2> QED
    BY <2>3, <1>9, <1>7 DEF FlushCapture, Post
<1>10. CASE WorkerAppend
  <2>1. Head(inbox) \in Message /\ Tail(inbox) \in Seq(Message)
    BY <1>10, <1>t DEF WorkerAppend
  <2>2. Head(inbox).entry \in Entry
    BY <2>1, <1>10 DEF WorkerAppend, Message
  <2> QED
    BY <2>1, <2>2, <1>10, <1>t DEF WorkerAppend, WorkerUnchanged, TypeOK
<1>11. CASE WorkerAppendFails
  BY <1>11, <1>t DEF WorkerAppendFails, WorkerUnchanged, TypeOK
<1>12. CASE WorkerSave
  <2>1. Head(inbox) \in Message /\ Tail(inbox) \in Seq(Message)
    BY <1>12, <1>t DEF WorkerSave
  <2>2. Head(inbox).snap \in Snapshot
    BY <2>1, <1>12 DEF WorkerSave, Message
  <2> QED
    BY <2>1, <2>2, <1>12, <1>t DEF WorkerSave, WorkerUnchanged, TypeOK
<1>13. CASE CommitSnapshot
  BY <1>13, <1>t DEF CommitSnapshot, WorkerUnchanged, TypeOK
<1>13a. CASE AbortSave
  BY <1>13a, <1>t DEF AbortSave, WorkerUnchanged, TypeOK
<1>14. CASE Reload
  <2>0. PICK s \in Snapshot : LoadFrom(s)
    BY <1>14, <1>t, EmptySnapshot DEF Reload
  <2>1. s.kv \in Kv /\ s.seq \in Nat
    BY DEF Snapshot
  <2>2. boot' \in Boot
    BY <2>0, <2>1 DEF LoadFrom, Boot
  <2>3. folding' \in [Events -> Fold] /\ flush' \in [Flushers -> Flush]
    <3>1. NoFold \in Fold /\ NoFlush \in Flush
      BY DEF NoFold, Fold, NoFlush, Flush
    <3> QED
      BY <3>1, <2>0 DEF LoadFrom
  <2>4. << >> \in Seq(Message) /\ << >> \in Seq(Snapshot)
    OBVIOUS
  <2>5. kv' \in Kv /\ seq' \in Nat /\ foldsInFlight' \in Nat /\ chunking' \in BOOLEAN
        /\ reloads' \in Nat
    <3>1. kv' = s.kv /\ seq' = s.seq /\ foldsInFlight' = 0 /\ chunking' = FALSE
      BY <2>0 DEF LoadFrom
    <3>2. reloads' = reloads + 1 /\ reloads \in Nat
      BY <2>0, <1>t DEF LoadFrom
    <3>3. kv' \in Kv /\ seq' \in Nat /\ foldsInFlight' \in Nat /\ chunking' \in BOOLEAN
      BY <3>1, <2>1
    <3>4. reloads' \in Nat
      BY <3>2
    <3> QED
      BY <3>3, <3>4
  <2>6. inbox' \in Seq(Message) /\ saving' \in Seq(Snapshot)
    BY <2>0, <2>4 DEF LoadFrom
  <2>7. opfs' \in Seq(Entry) /\ snapshot' \in Snapshot
    BY <2>0, <1>t DEF LoadFrom
  <2> QED
    BY <2>2, <2>3, <2>5, <2>6, <2>7 DEF TypeOK
<1>15. CASE ReplaySkip
  <2>1. boot' \in Boot
    BY <1>15, <1>at DEF ReplaySkip
  <2> QED
    BY <1>15, <2>1, <1>t DEF ReplaySkip, TypeOK
<1>16. CASE ReplayEvent
  <2> DEFINE e == opfs[boot.at].ev
  <2>1. boot.at \in 1 .. Len(opfs)
    BY <1>16, <1>at, <1>t DEF ReplayEvent, NextSeq, Relog, PutLog, Replaying
  <2>2. e \in Events /\ [seq |-> seq + 1, ev |-> e] \in Entry
    <3>1. opfs[boot.at] \in Entry
      BY <2>1, <1>t
    <3> QED
      BY <3>1, <1>t DEF Entry
  <2>3. kv' \in Kv
    <3> DEFINE new == {x \in kv.log : x.seq # seq + 1} \union {[seq |-> seq + 1, ev |-> e]}
    <3>1. new \in SUBSET Entry
      BY <2>2, <1>t DEF Kv
    <3>2. kv.idem \union {e} \in SUBSET Events /\ kv.state \union {e} \in SUBSET Events
      BY <2>2, <1>t DEF Kv
    <3>3. kv' = [log |-> new, idem |-> kv.idem \union {e}, state |-> kv.state \union {e}]
      BY <1>16 DEF ReplayEvent, NextSeq, Relog, PutLog
    <3> HIDE DEF e, new
    <3> QED
      BY <3>1, <3>2, <3>3 DEF Kv
  <2>4. boot' \in Boot
    BY <1>16, <1>at DEF ReplayEvent, NextSeq, Relog, PutLog
  <2> QED
    BY <1>16, <2>3, <2>4, <1>t DEF ReplayEvent, NextSeq, Relog, PutLog, TypeOK
<1>17. CASE ReplayDone
  <2> DEFINE s == [hit |-> TRUE, seq |-> seq, kv |-> kv]
             m == [kind |-> "save", snap |-> s]
  <2>1. s \in Snapshot
    BY <1>t DEF Snapshot
  <2>2. inbox' = Append(inbox, m)
    BY <1>17 DEF ReplayDone, Post
  <2>m. m \in Message
    BY <2>1, <1>s
  <2>3. inbox' \in Seq(Message)
    <3> HIDE DEF m
    <3> QED
      BY <2>2, <2>m, <1>t
  <2>4. boot' \in Boot
    BY <1>17, <1>t DEF ReplayDone, Post, Boot
  <2> QED
    BY <1>17, <2>3, <2>4, <1>t DEF ReplayDone, Post, TypeOK
<1>18. CASE UNCHANGED storeVars
  BY <1>18, <1>t DEF storeVars, TypeOK
<1> QED
  BY <1>1, <1>2, <1>3, <1>4, <1>5, <1>6, <1>6a, <1>6b, <1>8, <1>9, <1>10, <1>11, <1>12, <1>13,
     <1>13a, <1>14, <1>15, <1>16, <1>17, <1>18, FlushSteps
  DEF StoreNext, FoldStep, WorkerStep, ReplayStep

\* Type correctness of the map, the worker's inbox, the log and the snapshot.
THEOREM StoreTypeCorrect == StoreSpec => []TypeOK
BY StoreInitTypeOK, StoreNextTypeOK, PTL DEF StoreSpec

-----------------------------------------------------------------------------
(* No wake-up is lost: whoever waits, waits for a batch that is inside.    *)

LEMMA WokenNext == TypeOK /\ WaitersAreWoken /\ [StoreNext]_storeVars => WaitersAreWoken'
<1> SUFFICES ASSUME TypeOK, WaitersAreWoken, [StoreNext]_storeVars, NEW f \in Flushers,
                    flush'[f].pc = "waiting"
             PROVE  foldsInFlight' > 0
  BY DEF WaitersAreWoken
<1>t. flush \in [Flushers -> Flush] /\ foldsInFlight \in Nat
  BY DEF TypeOK
<1>q. seq \in Nat
  BY DEF TypeOK
<1>1. CASE flush' = flush /\ foldsInFlight' = foldsInFlight
  BY <1>1 DEF WaitersAreWoken
<1>2. CASE EnterFold
  BY <1>2, <1>t DEF EnterFold
<1>3. CASE ExitFold
  <2>1. foldsInFlight' = foldsInFlight - 1 /\ foldsInFlight > 0
    BY <1>3, <1>t DEF ExitFold, BetweenChunks
  <2>2. flush'[f] = IF foldsInFlight - 1 = 0 /\ flush[f].pc = "waiting"
                    THEN [flush[f] EXCEPT !.pc = "quiesce"] ELSE flush[f]
    BY <1>3 DEF ExitFold, Woken
  <2>3. [flush[f] EXCEPT !.pc = "quiesce"].pc = "quiesce"
    BY <1>t DEF Flush
  <2>4. foldsInFlight - 1 # 0
    BY <2>2, <2>3
  <2> QED
    BY <1>t, <2>1, <2>4
<1>4. ASSUME NEW g \in Flushers, FlushMove(g) \/ FlushCapture(g)
      PROVE  foldsInFlight' > 0
  <2>1. PICK pc \in {"idle", "quiesce", "waiting", "drain", "read", "capture"}, n \in Nat :
          FlushTo(g, pc, n) /\ (pc = "waiting" => foldsInFlight > 0)
    BY <1>4, <1>t, <1>q
    DEF FlushMove, StartFlush, StartManualSnapshot, FlushWaits, FlushQuiescent, FlushDrained,
        FlushReadSeq, FlushCapture
  <2>2. foldsInFlight' = foldsInFlight /\ flush' = [flush EXCEPT ![g] = [pc |-> pc, seq |-> n]]
    BY <2>1 DEF FlushTo
  <2>3. CASE f = g
    BY <1>t, <2>1, <2>2, <2>3
  <2>4. CASE f # g
    BY <1>t, <2>2, <2>4 DEF WaitersAreWoken
  <2> QED
    BY <2>3, <2>4
<1>5. CASE Reload
  <2>1. flush' = [g \in Flushers |-> NoFlush]
    BY <1>5 DEF Reload, LoadFrom
  <2> QED
    BY <2>1 DEF NoFlush
<1>6. ASSUME NEW e \in Events, Dispatch(e)
      PROVE  flush' = flush /\ foldsInFlight' = foldsInFlight
  BY <1>6 DEF Dispatch
<1>7. ASSUME NEW arrival \in Arrivals, BatchImport(arrival)
      PROVE  flush' = flush /\ foldsInFlight' = foldsInFlight
  BY <1>7 DEF BatchImport
<1>8. CASE FoldStep
  BY <1>1, <1>8 DEF FoldStep, SkipKnown, LogEvent, KeyEvent, ExecuteEvent
<1>9. CASE WorkerStep \/ WorkerAppendFails \/ CommitSnapshot \/ AbortSave
  BY <1>1, <1>9 DEF WorkerStep, WorkerAppend, WorkerSave, WorkerAppendFails, CommitSnapshot,
                    AbortSave, WorkerUnchanged
<1>10. CASE ReplayStep
  BY <1>1, <1>10 DEF ReplayStep, ReplaySkip, ReplayEvent, ReplayDone
<1>11. CASE UNCHANGED storeVars
  BY <1>1, <1>11 DEF storeVars
<1> QED
  BY <1>1, <1>2, <1>3, <1>4, <1>5, <1>6, <1>7, <1>8, <1>9, <1>10, <1>11, FlushSteps DEF StoreNext

\* A flush waits in foldQuiescentWaiters only while a batch is inside the gate, for any
\* number of flushes and of overlapping batches (enterFold, exitFold, awaitFoldQuiescent).
THEOREM NoWakeUpIsLost == StoreSpec => []WaitersAreWoken
<1>1. StoreInit => WaitersAreWoken
  BY DEF StoreInit, WaitersAreWoken, NoFlush
<1> QED
  BY <1>1, StoreInitTypeOK, StoreNextTypeOK, WokenNext, PTL DEF StoreSpec

-----------------------------------------------------------------------------
(* What the worker has appended when it reaches the n-th message of its inbox. *)

Posts(n)  == {i \in 1 .. n : inbox[i].kind = "append"}
Posted(n) == Logged \union {inbox[i].entry.ev : i \in Posts(n)}
AllPosted == Posted(Len(inbox))

SavesBacked ==
  \A i \in 1 .. Len(inbox) : inbox[i].kind = "save" => inbox[i].snap.kv.idem \subseteq Posted(i)

MapPosted ==
  /\ kv.idem \subseteq AllPosted
  /\ \A e \in Events : folding[e].stage \in {"logged", "keyed"} => e \in AllPosted

SavingBacked == \A i \in 1 .. Len(saving) : saving[i].kv.idem \subseteq Logged

BackedInv == SnapshotBacked /\ SavingBacked /\ SavesBacked /\ MapPosted

\* Steps that touch neither the worker's files nor its inbox.
LEMMA QuietBacked ==
  ASSUME BackedInv, UNCHANGED <<inbox, saving, opfs, snapshot>>, MapPosted'
  PROVE  BackedInv'
BY DEF BackedInv, SnapshotBacked, SavingBacked, SavesBacked, Posted, Posts, Logged

\* A message that is posted changes nothing for the messages before it.
LEMMA PostKeeps ==
  ASSUME TypeOK, NEW m \in Message, inbox' = Append(inbox, m), UNCHANGED opfs
  PROVE  /\ Len(inbox') = Len(inbox) + 1
         /\ inbox'[Len(inbox) + 1] = m
         /\ \A i \in 1 .. Len(inbox) : inbox'[i] = inbox[i] /\ Posted(i)' = Posted(i)
         /\ AllPosted \subseteq AllPosted'
         /\ m.kind = "append" => m.entry.ev \in AllPosted'
<1>1. inbox \in Seq(Message) /\ Len(inbox) \in Nat
  BY DEF TypeOK
<1>2. /\ Len(inbox') = Len(inbox) + 1
      /\ inbox'[Len(inbox) + 1] = m
      /\ \A i \in 1 .. Len(inbox) : inbox'[i] = inbox[i]
  BY <1>1
<1>3. ASSUME NEW i \in 1 .. Len(inbox)
      PROVE  Posted(i)' = Posted(i)
  <2>1. \A j \in 1 .. i : inbox'[j] = inbox[j]
    BY <1>1, <1>2
  <2>2. Posts(i)' = Posts(i)
    BY <2>1 DEF Posts
  <2>3. \A j \in Posts(i) : inbox'[j] = inbox[j]
    BY <2>1 DEF Posts
  <2>4. Logged' = Logged
    BY DEF Logged
  <2> QED
    BY <2>2, <2>3, <2>4 DEF Posted
<1>4. PICK n \in Nat : n = Len(inbox)
  BY <1>1
<1>5. AllPosted = Posted(n) /\ AllPosted' = Posted(n + 1)'
  BY <1>2, <1>4 DEF AllPosted
<1>6. \A j \in Posts(n) : inbox'[j] = inbox[j] /\ j \in Posts(n + 1)'
  BY <1>2, <1>4 DEF Posts
<1>7. Logged' = Logged
  BY DEF Logged
<1>8. AllPosted \subseteq AllPosted'
  BY <1>5, <1>6, <1>7 DEF Posted
<1>9. ASSUME m.kind = "append"
      PROVE  m.entry.ev \in AllPosted'
  <2>1. n + 1 \in Posts(n + 1)' /\ inbox'[n + 1] = m
    BY <1>2, <1>4, <1>9 DEF Posts
  <2> QED
    BY <2>1, <1>5 DEF Posted
<1> QED
  BY <1>2, <1>3, <1>8, <1>9

\* When the worker appends the first entry, what was posted up to a message is
\* still posted up to it.
LEMMA AppendKeeps ==
  ASSUME TypeOK, WorkerAppend, NEW i \in 0 .. Len(inbox) - 1
  PROVE  Posted(i + 1) \subseteq Posted(i)' /\ Logged \subseteq Logged'
<1>1. /\ inbox \in Seq(Message) /\ inbox # << >> /\ Head(inbox).kind = "append"
      /\ opfs \in Seq(Entry) /\ Head(inbox) \in Message /\ Head(inbox).entry \in Entry
  BY DEF TypeOK, WorkerAppend, Message
<1>2. /\ opfs' = Append(opfs, Head(inbox).entry)
      /\ inbox' = Tail(inbox)
  BY DEF WorkerAppend
<1>3. Logged' = Logged \union {Head(inbox).entry.ev}
  <2> DEFINE x == Head(inbox).entry
  <2>1. x \in Entry /\ opfs' = Append(opfs, x)
    BY <1>1, <1>2
  <2>2. /\ Len(opfs') = Len(opfs) + 1 /\ Len(opfs) \in Nat
        /\ opfs'[Len(opfs) + 1] = x
        /\ \A j \in 1 .. Len(opfs) : opfs'[j] = opfs[j]
    <3> HIDE DEF x
    <3> QED
      BY <2>1, <1>1
  <2> HIDE DEF x
  <2>3. Logged' = Logged \union {x.ev}
    BY <2>2 DEF Logged
  <2> QED
    BY <2>3 DEF x
<1>4. /\ Len(inbox) \in Nat /\ Len(inbox) > 0
      /\ \A j \in 1 .. Len(inbox) - 1 : inbox'[j] = inbox[j + 1]
      /\ inbox[1] = Head(inbox)
  BY <1>1, <1>2
<1>5. ASSUME NEW j \in Posts(i + 1)
      PROVE  inbox[j].entry.ev \in Posted(i)'
  <2>1. CASE j = 1
    BY <2>1, <1>3, <1>4 DEF Posted
  <2>2. CASE j # 1
    <3>1. j - 1 \in 1 .. i /\ inbox'[j - 1] = inbox[j] /\ inbox[j].kind = "append"
      BY <2>2, <1>4 DEF Posts
    <3>2. j - 1 \in Posts(i)'
      BY <3>1 DEF Posts
    <3> QED
      BY <3>1, <3>2 DEF Posted
  <2> QED
    BY <2>1, <2>2
<1> QED
  BY <1>3, <1>5 DEF Posted
LEMMA StoreInitBacked == StoreInit => BackedInv
BY DEF StoreInit, BackedInv, SnapshotBacked, SavingBacked, SavesBacked, MapPosted, NoSnapshot,
   EmptyKv, NoFold

\* A snapshot of the map that is posted behind everything else.
LEMMA SavePosted ==
  ASSUME TypeOK, BackedInv, NEW s \in Snapshot, s.kv = kv,
         inbox' = Append(inbox, [kind |-> "save", snap |-> s]),
         UNCHANGED <<kv, folding, saving, opfs, snapshot>>
  PROVE  BackedInv'
<1> DEFINE m == [kind |-> "save", snap |-> s]
<1>1. m \in Message /\ m.kind = "save" /\ m.snap = s
  BY DEF Message
<1>2. inbox' = Append(inbox, m)
  OBVIOUS
<1> HIDE DEF m
<1>3. /\ Len(inbox) \in Nat /\ Len(inbox') = Len(inbox) + 1
      /\ inbox'[Len(inbox) + 1] = m
      /\ \A i \in 1 .. Len(inbox) : inbox'[i] = inbox[i] /\ Posted(i)' = Posted(i)
      /\ AllPosted \subseteq AllPosted'
  BY <1>1, <1>2, PostKeeps DEF TypeOK
<1>4. MapPosted'
  BY <1>3 DEF BackedInv, MapPosted
<1>5. ASSUME NEW i \in 1 .. Len(inbox'), inbox'[i].kind = "save"
      PROVE  inbox'[i].snap.kv.idem \subseteq Posted(i)'
  <2>1. CASE i \in 1 .. Len(inbox)
    BY <2>1, <1>3, <1>5 DEF BackedInv, SavesBacked
  <2>2. CASE i = Len(inbox')
    <3>1. inbox'[i] = m /\ m.snap.kv.idem = kv.idem
      BY <2>2, <1>1, <1>3
    <3>2. Posted(i)' = AllPosted'
      BY <2>2 DEF AllPosted
    <3> QED
      BY <3>1, <3>2, <1>3 DEF BackedInv, MapPosted
  <2> QED
    BY <2>1, <2>2, <1>3
<1>6. SavesBacked'
  BY <1>5 DEF SavesBacked
<1>7. SavingBacked' /\ SnapshotBacked'
  BY DEF BackedInv, SavingBacked, SnapshotBacked, Logged
<1> QED
  BY <1>4, <1>6, <1>7 DEF BackedInv

LEMMA StoreNextBacked ==
  ASSUME AppendMayFail = FALSE
  PROVE  TypeOK /\ BackedInv /\ [StoreNext]_storeVars => BackedInv'
<1> SUFFICES ASSUME TypeOK, BackedInv, [StoreNext]_storeVars
    PROVE  BackedInv'
  OBVIOUS
<1> USE DEF BackedInv
<1>t. /\ kv \in Kv /\ folding \in [Events -> Fold] /\ snapshot \in Snapshot
      /\ inbox \in Seq(Message) /\ saving \in Seq(Snapshot) /\ opfs \in Seq(Entry)
      /\ Len(inbox) \in Nat
  BY DEF TypeOK
<1>p. UNCHANGED <<inbox, opfs>> => AllPosted' = AllPosted
  BY DEF AllPosted, Posted, Posts, Logged
<1>1. ASSUME NEW e \in Events, Dispatch(e)
      PROVE  BackedInv'
  <2>1. MapPosted'
    BY <1>1, <1>t, <1>p DEF Dispatch, NextSeq, MapPosted
  <2> QED
    BY <1>1, <2>1, QuietBacked DEF Dispatch, NextSeq
<1>2. ASSUME NEW arrival \in Arrivals, BatchImport(arrival)
      PROVE  BackedInv'
  <2>1. MapPosted'
    BY <1>2, <1>t, <1>p DEF BatchImport, Reserved, MapPosted
  <2> QED
    BY <1>2, <2>1, QuietBacked DEF BatchImport, Reserved
<1>3. ASSUME NEW e \in Events, SkipKnown(e) \/ ExecuteEvent(e)
      PROVE  BackedInv'
  <2>1. kv'.idem = kv.idem
    BY <1>3, <1>t DEF SkipKnown, ExecuteEvent, Kv
  <2>2. \A d \in Events : folding'[d].stage \in {"logged", "keyed"} =>
                            folding[d].stage \in {"logged", "keyed"}
    BY <1>3, <1>t DEF SkipKnown, ExecuteEvent, Leave, NoFold
  <2>3. MapPosted'
    BY <1>3, <1>p, <2>1, <2>2 DEF SkipKnown, ExecuteEvent, MapPosted
  <2> QED
    BY <1>3, <2>3, QuietBacked DEF SkipKnown, ExecuteEvent
<1>4. ASSUME NEW e \in Events, LogEvent(e)
      PROVE  BackedInv'
  <2> DEFINE entry == [seq |-> folding[e].seq, ev |-> e]
             m == [kind |-> "append", entry |-> entry]
  <2>1. m \in Message /\ m.kind = "append" /\ m.entry.ev = e
    BY FoldTypes DEF Message, Entry
  <2>2. inbox' = Append(inbox, m)
    BY <1>4 DEF LogEvent, PutLog, Post
  <2>3. kv'.idem = kv.idem
    BY <1>4, <1>t DEF LogEvent, PutLog, Post, Kv
  <2>4. /\ \A d \in Events : d # e => folding'[d] = folding[d]
        /\ UNCHANGED <<saving, opfs, snapshot>>
    BY <1>4, <1>t DEF LogEvent, PutLog, Post
  <2> HIDE DEF entry, m
  <2>5. /\ Len(inbox') = Len(inbox) + 1
        /\ inbox'[Len(inbox) + 1] = m
        /\ \A i \in 1 .. Len(inbox) : inbox'[i] = inbox[i] /\ Posted(i)' = Posted(i)
        /\ AllPosted \subseteq AllPosted'
        /\ e \in AllPosted'
    BY <2>1, <2>2, <2>4, PostKeeps
  <2>6. MapPosted'
    BY <2>3, <2>4, <2>5 DEF MapPosted
  <2>7. SavesBacked'
    <3> SUFFICES ASSUME NEW i \in 1 .. Len(inbox'), inbox'[i].kind = "save"
        PROVE  inbox'[i].snap.kv.idem \subseteq Posted(i)'
      BY DEF SavesBacked
    <3>1. i # Len(inbox) + 1
      BY <2>1, <2>5
    <3>2. i \in 1 .. Len(inbox)
      BY <3>1, <2>5, <1>t
    <3> QED
      BY <3>2, <2>5 DEF SavesBacked
  <2>8. SavingBacked' /\ SnapshotBacked'
    BY <2>4 DEF SavingBacked, SnapshotBacked, Logged
  <2> QED
    BY <2>6, <2>7, <2>8
<1>5. ASSUME NEW e \in Events, KeyEvent(e)
      PROVE  BackedInv'
  <2>1. kv'.idem = kv.idem \union {e} /\ e \in AllPosted
    BY <1>5, <1>t DEF KeyEvent, Kv, MapPosted
  <2>2. \A d \in Events : folding'[d].stage \in {"logged", "keyed"} =>
                            folding[d].stage \in {"logged", "keyed"}
    BY <1>5, <1>t DEF KeyEvent
  <2>3. MapPosted'
    BY <1>5, <1>p, <2>1, <2>2 DEF KeyEvent, MapPosted
  <2> QED
    BY <1>5, <2>3, QuietBacked DEF KeyEvent
<1>6. ASSUME UNCHANGED <<kv, folding, inbox, saving, opfs, snapshot>>
      PROVE  BackedInv'
  <2>1. MapPosted'
    BY <1>6, <1>p DEF MapPosted
  <2> QED
    BY <1>6, <2>1, QuietBacked
<1>6a. CASE EnterFold \/ ExitFold
  BY <1>6a, <1>6 DEF EnterFold, ExitFold
<1>7. ASSUME NEW f \in Flushers, FlushMove(f)
      PROVE  BackedInv'
  BY <1>7, <1>6
  DEF FlushMove, StartFlush, StartManualSnapshot, FlushWaits, FlushQuiescent, FlushDrained,
      FlushReadSeq, FlushTo
<1>8. ASSUME NEW f \in Flushers, FlushCapture(f)
      PROVE  BackedInv'
  <2> DEFINE s == [hit |-> TRUE, seq |-> flush[f].seq, kv |-> kv]
  <2>1. s \in Snapshot /\ s.kv = kv
    BY DEF TypeOK, Snapshot, Flush
  <2>2. inbox' = Append(inbox, [kind |-> "save", snap |-> s])
    BY <1>8 DEF FlushCapture, Post
  <2>3. UNCHANGED <<kv, folding, saving, opfs, snapshot>>
    BY <1>8 DEF FlushCapture, Post, FlushTo
  <2> HIDE DEF s
  <2> QED
    BY <2>1, <2>2, <2>3, SavePosted
<1>9. CASE WorkerAppend
  <2>1. /\ inbox' = Tail(inbox) /\ inbox # << >>
        /\ UNCHANGED <<kv, folding, saving, snapshot>>
    BY <1>9 DEF WorkerAppend, WorkerUnchanged
  <2>2. /\ Len(inbox) > 0 /\ Len(inbox') = Len(inbox) - 1
        /\ \A i \in 1 .. Len(inbox') : inbox'[i] = inbox[i + 1]
    BY <2>1, <1>t
  <2>3. AllPosted \subseteq AllPosted'
    <3>1. PICK n \in 0 .. Len(inbox) - 1 : n + 1 = Len(inbox) /\ n = Len(inbox')
      BY <2>2, <1>t
    <3>2. AllPosted = Posted(n + 1) /\ AllPosted' = Posted(n)'
      BY <3>1 DEF AllPosted
    <3> QED
      BY <3>1, <3>2, <1>9, AppendKeeps
  <2>4. MapPosted'
    BY <2>1, <2>3 DEF MapPosted
  <2>5. SavesBacked'
    <3> SUFFICES ASSUME NEW i \in 1 .. Len(inbox'), inbox'[i].kind = "save"
        PROVE  inbox'[i].snap.kv.idem \subseteq Posted(i)'
      BY DEF SavesBacked
    <3>1. inbox'[i] = inbox[i + 1] /\ i + 1 \in 1 .. Len(inbox) /\ i \in 0 .. Len(inbox) - 1
      BY <2>2, <1>t
    <3>2. inbox'[i].snap.kv.idem \subseteq Posted(i + 1)
      BY <3>1 DEF SavesBacked
    <3> QED
      BY <3>1, <3>2, <1>9, AppendKeeps
  <2>6. Logged \subseteq Logged'
    BY <2>2, <1>t, <1>9, AppendKeeps
  <2>7. SavingBacked' /\ SnapshotBacked'
    BY <2>1, <2>6 DEF SavingBacked, SnapshotBacked
  <2> QED
    BY <2>4, <2>5, <2>7
<1>10. CASE WorkerSave
  <2>1. /\ inbox' = Tail(inbox) /\ inbox # << >> /\ Head(inbox).kind = "save"
        /\ saving' = Append(saving, Head(inbox).snap)
        /\ UNCHANGED <<kv, folding, opfs, snapshot>>
    BY <1>10 DEF WorkerSave, WorkerUnchanged
  <2>2. /\ Len(inbox) > 0 /\ Len(inbox') = Len(inbox) - 1
        /\ \A i \in 1 .. Len(inbox') : inbox'[i] = inbox[i + 1]
        /\ Head(inbox) = inbox[1]
    BY <2>1, <1>t
  <2>3. ASSUME NEW i \in 0 .. Len(inbox')
        PROVE  Posted(i + 1) \subseteq Posted(i)'
    <3>1. ASSUME NEW j \in Posts(i + 1)
          PROVE  inbox[j].entry.ev \in Posted(i)'
      <4>1. j # 1
        BY <3>1, <2>1, <2>2 DEF Posts
      <4>2. j - 1 \in 1 .. i /\ inbox'[j - 1] = inbox[j] /\ inbox[j].kind = "append"
        BY <3>1, <4>1, <2>2, <1>t DEF Posts
      <4> QED
        BY <4>2 DEF Posted, Posts
    <3>2. Logged' = Logged
      BY <2>1 DEF Logged
    <3> QED
      BY <3>1, <3>2 DEF Posted
  <2>4. MapPosted'
    <3>1. PICK n \in 0 .. Len(inbox') : n + 1 = Len(inbox) /\ n = Len(inbox')
      BY <2>2, <1>t
    <3>2. AllPosted \subseteq AllPosted'
      BY <3>1, <2>3 DEF AllPosted
    <3> QED
      BY <2>1, <3>2 DEF MapPosted
  <2>5. SavesBacked'
    <3> SUFFICES ASSUME NEW i \in 1 .. Len(inbox'), inbox'[i].kind = "save"
        PROVE  inbox'[i].snap.kv.idem \subseteq Posted(i)'
      BY DEF SavesBacked
    <3>1. inbox'[i] = inbox[i + 1] /\ i + 1 \in 1 .. Len(inbox) /\ i \in 0 .. Len(inbox')
      BY <2>2, <1>t
    <3>2. inbox'[i].snap.kv.idem \subseteq Posted(i + 1)
      BY <3>1 DEF SavesBacked
    <3> QED
      BY <3>1, <3>2, <2>3
  <2>6. SavingBacked'
    <3> DEFINE x == inbox[1].snap
    <3>1. x \in Snapshot
      BY <2>1, <2>2, <1>t DEF Message
    <3>2. x.kv.idem \subseteq Logged
      <4>1. Posts(1) = {}
        BY <2>1, <2>2 DEF Posts
      <4>2. Posted(1) = Logged
        BY <4>1 DEF Posted
      <4>3. x.kv.idem \subseteq Posted(1)
        BY <2>1, <2>2, <1>t DEF SavesBacked
      <4> QED
        BY <4>2, <4>3
    <3>3. saving' = Append(saving, x)
      BY <2>1, <2>2
    <3> HIDE DEF x
    <3>4. \A i \in 1 .. Len(saving') : saving'[i] = x \/ (i \in 1 .. Len(saving) /\ saving'[i] = saving[i])
      BY <3>1, <3>3, <1>t
    <3>5. Logged' = Logged
      BY <2>1 DEF Logged
    <3> QED
      BY <3>2, <3>4, <3>5 DEF SavingBacked
  <2>7. SnapshotBacked'
    BY <2>1 DEF SnapshotBacked, Logged
  <2> QED
    BY <2>4, <2>5, <2>6, <2>7
<1>11. CASE WorkerAppendFails
  BY <1>11 DEF WorkerAppendFails
<1>12. CASE CommitSnapshot
  <2>1. /\ saving # << >> /\ snapshot' = Head(saving) /\ saving' = Tail(saving)
        /\ UNCHANGED <<kv, folding, inbox, opfs>>
    BY <1>12 DEF CommitSnapshot, WorkerUnchanged
  <2>2. /\ Len(saving) \in Nat /\ Len(saving) > 0 /\ Len(saving') = Len(saving) - 1
        /\ \A i \in 1 .. Len(saving') : saving'[i] = saving[i + 1]
        /\ Head(saving) = saving[1]
    BY <2>1, <1>t
  <2>3. SnapshotBacked' /\ SavingBacked'
    BY <2>1, <2>2 DEF SnapshotBacked, SavingBacked, Logged
  <2>4. MapPosted' /\ SavesBacked'
    BY <2>1, <1>p DEF MapPosted, SavesBacked, Posted, Posts, Logged
  <2> QED
    BY <2>3, <2>4
<1>12a. CASE AbortSave
  <2>1. /\ saving # << >> /\ saving' = Tail(saving)
        /\ UNCHANGED <<kv, folding, inbox, opfs, snapshot>>
    BY <1>12a DEF AbortSave, WorkerUnchanged
  <2>2. /\ Len(saving) \in Nat /\ Len(saving) > 0 /\ Len(saving') = Len(saving) - 1
        /\ \A i \in 1 .. Len(saving') : saving'[i] = saving[i + 1]
    BY <2>1, <1>t
  <2>3. SnapshotBacked' /\ SavingBacked'
    BY <2>1, <2>2 DEF SnapshotBacked, SavingBacked, Logged
  <2>4. MapPosted' /\ SavesBacked'
    BY <2>1, <1>p DEF MapPosted, SavesBacked, Posted, Posts, Logged
  <2> QED
    BY <2>3, <2>4
<1>13. CASE Reload
  <2>0. PICK s : LoadFrom(s) /\ (s = snapshot \/ s = NoSnapshot)
    BY <1>13 DEF Reload
  <2>1. /\ kv' = s.kv /\ folding' = [e \in Events |-> NoFold]
        /\ inbox' = << >> /\ saving' = << >> /\ UNCHANGED <<opfs, snapshot>>
    BY <2>0 DEF LoadFrom
  <2>s. s.kv.idem \subseteq Logged
    BY <2>0 DEF SnapshotBacked, NoSnapshot, EmptyKv
  <2>2. Logged' = Logged /\ Logged' \subseteq AllPosted'
    BY <2>1 DEF Logged, AllPosted, Posted
  <2>3. MapPosted'
    BY <2>1, <2>2, <2>s DEF MapPosted, NoFold
  <2>4. Len(inbox') = 0 /\ Len(saving') = 0
    BY <2>1
  <2> QED
    BY <2>1, <2>2, <2>3, <2>4 DEF SnapshotBacked, SavingBacked, SavesBacked
<1>14. CASE ReplaySkip
  BY <1>14, <1>6 DEF ReplaySkip
<1>15. CASE ReplayEvent
  <2>1. boot.at \in 1 .. Len(opfs) /\ opfs[boot.at].ev \in Logged
    BY <1>15, <1>t DEF ReplayEvent, NextSeq, Relog, PutLog, Replaying, TypeOK, Boot, Logged
  <2>2. kv'.idem = kv.idem \union {opfs[boot.at].ev}
    BY <1>15 DEF ReplayEvent, NextSeq, Relog, PutLog
  <2>3. UNCHANGED <<folding, inbox, saving, opfs, snapshot>>
    BY <1>15 DEF ReplayEvent, NextSeq, Relog, PutLog
  <2>4. opfs[boot.at].ev \in AllPosted
    BY <2>1 DEF AllPosted, Posted
  <2>5. MapPosted'
    BY <2>2, <2>3, <2>4, <1>p DEF MapPosted
  <2> QED
    BY <2>3, <2>5, QuietBacked
<1>16. CASE ReplayDone
  <2> DEFINE s == [hit |-> TRUE, seq |-> seq, kv |-> kv]
  <2>1. s \in Snapshot /\ s.kv = kv
    BY DEF TypeOK, Snapshot
  <2>2. inbox' = Append(inbox, [kind |-> "save", snap |-> s])
    BY <1>16 DEF ReplayDone, Post
  <2>3. UNCHANGED <<kv, folding, saving, opfs, snapshot>>
    BY <1>16 DEF ReplayDone, Post
  <2> HIDE DEF s
  <2> QED
    BY <2>1, <2>2, <2>3, SavePosted
<1>17. CASE UNCHANGED storeVars
  BY <1>17, <1>6 DEF storeVars
<1> QED
  BY <1>1, <1>2, <1>3, <1>4, <1>5, <1>6a, <1>7, <1>8, <1>9, <1>10, <1>11, <1>12, <1>12a, <1>13,
     <1>14, <1>15, <1>16, <1>17, FlushSteps
  DEF StoreNext, FoldStep, WorkerStep, ReplayStep

\* If no append is ever lost, a snapshot on disk holds only events that the OPFS log holds,
\* however folds, flushes and page loads interleave: the worker's inbox is first in, first
\* out, and the idem: key is put after the event was posted (kv snapshot and log of
\* workers/fold.worker.ts).
THEOREM SnapshotIsBacked ==
  ASSUME AppendMayFail = FALSE
  PROVE  StoreSpec => []SnapshotBacked
<1>1. StoreInit => TypeOK /\ BackedInv
  BY StoreInitTypeOK, StoreInitBacked
<1>2. TypeOK /\ BackedInv /\ [StoreNext]_storeVars => (TypeOK /\ BackedInv)'
  BY StoreNextTypeOK, StoreNextBacked
<1>3. BackedInv => SnapshotBacked
  BY DEF BackedInv
<1> QED
  BY <1>1, <1>2, <1>3, PTL DEF StoreSpec

-----------------------------------------------------------------------------
(* When nobody folds while a snapshot is taken and what is stored can be   *)
(* read, nothing that reached the OPFS log is forgotten or logged again,   *)
(* and no seq is used up twice.                                            *)
(*                                                                         *)
(* The snapshots and log entries that matter are those on disk and those   *)
(* still on their way there.  What holds between them (SavesSound) is that *)
(* an entry is either in the snapshot's map or has a higher seq, so that   *)
(* the scan of the next page load finds it.                                *)

Appends == {i \in 1 .. Len(inbox) : inbox[i].kind = "append"}

\* The entries of the log, and those posted to it.
Entries == {opfs[i] : i \in 1 .. Len(opfs)} \union {inbox[i].entry : i \in Appends}

\* The snapshot on disk, those being written, and those posted.
Saves == {snapshot} \union {saving[i] : i \in 1 .. Len(saving)}
           \union {inbox[i].snap : i \in {j \in 1 .. Len(inbox) : inbox[j].kind = "save"}}

\* A map whose counter is n.
SoundMap(m, n) ==
  /\ \A x \in m.log : x.seq <= n
  /\ \A x, y \in m.log : x.seq = y.seq => x = y
  /\ \A e \in m.idem : \E x \in m.log : x.ev = e

MapSound ==
  /\ SoundMap(kv, seq)
  /\ \A e \in kv.idem : e \in kv.state \/ folding[e].stage = "keyed"

\* A fold holds a seq of its own, higher than that of any snapshot.
Taken(e) == folding[e].stage = "taken"
TakenSound ==
  \A e \in Events : Taken(e) =>
    /\ folding[e].seq <= seq /\ folding[e].seq <= MaxSeq
    /\ \A x \in kv.log : x.seq # folding[e].seq
    /\ \A d \in Events : Taken(d) /\ d # e => folding[d].seq # folding[e].seq
    /\ \A s \in Saves : s.seq < folding[e].seq

FoldsSound ==
  /\ \A e \in Events : folding[e].stage = "logged" => \E x \in kv.log : x.ev = e
  /\ MutexFree \/ Ready

SavesSound ==
  \A s \in Saves :
    /\ s.seq <= seq /\ SoundMap(s.kv, s.seq) /\ s.kv.idem \subseteq s.kv.state
    /\ \A x \in Entries : x.ev \in s.kv.idem \/ s.seq < x.seq

EntriesKnown ==
  /\ \A x \in Entries : x.seq <= MaxSeq
  /\ Ready => \A x \in Entries : x.ev \in kv.idem \/ folding[x.ev].stage = "logged"

FlushSound ==
  \A f \in Flushers :
    /\ flush[f].pc # "idle" => Ready
    /\ flush[f].pc = "capture" => MutexFree /\ flush[f].seq = seq

NoFlushes == \A f \in Flushers : flush[f].pc = "idle"

\* What the scan has passed is known, and what is not known it will post.
ReplaySound ==
  ~Ready =>
    /\ inbox = << >>
    /\ \A i \in 1 .. Len(opfs) :
         opfs[i].ev \in kv.idem \/ (boot.at <= i /\ boot.since < opfs[i].seq)

\* No event is in the log, or on its way there, twice.
OnceSound ==
  /\ LoggedOnce
  /\ \A i, j \in Appends : inbox[i].entry.ev = inbox[j].entry.ev => i = j
  /\ \A i \in 1 .. Len(opfs), j \in Appends : opfs[i].ev # inbox[j].entry.ev

QuietInv ==
  /\ TypeOK /\ MapSound /\ TakenSound /\ FoldsSound /\ SavesSound
  /\ EntriesKnown /\ FlushSound /\ ReplaySound /\ OnceSound

-----------------------------------------------------------------------------
(* Where entries and snapshots are. *)

LEMMA PlaceTypes ==
  ASSUME TypeOK
  PROVE  /\ inbox \in Seq(Message) /\ opfs \in Seq(Entry) /\ saving \in Seq(Snapshot)
         /\ Len(inbox) \in Nat /\ Len(opfs) \in Nat /\ Len(saving) \in Nat
         /\ \A i \in 1 .. Len(inbox) : inbox[i] \in Message
         /\ \A i \in Appends : inbox[i].entry \in Entry
         /\ Entries \subseteq Entry /\ Saves \subseteq Snapshot
<1>1. /\ inbox \in Seq(Message) /\ opfs \in Seq(Entry) /\ saving \in Seq(Snapshot)
      /\ Len(inbox) \in Nat /\ Len(opfs) \in Nat /\ Len(saving) \in Nat
      /\ \A i \in 1 .. Len(inbox) : inbox[i] \in Message
      /\ \A i \in 1 .. Len(opfs) : opfs[i] \in Entry
      /\ \A i \in 1 .. Len(saving) : saving[i] \in Snapshot
      /\ snapshot \in Snapshot
  BY DEF TypeOK
<1>2. /\ \A i \in Appends : inbox[i].entry \in Entry
      /\ \A i \in 1 .. Len(inbox) : inbox[i].kind = "save" => inbox[i].snap \in Snapshot
  BY <1>1 DEF Appends, Message
<1>3. Entries \subseteq Entry
  BY <1>1, <1>2 DEF Entries
<1>4. Saves \subseteq Snapshot
  BY <1>1, <1>2 DEF Saves
<1> QED
  BY <1>1, <1>2, <1>3, <1>4

LEMMA ValueTypes ==
  ASSUME TypeOK
  PROVE  /\ kv \in Kv /\ kv.log \subseteq Entry /\ kv.idem \subseteq Events
         /\ kv.state \subseteq Events
         /\ seq \in Nat /\ folding \in [Events -> Fold]
         /\ \A e \in Events : folding[e].seq \in Nat
         /\ \A x \in Entry : x.seq \in Nat /\ x.ev \in Events
         /\ \A s \in Snapshot : s.seq \in Nat /\ s.kv \in Kv
BY DEF TypeOK, Kv, Entry, Fold, Snapshot

\* A message that is posted stands behind the others.
LEMMA Posting ==
  ASSUME TypeOK, NEW m \in Message, inbox' = Append(inbox, m), UNCHANGED opfs
  PROVE  /\ Len(inbox') = Len(inbox) + 1 /\ inbox'[Len(inbox) + 1] = m
         /\ \A i \in 1 .. Len(inbox) : inbox'[i] = inbox[i]
BY PlaceTypes

LEMMA PostingEntry ==
  ASSUME TypeOK, NEW m \in Message, inbox' = Append(inbox, m), m.kind = "append",
         UNCHANGED <<opfs, saving, snapshot>>
  PROVE  /\ Appends' = Appends \union {Len(inbox) + 1}
         /\ Entries' = Entries \union {m.entry} /\ Saves' = Saves
<1>1. /\ Len(inbox') = Len(inbox) + 1 /\ inbox'[Len(inbox) + 1] = m /\ Len(inbox) \in Nat
      /\ \A i \in 1 .. Len(inbox) : inbox'[i] = inbox[i]
  BY Posting, PlaceTypes
<1>2. 1 .. Len(inbox') = 1 .. Len(inbox) \union {Len(inbox) + 1}
  BY <1>1
<1>3. Appends' = Appends \union {Len(inbox) + 1}
  BY <1>1, <1>2 DEF Appends
<1>4. Entries' = Entries \union {m.entry}
  BY <1>1, <1>3 DEF Entries, Appends
<1>5. Saves' = Saves
  <2>1. {j \in 1 .. Len(inbox') : inbox'[j].kind = "save"}
           = {j \in 1 .. Len(inbox) : inbox[j].kind = "save"}
    BY <1>1, <1>2
  <2> QED
    BY <1>1, <2>1 DEF Saves
<1> QED
  BY <1>3, <1>4, <1>5

LEMMA PostingSave ==
  ASSUME TypeOK, NEW m \in Message, inbox' = Append(inbox, m), m.kind = "save",
         UNCHANGED <<opfs, saving, snapshot>>
  PROVE  /\ Appends' = Appends /\ \A i \in Appends : inbox'[i] = inbox[i]
         /\ Entries' = Entries /\ Saves' = Saves \union {m.snap}
<1>1. /\ Len(inbox') = Len(inbox) + 1 /\ inbox'[Len(inbox) + 1] = m /\ Len(inbox) \in Nat
      /\ \A i \in 1 .. Len(inbox) : inbox'[i] = inbox[i]
  BY Posting, PlaceTypes
<1>2. 1 .. Len(inbox') = 1 .. Len(inbox) \union {Len(inbox) + 1}
  BY <1>1
<1>3. Appends' = Appends /\ \A i \in Appends : inbox'[i] = inbox[i]
  BY <1>1, <1>2 DEF Appends
<1>4. Entries' = Entries
  BY <1>3 DEF Entries
<1>5. Saves' = Saves \union {m.snap}
  <2>1. {j \in 1 .. Len(inbox') : inbox'[j].kind = "save"}
           = {j \in 1 .. Len(inbox) : inbox[j].kind = "save"} \union {Len(inbox) + 1}
    BY <1>1, <1>2
  <2> QED
    BY <1>1, <2>1 DEF Saves
<1> QED
  BY <1>3, <1>4, <1>5

\* The worker takes the message in front.
LEMMA Taking ==
  ASSUME TypeOK, inbox # << >>, inbox' = Tail(inbox)
  PROVE  /\ Head(inbox) = inbox[1] /\ 1 \in 1 .. Len(inbox)
         /\ Len(inbox') \in Nat /\ Len(inbox') = Len(inbox) - 1
         /\ \A i \in 1 .. Len(inbox') : i + 1 \in 2 .. Len(inbox) /\ inbox'[i] = inbox[i + 1]
         /\ \A i \in Appends' : i + 1 \in Appends \ {1} /\ inbox'[i] = inbox[i + 1]
<1>1. /\ Head(inbox) = inbox[1] /\ 1 \in 1 .. Len(inbox)
      /\ Len(inbox') \in Nat /\ Len(inbox') = Len(inbox) - 1 /\ Len(inbox) \in Nat
      /\ \A i \in 1 .. Len(inbox') : i + 1 \in 2 .. Len(inbox) /\ inbox'[i] = inbox[i + 1]
  BY PlaceTypes
<1> QED
  BY <1>1 DEF Appends

-----------------------------------------------------------------------------
(* The steps. *)

\* The worker moves entries and snapshots on or drops them, and brings in none.
LEMMA WorkerKeeps ==
  ASSUME QuietInv, TypeOK', WorkerUnchanged, Entries' \subseteq Entries, Saves' \subseteq Saves,
         ReplaySound', OnceSound'
  PROVE  QuietInv'
<1>1. UNCHANGED <<kv, seq, folding, flush, boot>>
  BY DEF WorkerUnchanged
<1>2. MapSound' /\ FoldsSound'
  BY <1>1 DEF QuietInv, MapSound, SoundMap, FoldsSound, MutexFree, InFold, Ready
<1>3. TakenSound'
  BY <1>1 DEF QuietInv, TakenSound, Taken
<1>4. SavesSound'
  BY <1>1 DEF QuietInv, SavesSound, SoundMap
<1>5. EntriesKnown' /\ FlushSound'
  BY <1>1 DEF QuietInv, EntriesKnown, FlushSound, MutexFree, InFold, Ready
<1> QED
  BY <1>2, <1>3, <1>4, <1>5 DEF QuietInv

LEMMA WorkerQuiet ==
  ASSUME QuietInv, TypeOK',
         WorkerAppend \/ WorkerAppendFails \/ WorkerSave \/ CommitSnapshot \/ AbortSave
  PROVE  QuietInv'
<1>0. TypeOK /\ WorkerUnchanged
  BY DEF QuietInv, WorkerAppend, WorkerAppendFails, WorkerSave, CommitSnapshot, AbortSave
<1>t. /\ inbox \in Seq(Message) /\ opfs \in Seq(Entry) /\ saving \in Seq(Snapshot)
      /\ Len(inbox) \in Nat /\ Len(opfs) \in Nat /\ Len(saving) \in Nat
  BY <1>0, PlaceTypes
<1>1. ASSUME inbox # << >>, inbox' = Tail(inbox)
      PROVE  /\ ReplaySound'
             /\ \A i, j \in Appends' : inbox'[i].entry.ev = inbox'[j].entry.ev => i = j
             /\ \A i \in 1 .. Len(opfs), j \in Appends' : opfs[i].ev # inbox'[j].entry.ev
             /\ {inbox'[i].entry : i \in Appends'} \subseteq {inbox[i].entry : i \in Appends}
             /\ Head(inbox) = inbox[1] /\ 1 \in 1 .. Len(inbox)
             /\ {inbox'[i].snap : i \in {j \in 1 .. Len(inbox') : inbox'[j].kind = "save"}}
                  \subseteq {inbox[i].snap : i \in {j \in 1 .. Len(inbox) : inbox[j].kind = "save"}}
  <2>1. Ready'
    BY <1>0, <1>1 DEF QuietInv, ReplaySound, WorkerUnchanged, Ready
  <2>2. /\ Head(inbox) = inbox[1] /\ 1 \in 1 .. Len(inbox)
        /\ \A i \in 1 .. Len(inbox') : i + 1 \in 2 .. Len(inbox) /\ inbox'[i] = inbox[i + 1]
        /\ \A i \in Appends' : i + 1 \in Appends \ {1} /\ inbox'[i] = inbox[i + 1]
    BY <1>0, <1>1, Taking
  <2>3. \A i \in Appends' : i \in Nat
    BY DEF Appends
  <2>4. ASSUME NEW i \in Appends', NEW j \in Appends', inbox'[i].entry.ev = inbox'[j].entry.ev
        PROVE  i = j
    <3>1. i + 1 = j + 1
      BY <2>2, <2>4 DEF QuietInv, OnceSound
    <3> QED
      BY <2>3, <3>1
  <2>5. \A i \in 1 .. Len(opfs), j \in Appends' : opfs[i].ev # inbox'[j].entry.ev
    BY <2>2 DEF QuietInv, OnceSound
  <2>6. \A i \in 1 .. Len(inbox') : i + 1 \in 1 .. Len(inbox)
    BY <2>2, <1>t
  <2>7. {inbox'[i].snap : i \in {j \in 1 .. Len(inbox') : inbox'[j].kind = "save"}}
          \subseteq {inbox[i].snap : i \in {j \in 1 .. Len(inbox) : inbox[j].kind = "save"}}
    BY <2>2, <2>6
  <2>8. {inbox'[i].entry : i \in Appends'} \subseteq {inbox[i].entry : i \in Appends}
    BY <2>2
  <2> QED
    BY <2>1, <2>2, <2>4, <2>5, <2>7, <2>8 DEF ReplaySound
<1>2. CASE WorkerAppend
  <2> DEFINE x == Head(inbox).entry
             n == Len(opfs)
  <2>1. /\ inbox # << >> /\ inbox' = Tail(inbox) /\ opfs' = Append(opfs, x)
        /\ Head(inbox).kind = "append" /\ UNCHANGED <<saving, snapshot>>
    BY <1>2 DEF WorkerAppend
  <2>2. 1 \in Appends /\ x = inbox[1].entry
    BY <1>1, <2>1 DEF Appends
  <2>x. x \in Entry
    BY <1>0, <2>2, PlaceTypes
  <2>3. /\ Len(opfs') = n + 1 /\ opfs'[n + 1] = x /\ \A i \in 1 .. n : opfs'[i] = opfs[i]
    BY <1>t, <2>1, <2>x
  <2>4. 1 .. Len(opfs') = 1 .. n \union {n + 1}
    BY <1>t, <2>3
  <2> HIDE DEF x, n
  <2>5. {opfs'[i] : i \in 1 .. Len(opfs')} = {opfs[i] : i \in 1 .. n} \union {x}
    BY <2>3, <2>4
  <2>6. Entries' \subseteq Entries
    BY <1>1, <2>1, <2>2, <2>5 DEF Entries, n
  <2>7. Saves' \subseteq Saves
    BY <1>1, <2>1 DEF Saves
  <2>8. \A i \in 1 .. n : opfs[i].ev # x.ev
    BY <2>2 DEF QuietInv, OnceSound, n
  <2>9. LoggedOnce'
    <3> SUFFICES ASSUME NEW i \in 1 .. Len(opfs'), NEW j \in 1 .. Len(opfs'),
                        opfs'[i].ev = opfs'[j].ev
                 PROVE  i = j
      BY DEF LoggedOnce
    <3>1. CASE i \in 1 .. n /\ j \in 1 .. n
      BY <2>3, <3>1 DEF QuietInv, OnceSound, LoggedOnce, n
    <3>2. CASE i = n + 1 /\ j \in 1 .. n
      BY <2>3, <2>8, <3>2
    <3>3. CASE j = n + 1 /\ i \in 1 .. n
      BY <2>3, <2>8, <3>3
    <3> QED
      BY <2>4, <3>1, <3>2, <3>3
  <2>10. \A j \in Appends' : x.ev # inbox'[j].entry.ev
    <3>1. \A j \in Appends' : j + 1 \in Appends \ {1} /\ inbox'[j] = inbox[j + 1]
      BY <1>0, <2>1, Taking
    <3> QED
      BY <2>2, <3>1 DEF QuietInv, OnceSound
  <2>11. \A i \in 1 .. Len(opfs'), j \in Appends' : opfs'[i].ev # inbox'[j].entry.ev
    <3>1. \A i \in 1 .. n, j \in Appends' : opfs[i].ev # inbox'[j].entry.ev
      BY <1>1, <2>1 DEF n
    <3> QED
      BY <2>3, <2>4, <2>10, <3>1
  <2>12. OnceSound'
    BY <1>1, <2>1, <2>9, <2>11 DEF OnceSound
  <2> QED
    BY <1>0, <1>1, <2>1, <2>6, <2>7, <2>12, WorkerKeeps
<1>3. CASE WorkerAppendFails
  <2>1. inbox # << >> /\ inbox' = Tail(inbox) /\ UNCHANGED <<opfs, saving, snapshot>>
    BY <1>3 DEF WorkerAppendFails
  <2>2. Entries' \subseteq Entries /\ Saves' \subseteq Saves
    BY <1>1, <2>1 DEF Entries, Saves
  <2>3. OnceSound'
    BY <1>1, <2>1 DEF QuietInv, OnceSound, LoggedOnce
  <2> QED
    BY <1>0, <1>1, <2>1, <2>2, <2>3, WorkerKeeps
<1>4. CASE WorkerSave
  <2> DEFINE s == Head(inbox).snap
             n == Len(saving)
  <2>1. /\ inbox # << >> /\ inbox' = Tail(inbox) /\ saving' = Append(saving, s)
        /\ Head(inbox).kind = "save" /\ UNCHANGED <<opfs, snapshot>>
    BY <1>4 DEF WorkerSave
  <2>2. s \in {inbox[i].snap : i \in {j \in 1 .. Len(inbox) : inbox[j].kind = "save"}}
    BY <1>1, <2>1
  <2>x. s \in Snapshot
    BY <1>0, <2>2, PlaceTypes DEF Saves
  <2>3. /\ Len(saving') = n + 1 /\ saving'[n + 1] = s
        /\ \A i \in 1 .. n : saving'[i] = saving[i]
    BY <1>t, <2>1, <2>x
  <2>4. 1 .. Len(saving') = 1 .. n \union {n + 1}
    BY <1>t, <2>3
  <2> HIDE DEF s, n
  <2>5. {saving'[i] : i \in 1 .. Len(saving')} = {saving[i] : i \in 1 .. n} \union {s}
    BY <2>3, <2>4
  <2>6. Saves' \subseteq Saves
    BY <1>1, <2>1, <2>2, <2>5 DEF Saves, n
  <2>7. Entries' \subseteq Entries
    BY <1>1, <2>1 DEF Entries
  <2>8. OnceSound'
    BY <1>1, <2>1 DEF QuietInv, OnceSound, LoggedOnce
  <2> QED
    BY <1>0, <1>1, <2>1, <2>6, <2>7, <2>8, WorkerKeeps
<1>5. CASE CommitSnapshot \/ AbortSave
  <2>1. /\ saving # << >> /\ saving' = Tail(saving) /\ UNCHANGED <<inbox, opfs>>
        /\ snapshot' \in {snapshot, Head(saving)}
    BY <1>5 DEF CommitSnapshot, AbortSave
  <2>2. /\ Head(saving) = saving[1] /\ 1 \in 1 .. Len(saving)
        /\ \A i \in 1 .. Len(saving') : i + 1 \in 1 .. Len(saving) /\ saving'[i] = saving[i + 1]
    BY <1>t, <2>1
  <2>3. {saving'[i] : i \in 1 .. Len(saving')} \subseteq {saving[i] : i \in 1 .. Len(saving)}
    BY <2>2
  <2>4. Saves' \subseteq Saves
    BY <2>1, <2>2, <2>3 DEF Saves
  <2>5. Entries' = Entries /\ OnceSound' /\ ReplaySound'
    BY <1>0, <2>1 DEF QuietInv, Entries, Appends, OnceSound, LoggedOnce, ReplaySound, Ready,
                      WorkerUnchanged
  <2> QED
    BY <1>0, <2>4, <2>5, WorkerKeeps
<1> QED
  BY <1>2, <1>3, <1>4, <1>5

LEMMA FreeFolds ==
  ASSUME MutexFree
  PROVE  \A e \in Events : folding[e].stage = "none"
BY DEF MutexFree, InFold

\* Only the flush moves.
LEMMA FlushKeeps ==
  ASSUME QuietInv, TypeOK', FlushSound',
         UNCHANGED <<kv, seq, folding, inbox, saving, opfs, snapshot, boot>>
  PROVE  QuietInv'
<1>1. Entries' = Entries /\ Saves' = Saves /\ Appends' = Appends
  BY DEF Entries, Saves, Appends
<1>2. MapSound' /\ FoldsSound' /\ TakenSound'
  BY <1>1 DEF QuietInv, MapSound, SoundMap, FoldsSound, TakenSound, Taken, MutexFree, InFold, Ready
<1>3. SavesSound' /\ EntriesKnown'
  BY <1>1 DEF QuietInv, SavesSound, SoundMap, EntriesKnown, Ready
<1>4. ReplaySound' /\ OnceSound'
  BY <1>1 DEF QuietInv, ReplaySound, OnceSound, LoggedOnce, Ready
<1> QED
  BY <1>2, <1>3, <1>4 DEF QuietInv

LEMMA FlushQuiet ==
  ASSUME Overlap = FALSE, QuietInv, TypeOK', NEW f \in Flushers, FlushMove(f)
  PROVE  QuietInv'
<1>1. /\ UNCHANGED <<kv, seq, folding, inbox, saving, opfs, snapshot, boot>>
      /\ Ready
      /\ \/ \E pc \in {"quiesce", "waiting", "drain", "read"}, n \in {0} :
              flush' = [flush EXCEPT ![f] = [pc |-> pc, seq |-> n]]
         \/ MutexFree /\ flush' = [flush EXCEPT ![f] = [pc |-> "capture", seq |-> seq]]
  BY DEF FlushMove, StartFlush, StartManualSnapshot, MayStart, FlushWaits, FlushQuiescent,
         FlushDrained, FlushReadSeq, FlushTo, QuietInv, FlushSound
<1>2. flush \in [Flushers -> Flush]
  BY DEF QuietInv, TypeOK
<1>3. \A g \in Flushers \ {f} : flush'[g] = flush[g]
  BY <1>1, <1>2
<1>4. flush'[f].pc = "capture" => MutexFree /\ flush'[f].seq = seq
  BY <1>1, <1>2
<1>5. FlushSound'
  BY <1>1, <1>3, <1>4 DEF QuietInv, FlushSound, Ready, MutexFree, InFold
<1> QED
  BY <1>1, <1>5, FlushKeeps

\* A batch enters or leaves the gate.
LEMMA GateQuiet ==
  ASSUME QuietInv, TypeOK', EnterFold \/ ExitFold
  PROVE  QuietInv'
<1>1. UNCHANGED <<kv, seq, folding, inbox, saving, opfs, snapshot, boot>>
  BY DEF EnterFold, ExitFold
<1>2. flush \in [Flushers -> Flush]
  BY DEF QuietInv, TypeOK
<1>3. ASSUME NEW f \in Flushers
      PROVE  \/ flush'[f] = flush[f]
             \/ flush[f].pc = "waiting" /\ flush'[f].pc = "quiesce"
  <2>1. [flush[f] EXCEPT !.pc = "quiesce"].pc = "quiesce"
    BY <1>2 DEF Flush
  <2> QED
    BY <2>1 DEF EnterFold, ExitFold, Woken
<1>4. FlushSound'
  BY <1>1, <1>3 DEF QuietInv, FlushSound, Ready, MutexFree, InFold
<1> QED
  BY <1>1, <1>4, FlushKeeps

\* A save of the whole map, posted while nobody folds.
LEMMA SaveKeeps ==
  ASSUME QuietInv, TypeOK', MutexFree, \A x \in Entries : x.ev \in kv.idem,
         inbox' = Append(inbox, [kind |-> "save",
                                 snap |-> [hit |-> TRUE, seq |-> seq, kv |-> kv]]),
         UNCHANGED <<kv, seq, folding, opfs, saving, snapshot>>,
         boot' = boot \/ boot' = [boot EXCEPT !.pc = "ready"],
         FlushSound', Ready'
  PROVE  QuietInv'
<1> DEFINE s == [hit |-> TRUE, seq |-> seq, kv |-> kv]
           m == [kind |-> "save", snap |-> s]
<1>0. TypeOK
  BY DEF QuietInv
<1>1. s \in Snapshot /\ s.seq = seq /\ s.kv = kv
  BY <1>0, ValueTypes DEF Snapshot
<1>2. m \in Message /\ m.kind = "save" /\ m.snap = s /\ inbox' = Append(inbox, m)
  BY <1>1 DEF Message
<1> HIDE DEF s, m
<1>3. /\ Appends' = Appends /\ \A i \in Appends : inbox'[i] = inbox[i]
      /\ Entries' = Entries /\ Saves' = Saves \union {s}
  BY <1>0, <1>2, PostingSave
<1>4. \A e \in Events : folding[e].stage = "none"
  BY FreeFolds
<1>5. MapSound'
  BY DEF QuietInv, MapSound, SoundMap
<1>6. TakenSound' /\ FoldsSound'
  BY <1>4 DEF TakenSound, Taken, FoldsSound
<1>7. SavesSound'
  <2>1. kv.idem \subseteq kv.state
    BY <1>0, <1>4, ValueTypes DEF QuietInv, MapSound
  <2>2. SoundMap(kv, seq) /\ seq <= seq
    BY <1>0, ValueTypes DEF QuietInv, MapSound
  <2> SUFFICES ASSUME NEW t \in Saves'
               PROVE  /\ t.seq <= seq' /\ SoundMap(t.kv, t.seq) /\ t.kv.idem \subseteq t.kv.state
                      /\ \A x \in Entries' : x.ev \in t.kv.idem \/ t.seq < x.seq
    BY DEF SavesSound, SoundMap
  <2>3. CASE t = s
    BY <1>1, <1>3, <2>1, <2>2, <2>3
  <2>4. CASE t \in Saves
    BY <1>3, <2>4 DEF QuietInv, SavesSound
  <2> QED
    BY <1>3, <2>3, <2>4
<1>8. EntriesKnown'
  BY <1>3 DEF QuietInv, EntriesKnown
<1>9. ReplaySound'
  BY DEF ReplaySound
<1>10. OnceSound'
  <2>1. LoggedOnce'
    BY DEF QuietInv, OnceSound, LoggedOnce
  <2>2. ASSUME NEW i \in Appends', NEW j \in Appends', inbox'[i].entry.ev = inbox'[j].entry.ev
        PROVE  i = j
    <3>1. i \in Appends /\ j \in Appends /\ inbox'[i] = inbox[i] /\ inbox'[j] = inbox[j]
      BY <1>3
    <3> QED
      BY <2>2, <3>1, Zenon DEF QuietInv, OnceSound
  <2>3. ASSUME NEW i \in 1 .. Len(opfs'), NEW j \in Appends'
        PROVE  opfs'[i].ev # inbox'[j].entry.ev
    <3>1. j \in Appends /\ inbox'[j] = inbox[j] /\ opfs' = opfs
      BY <1>3
    <3>2. opfs[i].ev # inbox[j].entry.ev
      BY <3>1 DEF QuietInv, OnceSound
    <3> QED
      BY <3>1, <3>2, Zenon
  <2> QED
    BY <2>1, <2>2, <2>3 DEF OnceSound
<1> QED
  BY <1>5, <1>6, <1>7, <1>8, <1>9, <1>10 DEF QuietInv

LEMMA CaptureQuiet ==
  ASSUME QuietInv, TypeOK', NEW f \in Flushers, FlushCapture(f)
  PROVE  QuietInv'
<1>1. MutexFree /\ Ready /\ flush[f].seq = seq
  BY DEF QuietInv, FlushSound, FlushCapture
<1>2. /\ inbox' = Append(inbox, [kind |-> "save",
                                 snap |-> [hit |-> TRUE, seq |-> seq, kv |-> kv]])
      /\ UNCHANGED <<kv, seq, folding, opfs, saving, snapshot, boot>>
      /\ flush' = [flush EXCEPT ![f] = [pc |-> "idle", seq |-> 0]]
  BY <1>1 DEF FlushCapture, Post, FlushTo
<1>2a. FlushSound' /\ Ready'
  <2>1. flush \in [Flushers -> Flush]
    BY DEF QuietInv, TypeOK
  <2>2. flush'[f].pc = "idle" /\ \A g \in Flushers \ {f} : flush'[g] = flush[g]
    BY <1>2, <2>1
  <2> QED
    BY <1>1, <1>2, <2>2 DEF QuietInv, FlushSound, Ready, MutexFree, InFold
<1>3. \A x \in Entries : x.ev \in kv.idem
  <2>1. \A x \in Entries : x.ev \in Events
    BY PlaceTypes, ValueTypes DEF QuietInv
  <2> QED
    BY <1>1, <2>1, FreeFolds DEF QuietInv, EntriesKnown
<1> QED
  BY <1>1, <1>2, <1>2a, <1>3, SaveKeeps

LEMMA ReplayDoneQuiet ==
  ASSUME ReadFaults = {}, QuietInv, TypeOK', ReplayDone
  PROVE  QuietInv'
<1>0. TypeOK /\ boot \in Boot
  BY DEF QuietInv, TypeOK
<1>1. ~Ready /\ boot.at > Len(opfs) /\ boot' = [boot EXCEPT !.pc = "ready"]
  BY DEF ReplayDone, Ready
<1>2. /\ inbox' = Append(inbox, [kind |-> "save",
                                 snap |-> [hit |-> TRUE, seq |-> seq, kv |-> kv]])
      /\ UNCHANGED <<kv, seq, folding, opfs, saving, snapshot, flush>>
  BY DEF ReplayDone, Post
<1>3. MutexFree /\ FlushSound' /\ Ready'
  <2>1. MutexFree /\ NoFlushes
    BY <1>1 DEF QuietInv, FoldsSound, FlushSound, NoFlushes
  <2>2. boot'.pc = "ready"
    BY <1>0, <1>1 DEF Boot
  <2> QED
    BY <1>2, <2>1, <2>2 DEF Ready, FlushSound, NoFlushes
<1>4. \A x \in Entries : x.ev \in kv.idem
  <2>1. inbox = << >> /\ \A i \in 1 .. Len(opfs) : opfs[i].ev \in kv.idem \/ boot.at <= i
    BY <1>1 DEF QuietInv, ReplaySound
  <2>2. Appends = {}
    BY <2>1 DEF Appends
  <2>3. \A i \in 1 .. Len(opfs) : ~(boot.at <= i)
    BY <1>0, <1>1, PlaceTypes DEF Boot
  <2> QED
    BY <2>1, <2>2, <2>3 DEF Entries
<1> QED
  BY <1>1, <1>2, <1>3, <1>4, SaveKeeps

LEMMA HeadIsGreatest ==
  ASSUME TypeOK, \A x \in Entries : x.seq <= MaxSeq, NEW i \in 1 .. Len(opfs)
  PROVE  opfs[i].seq <= LogHead
<1> DEFINE seqs == {opfs[j].seq : j \in 1 .. Len(opfs)}
<1>1. \A j \in 1 .. Len(opfs) : opfs[j] \in Entries /\ opfs[j].seq \in Nat
  BY PlaceTypes, ValueTypes DEF Entries
<1>2. seqs \in SUBSET Nat /\ seqs # {} /\ opfs[i].seq \in seqs /\ \A n \in seqs : n <= MaxSeq
  BY <1>1
<1>3. LogHead = CHOOSE n \in seqs : \A m \in seqs : m <= n
  BY <1>2 DEF LogHead
<1> HIDE DEF seqs
<1>4. \E n \in seqs : \A m \in seqs : m <= n
  BY <1>2, GreatestBelow, StoreAssumption
<1> QED
  BY <1>2, <1>3, <1>4

LEMMA ReloadQuiet ==
  ASSUME ReadFaults = {}, QuietInv, TypeOK', Reload
  PROVE  QuietInv'
<1>0. TypeOK
  BY DEF QuietInv
<1>1. /\ kv' = snapshot.kv /\ seq' = snapshot.seq /\ folding' = [e \in Events |-> NoFold]
      /\ flush' = [f \in Flushers |-> NoFlush] /\ inbox' = << >> /\ saving' = << >> /\ UNCHANGED <<opfs, snapshot>>
      /\ boot' = [pc |-> IF snapshot.hit /\ LogHead = snapshot.seq THEN "ready" ELSE "replaying",
                  since |-> snapshot.seq, at |-> 1]
  BY DEF Reload, LoadFrom
<1>2. Appends' = {} /\ Entries' = {opfs[i] : i \in 1 .. Len(opfs)} /\ Saves' = {snapshot}
  BY <1>1 DEF Appends, Entries, Saves
<1>3. Entries' \subseteq Entries /\ snapshot \in Saves
  BY <1>2 DEF Entries, Saves
<1>4. /\ snapshot.seq \in Nat /\ SoundMap(snapshot.kv, snapshot.seq)
      /\ snapshot.kv.idem \subseteq snapshot.kv.state
      /\ \A x \in Entries' : x.ev \in snapshot.kv.idem \/ snapshot.seq < x.seq
  BY <1>0, <1>3, PlaceTypes, ValueTypes DEF QuietInv, SavesSound
<1>5. \A e \in Events : folding'[e].stage = "none"
  BY <1>1 DEF NoFold
<1>6. MapSound'
  BY <1>1, <1>4 DEF MapSound, SoundMap
<1>7. TakenSound' /\ FoldsSound'
  BY <1>5 DEF TakenSound, Taken, FoldsSound, MutexFree, InFold
<1>8. SavesSound'
  BY <1>1, <1>2, <1>4 DEF SavesSound, SoundMap
<1>9. EntriesKnown'
  <2>1. \A x \in Entries' : x.seq <= MaxSeq
    BY <1>3 DEF QuietInv, EntriesKnown
  <2>2. ASSUME Ready', NEW x \in Entries' PROVE x.ev \in kv'.idem
    <3>1. LogHead = snapshot.seq
      BY <1>1, <2>2 DEF Ready
    <3>2. x.seq <= LogHead /\ x.seq \in Nat
      <4>1. PICK i \in 1 .. Len(opfs) : x = opfs[i]
        BY <1>2, <2>2
      <4>2. x.seq <= LogHead
        BY <1>0, <4>1, HeadIsGreatest DEF QuietInv, EntriesKnown
      <4> QED
        BY <1>0, <1>3, <2>2, <4>2, PlaceTypes, ValueTypes
    <3>3. ~(snapshot.seq < x.seq)
      BY <1>4, <3>1, <3>2
    <3> QED
      BY <1>1, <1>4, <2>2, <3>3
  <2> QED
    BY <2>1, <2>2 DEF EntriesKnown
<1>10. FlushSound'
  BY <1>1 DEF FlushSound, NoFlush
<1>11. ReplaySound'
  <2> SUFFICES ASSUME NEW i \in 1 .. Len(opfs)
               PROVE  opfs[i].ev \in kv'.idem \/ (boot'.at <= i /\ boot'.since < opfs[i].seq)
    BY <1>1 DEF ReplaySound
  <2>1. opfs[i] \in Entries'
    BY <1>2
  <2>2. boot'.at = 1 /\ boot'.since = snapshot.seq /\ 1 <= i
    BY <1>1
  <2> QED
    BY <1>1, <1>4, <2>1, <2>2
<1>12. OnceSound'
  BY <1>1, <1>2 DEF QuietInv, OnceSound, LoggedOnce
<1> QED
  BY <1>6, <1>7, <1>8, <1>9, <1>10, <1>11, <1>12 DEF QuietInv

LEMMA ReplayQuiet ==
  ASSUME QuietInv, TypeOK', ReplaySkip \/ ReplayEvent
  PROVE  QuietInv'
<1>0. TypeOK
  BY DEF QuietInv
<1>1. /\ ~Ready /\ ~Ready' /\ boot.at \in 1 .. Len(opfs)
      /\ boot'.at = boot.at + 1 /\ boot'.since = boot.since
      /\ UNCHANGED <<folding, flush, inbox, saving, opfs, snapshot>>
  <2>1. /\ Replaying /\ boot' = [boot EXCEPT !.at = @ + 1]
        /\ UNCHANGED <<folding, flush, inbox, saving, opfs, snapshot>>
    BY DEF ReplaySkip, ReplayEvent
  <2>2. boot \in Boot
    BY <1>0 DEF TypeOK
  <2>3. boot'.pc = boot.pc /\ boot'.at = boot.at + 1 /\ boot'.since = boot.since
    BY <2>1, <2>2 DEF Boot
  <2>4. boot.at \in 1 .. Len(opfs)
    BY <1>0, <2>1, <2>2, PlaceTypes DEF Boot, Replaying
  <2> QED
    BY <2>1, <2>3, <2>4 DEF Replaying, Ready
<1> DEFINE e == opfs[boot.at].ev
<1>2. /\ e \in Events /\ seq \in Nat /\ kv.log \subseteq Entry
      /\ \A x \in kv.log : x.seq <= seq /\ x.seq \in Nat
  <2>1. opfs[boot.at] \in Entry
    BY <1>0, <1>1, PlaceTypes
  <2>2. seq \in Nat /\ kv.log \subseteq Entry /\ \A x \in Entry : x.seq \in Nat /\ x.ev \in Events
    BY <1>0, ValueTypes
  <2>3. \A x \in kv.log : x.seq <= seq
    BY DEF QuietInv, MapSound, SoundMap
  <2> QED
    BY <2>1, <2>2, <2>3
<1>3. Entries' = Entries /\ Saves' = Saves /\ Appends' = Appends
  BY <1>1 DEF Entries, Saves, Appends
<1>4. \A d \in Events : folding[d].stage = "none" /\ folding' = folding
  BY <1>1, FreeFolds DEF QuietInv, FoldsSound
<1>5. /\ MapSound' /\ kv.idem \subseteq kv'.idem /\ seq' \in Nat /\ seq <= seq'
      /\ e \in kv'.idem \/ ~(boot.since < opfs[boot.at].seq)
  <2>1. CASE ReplaySkip
    BY <1>2, <1>4, <2>1 DEF ReplaySkip, Scanned, Known, QuietInv, MapSound, SoundMap
  <2>2. CASE ReplayEvent
    <3> DEFINE entry == [seq |-> seq + 1, ev |-> e]
    <3>1. /\ seq' = seq + 1 /\ kv'.idem = kv.idem \union {e} /\ kv'.state = kv.state \union {e}
          /\ kv'.log = {x \in kv.log : x.seq # seq + 1} \union {entry}
      BY <2>2 DEF ReplayEvent, NextSeq, Relog, PutLog
    <3>2. kv'.log = kv.log \union {entry} /\ entry.seq = seq + 1 /\ entry.ev = e
      BY <1>2, <3>1
    <3> HIDE DEF entry, e
    <3>3. \A x \in kv'.log : x.seq <= seq'
      BY <1>2, <3>1, <3>2
    <3>4. \A x, y \in kv'.log : x.seq = y.seq => x = y
      BY <1>2, <3>2 DEF QuietInv, MapSound, SoundMap
    <3>5. \A d \in kv'.idem : \E x \in kv'.log : x.ev = d
      BY <3>1, <3>2 DEF QuietInv, MapSound, SoundMap
    <3>6. \A d \in kv'.idem : d \in kv'.state
      BY <1>0, <1>4, <3>1, ValueTypes DEF QuietInv, MapSound
    <3>7. MapSound'
      BY <3>3, <3>4, <3>5, <3>6 DEF MapSound, SoundMap
    <3> QED
      BY <1>2, <3>1, <3>7
  <2> QED
    BY <2>1, <2>2
<1>6. TakenSound' /\ FoldsSound'
  BY <1>4 DEF TakenSound, Taken, FoldsSound, MutexFree, InFold
<1>7. SavesSound'
  <2> SUFFICES ASSUME NEW s \in Saves
               PROVE  /\ s.seq <= seq' /\ SoundMap(s.kv, s.seq) /\ s.kv.idem \subseteq s.kv.state
                      /\ \A x \in Entries : x.ev \in s.kv.idem \/ s.seq < x.seq
    BY <1>3 DEF SavesSound, SoundMap
  <2>1. s.seq \in Nat /\ s.seq <= seq
    BY <1>0, PlaceTypes, ValueTypes DEF QuietInv, SavesSound
  <2> QED
    BY <1>2, <1>5, <2>1 DEF QuietInv, SavesSound
<1>8. EntriesKnown' /\ FlushSound'
  BY <1>1, <1>3 DEF QuietInv, EntriesKnown, FlushSound
<1>9. ReplaySound'
  <2> SUFFICES ASSUME NEW i \in 1 .. Len(opfs)
               PROVE  opfs[i].ev \in kv'.idem \/ (boot'.at <= i /\ boot'.since < opfs[i].seq)
    BY <1>1 DEF QuietInv, ReplaySound
  <2>1. opfs[i].ev \in kv.idem \/ (boot.at <= i /\ boot.since < opfs[i].seq)
    BY <1>1 DEF QuietInv, ReplaySound
  <2>2. CASE i = boot.at
    BY <1>5, <2>1, <2>2
  <2>3. CASE i # boot.at
    BY <1>1, <1>5, <2>1, <2>3
  <2> QED
    BY <2>2, <2>3
<1>10. OnceSound'
  BY <1>1, <1>3 DEF QuietInv, OnceSound, LoggedOnce
<1> QED
  BY <1>5, <1>6, <1>7, <1>8, <1>9, <1>10 DEF QuietInv

\* Folds that begin when nobody folds get seqs that were never given.
LEMMA TakeKeeps ==
  ASSUME QuietInv, TypeOK', MutexFree, Ready, NoFlushes,
         seq <= seq', seq' <= MaxSeq,
         \A e \in Events : folding'[e].stage \in {"none", "taken"},
         \A e \in Events : Taken(e)' => seq < folding'[e].seq /\ folding'[e].seq <= seq',
         \A d, e \in Events : Taken(d)' /\ Taken(e)' /\ d # e => folding'[d].seq # folding'[e].seq,
         UNCHANGED <<kv, flush, inbox, saving, opfs, snapshot, boot>>
  PROVE  QuietInv'
<1>0. TypeOK /\ TypeOK'
  BY DEF QuietInv
<1>1. Entries' = Entries /\ Saves' = Saves /\ Appends' = Appends
  BY DEF Entries, Saves, Appends
<1>2. \A e \in Events : folding[e].stage = "none"
  BY FreeFolds
<1>3. /\ seq \in Nat /\ seq' \in Nat /\ \A e \in Events : folding'[e].seq \in Nat
      /\ \A x \in kv.log : x.seq \in Nat /\ x.seq <= seq
      /\ kv.idem \subseteq Events /\ \A x \in Entries : x.ev \in Events
      /\ \A s \in Saves : s.seq \in Nat /\ s.seq <= seq
  <2>1. seq' \in Nat /\ \A e \in Events : folding'[e].seq \in Nat
    BY <1>0 DEF TypeOK, Fold
  <2>2. \A x \in kv.log : x.seq <= seq
    BY DEF QuietInv, MapSound, SoundMap
  <2>3. \A s \in Saves : s.seq <= seq
    BY DEF QuietInv, SavesSound
  <2> QED
    BY <1>0, <2>1, <2>2, <2>3, PlaceTypes, ValueTypes
<1>4. MapSound'
  <2>1. \A e \in kv.idem : e \in kv.state
    BY <1>2, <1>3 DEF QuietInv, MapSound
  <2>2. \A x \in kv.log : x.seq <= seq'
    BY <1>3
  <2> QED
    BY <2>1, <2>2 DEF QuietInv, MapSound, SoundMap
<1>5. TakenSound'
  <2> SUFFICES ASSUME NEW e \in Events, Taken(e)'
               PROVE  /\ folding'[e].seq <= seq' /\ folding'[e].seq <= MaxSeq
                      /\ \A x \in kv'.log : x.seq # folding'[e].seq
                      /\ \A d \in Events : Taken(d)' /\ d # e => folding'[d].seq # folding'[e].seq
                      /\ \A s \in Saves' : s.seq < folding'[e].seq
    BY DEF TakenSound
  <2>1. seq < folding'[e].seq /\ folding'[e].seq <= seq'
    OBVIOUS
  <2>2. folding'[e].seq <= MaxSeq
    BY <1>3, <2>1, StoreAssumption
  <2>3. \A x \in kv'.log : x.seq # folding'[e].seq
    BY <1>3, <2>1
  <2>4. \A s \in Saves' : s.seq < folding'[e].seq
    BY <1>1, <1>3, <2>1
  <2>5. \A d \in Events : Taken(d)' /\ d # e => folding'[d].seq # folding'[e].seq
    OBVIOUS
  <2> QED
    BY <2>1, <2>2, <2>3, <2>4, <2>5
<1>6. FoldsSound'
  BY DEF FoldsSound, Ready
<1>7. SavesSound'
  <2>1. \A s \in Saves : s.seq <= seq'
    BY <1>3
  <2> QED
    BY <1>1, <2>1 DEF QuietInv, SavesSound, SoundMap
<1>8. EntriesKnown'
  <2>1. \A x \in Entries : x.ev \in kv.idem
    BY <1>2, <1>3 DEF QuietInv, EntriesKnown
  <2> QED
    BY <1>1, <2>1 DEF QuietInv, EntriesKnown
<1>9. FlushSound' /\ ReplaySound' /\ OnceSound'
  BY <1>1 DEF QuietInv, NoFlushes, FlushSound, ReplaySound, Ready, OnceSound, LoggedOnce
<1> QED
  BY <1>4, <1>5, <1>6, <1>7, <1>8, <1>9 DEF QuietInv

LEMMA DispatchQuiet ==
  ASSUME Overlap = FALSE, QuietInv, TypeOK', NEW e \in Events, Dispatch(e)
  PROVE  QuietInv'
<1>0. seq \in Nat /\ folding \in [Events -> Fold]
  BY ValueTypes DEF QuietInv
<1>1. /\ MutexFree /\ Ready /\ NoFlushes /\ seq < MaxSeq /\ seq' = seq + 1
      /\ folding' = [folding EXCEPT ![e] = [stage |-> "taken", seq |-> seq + 1]]
      /\ UNCHANGED <<kv, flush, inbox, saving, opfs, snapshot, boot>>
  BY DEF Dispatch, FoldsAllowed, NoFlushes, NextSeq
<1>2. /\ folding'[e] = [stage |-> "taken", seq |-> seq + 1]
      /\ \A d \in Events \ {e} : folding'[d] = folding[d] /\ folding'[d].stage = "none"
  BY <1>0, <1>1, FreeFolds
<1>3. seq <= seq' /\ seq' <= MaxSeq
  BY <1>0, <1>1, StoreAssumption
<1>4. \A d \in Events : Taken(d)' => d = e
  BY <1>2 DEF Taken
<1>5. folding'[e].stage = "taken" /\ folding'[e].seq = seq + 1
  BY <1>2
<1>6. seq < folding'[e].seq /\ folding'[e].seq <= seq'
  BY <1>0, <1>1, <1>5
<1> QED
  BY <1>1, <1>2, <1>3, <1>4, <1>5, <1>6, TakeKeeps

LEMMA BatchQuiet ==
  ASSUME Overlap = FALSE, QuietInv, TypeOK', NEW arrival \in Arrivals, BatchImport(arrival)
  PROVE  QuietInv'
<1>0. seq \in Nat /\ folding \in [Events -> Fold]
  BY ValueTypes DEF QuietInv
<1>1. PICK S \in SUBSET Events :
        /\ arrival \in [S -> 1 .. Cardinality(S)]
        /\ \A d, e \in S : d # e => arrival[d] # arrival[e]
  BY DEF Arrivals
<1>2. Cardinality(S) \in Nat
  BY <1>1, StoreAssumption, FS_Subset, FS_CardinalityType
<1>3. /\ MutexFree /\ Ready /\ NoFlushes
      /\ seq + Cardinality(S) <= MaxSeq /\ seq' = seq + Cardinality(S)
      /\ folding' = [e \in Events |->
            IF e \in S THEN [stage |-> "taken", seq |-> seq + arrival[e]] ELSE folding[e]]
      /\ UNCHANGED <<kv, flush, inbox, saving, opfs, snapshot, boot>>
  BY <1>1 DEF BatchImport, FoldsAllowed, NoFlushes, Reserved
<1>4. seq <= seq' /\ seq' <= MaxSeq
  BY <1>0, <1>2, <1>3
<1>5. ASSUME NEW e \in S
      PROVE  /\ folding'[e].stage = "taken" /\ folding'[e].seq = seq + arrival[e]
             /\ arrival[e] \in 1 .. Cardinality(S)
  BY <1>1, <1>3
<1>6. \A e \in Events \ S : folding'[e].stage = "none"
  BY <1>3, FreeFolds
<1>7. \A e \in Events : folding'[e].stage \in {"none", "taken"}
  BY <1>5, <1>6
<1>8. \A e \in Events : Taken(e)' => e \in S
  BY <1>6 DEF Taken
<1>9. \A e \in S : seq < folding'[e].seq /\ folding'[e].seq <= seq'
  <2> SUFFICES ASSUME NEW e \in S PROVE seq < folding'[e].seq /\ folding'[e].seq <= seq'
    OBVIOUS
  <2>1. PICK n \in 1 .. Cardinality(S) : folding'[e].seq = seq + n
    BY <1>5
  <2>2. seq < seq + n /\ seq + n <= seq + Cardinality(S)
    BY <1>0, <1>2
  <2> QED
    BY <1>3, <2>1, <2>2
<1>10. \A d, e \in S : d # e => folding'[d].seq # folding'[e].seq
  <2> SUFFICES ASSUME NEW d \in S, NEW e \in S, d # e
               PROVE  folding'[d].seq # folding'[e].seq
    OBVIOUS
  <2>1. /\ folding'[d].seq = seq + arrival[d] /\ folding'[e].seq = seq + arrival[e]
        /\ arrival[d] \in 1 .. Cardinality(S) /\ arrival[e] \in 1 .. Cardinality(S)
        /\ arrival[d] # arrival[e]
    BY <1>1, <1>5
  <2>2. \A m, n \in 1 .. Cardinality(S) : m # n => seq + m # seq + n
    BY <1>0, <1>2
  <2> QED
    BY <2>1, <2>2
<1> QED
  BY <1>3, <1>4, <1>7, <1>8, <1>9, <1>10, TakeKeeps

\* An event in its fold: the page is ready and no snapshot is captured.
LEMMA InFoldFacts ==
  ASSUME QuietInv, NEW e \in Events, folding[e].stage # "none"
  PROVE  Ready /\ ~MutexFree /\ \A f \in Flushers : flush[f].pc # "capture"
BY DEF QuietInv, FoldsSound, FlushSound, MutexFree, InFold

\* A step of a fold that posts nothing.
LEMMA FoldKeeps ==
  ASSUME QuietInv, TypeOK', NEW e \in Events, folding[e].stage # "none",
         UNCHANGED <<seq, flush, inbox, saving, opfs, snapshot, boot>>, kv'.log = kv.log,
         folding'[e].stage # "taken",
         \A d \in Events \ {e} : folding'[d] = folding[d],
         MapSound', FoldsSound', EntriesKnown'
  PROVE  QuietInv'
<1>1. Entries' = Entries /\ Saves' = Saves /\ Appends' = Appends
  BY DEF Entries, Saves, Appends
<1>2. \A d \in Events : Taken(d)' => Taken(d) /\ folding'[d] = folding[d]
  BY DEF Taken
<1>3. TakenSound'
  BY <1>1, <1>2 DEF QuietInv, TakenSound
<1>4. SavesSound' /\ OnceSound'
  BY <1>1 DEF QuietInv, SavesSound, SoundMap, OnceSound, LoggedOnce
<1>5. FlushSound' /\ ReplaySound'
  BY InFoldFacts DEF QuietInv, FlushSound, ReplaySound, Ready
<1> QED
  BY <1>3, <1>4, <1>5 DEF QuietInv

LEMMA FoldQuiet ==
  ASSUME QuietInv, TypeOK', NEW e \in Events, SkipKnown(e) \/ KeyEvent(e) \/ ExecuteEvent(e)
  PROVE  QuietInv'
<1>0. /\ folding \in [Events -> Fold] /\ kv \in Kv /\ kv.idem \subseteq Events
      /\ \A x \in Entries : x.ev \in Events
  BY PlaceTypes, ValueTypes DEF QuietInv
<1>1. CASE SkipKnown(e)
  <2>1. /\ folding[e].stage = "taken" /\ e \in kv.idem /\ folding' = [folding EXCEPT ![e] = NoFold]
        /\ UNCHANGED <<kv, seq, flush, inbox, saving, opfs, snapshot, boot>>
    BY <1>1 DEF SkipKnown, Leave, Known
  <2>2. folding'[e].stage = "none" /\ \A d \in Events \ {e} : folding'[d] = folding[d]
    BY <1>0, <2>1 DEF NoFold
  <2>3. MapSound'
    BY <1>0, <2>1, <2>2 DEF QuietInv, MapSound, SoundMap
  <2>4. FoldsSound'
    BY <2>1, <2>2, InFoldFacts DEF QuietInv, FoldsSound, Ready
  <2>5. EntriesKnown'
    BY <1>0, <2>1, <2>2 DEF QuietInv, EntriesKnown, Entries, Appends, Ready
  <2> QED
    BY <2>1, <2>2, <2>3, <2>4, <2>5, FoldKeeps
<1>2. CASE KeyEvent(e)
  <2>1. /\ folding[e].stage = "logged" /\ kv' = [kv EXCEPT !.idem = @ \union {e}]
        /\ folding' = [folding EXCEPT ![e].stage = "keyed"]
        /\ UNCHANGED <<seq, flush, inbox, saving, opfs, snapshot, boot>>
    BY <1>2 DEF KeyEvent
  <2>2. kv'.log = kv.log /\ kv'.idem = kv.idem \union {e} /\ kv'.state = kv.state
    BY <1>0, <2>1 DEF Kv
  <2>3. folding'[e].stage = "keyed" /\ \A d \in Events \ {e} : folding'[d] = folding[d]
    BY <1>0, <2>1 DEF Fold
  <2>4. MapSound'
    <3>1. \E x \in kv.log : x.ev = e
      BY <2>1 DEF QuietInv, FoldsSound
    <3>2. \A d \in kv'.idem : \E x \in kv'.log : x.ev = d
      BY <2>2, <3>1 DEF QuietInv, MapSound, SoundMap
    <3>3. \A d \in kv'.idem : d \in kv'.state \/ folding'[d].stage = "keyed"
      BY <1>0, <2>2, <2>3 DEF QuietInv, MapSound
    <3> QED
      BY <2>1, <2>2, <3>2, <3>3 DEF QuietInv, MapSound, SoundMap
  <2>5. FoldsSound'
    BY <2>1, <2>2, <2>3, InFoldFacts DEF QuietInv, FoldsSound, Ready
  <2>6. EntriesKnown'
    BY <1>0, <2>1, <2>2, <2>3 DEF QuietInv, EntriesKnown, Entries, Appends, Ready
  <2> QED
    BY <2>1, <2>2, <2>3, <2>4, <2>5, <2>6, FoldKeeps
<1>3. CASE ExecuteEvent(e)
  <2>1. /\ folding[e].stage = "keyed" /\ kv' = [kv EXCEPT !.state = @ \union {e}]
        /\ folding' = [folding EXCEPT ![e] = NoFold]
        /\ UNCHANGED <<seq, flush, inbox, saving, opfs, snapshot, boot>>
    BY <1>3 DEF ExecuteEvent, Leave
  <2>2. kv'.log = kv.log /\ kv'.idem = kv.idem /\ kv'.state = kv.state \union {e}
    BY <1>0, <2>1 DEF Kv
  <2>3. folding'[e].stage = "none" /\ \A d \in Events \ {e} : folding'[d] = folding[d]
    BY <1>0, <2>1 DEF NoFold
  <2>4. MapSound'
    <3>1. \A d \in kv'.idem : d \in kv'.state \/ folding'[d].stage = "keyed"
      BY <1>0, <2>2, <2>3 DEF QuietInv, MapSound
    <3> QED
      BY <2>1, <2>2, <3>1 DEF QuietInv, MapSound, SoundMap
  <2>5. FoldsSound'
    BY <2>1, <2>2, <2>3, InFoldFacts DEF QuietInv, FoldsSound, Ready
  <2>6. EntriesKnown'
    BY <1>0, <2>1, <2>2, <2>3 DEF QuietInv, EntriesKnown, Entries, Appends, Ready
  <2> QED
    BY <2>1, <2>2, <2>3, <2>4, <2>5, <2>6, FoldKeeps
<1> QED
  BY <1>1, <1>2, <1>3

\* The entry that is posted is new, and has a seq that no entry of the map has.
LEMMA LogQuiet ==
  ASSUME QuietInv, TypeOK', NEW e \in Events, LogEvent(e)
  PROVE  QuietInv'
<1> DEFINE entry == [seq |-> folding[e].seq, ev |-> e]
           m == [kind |-> "append", entry |-> entry]
           n == Len(inbox) + 1
<1>0. /\ TypeOK /\ folding \in [Events -> Fold] /\ kv \in Kv /\ kv.idem \subseteq Events
      /\ \A x \in Entries : x.ev \in Events
  BY PlaceTypes, ValueTypes DEF QuietInv
<1>1. /\ Taken(e) /\ e \notin kv.idem /\ folding' = [folding EXCEPT ![e].stage = "logged"]
      /\ kv' = [kv EXCEPT !.log = {x \in kv.log : x.seq # entry.seq} \union {entry}]
      /\ inbox' = Append(inbox, m)
      /\ UNCHANGED <<seq, flush, saving, opfs, snapshot, boot>>
  BY DEF LogEvent, Post, PutLog, Known, Taken
<1>2. /\ entry \in Entry /\ entry.seq = folding[e].seq /\ entry.ev = e
      /\ m \in Message /\ m.kind = "append" /\ m.entry = entry
  BY <1>0, ValueTypes DEF Entry, Message
<1>3. /\ folding[e].seq <= seq /\ folding[e].seq <= MaxSeq
      /\ \A x \in kv.log : x.seq # folding[e].seq
      /\ \A d \in Events : Taken(d) /\ d # e => folding[d].seq # folding[e].seq
      /\ \A s \in Saves : s.seq < folding[e].seq
  BY <1>1 DEF QuietInv, TakenSound
<1>4. /\ kv'.log = kv.log \union {entry} /\ kv'.idem = kv.idem /\ kv'.state = kv.state
  BY <1>0, <1>1, <1>2, <1>3 DEF Kv
<1>5. folding'[e].stage = "logged" /\ \A d \in Events \ {e} : folding'[d] = folding[d]
  BY <1>0, <1>1 DEF Fold
<1>6. Ready /\ \A f \in Flushers : flush[f].pc # "capture"
  BY <1>1, InFoldFacts DEF Taken
<1> HIDE DEF entry, m
<1>7. /\ Appends' = Appends \union {n} /\ Entries' = Entries \union {entry} /\ Saves' = Saves
      /\ inbox'[n] = m /\ \A i \in Appends : inbox'[i] = inbox[i]
  <2>1. /\ Appends' = Appends \union {n} /\ Entries' = Entries \union {entry} /\ Saves' = Saves
    BY <1>0, <1>1, <1>2, PostingEntry
  <2>2. inbox'[n] = m /\ \A i \in 1 .. Len(inbox) : inbox'[i] = inbox[i]
    BY <1>0, <1>1, <1>2, Posting
  <2> QED
    BY <2>1, <2>2 DEF Appends
<1>8. \A x \in Entries : x.ev # e
  BY <1>1, <1>6 DEF QuietInv, EntriesKnown, Taken
<1>9. MapSound'
  <2>1. \A x \in kv'.log : x.seq <= seq'
    BY <1>1, <1>2, <1>3, <1>4 DEF QuietInv, MapSound, SoundMap
  <2>2. \A x, y \in kv'.log : x.seq = y.seq => x = y
    BY <1>2, <1>3, <1>4 DEF QuietInv, MapSound, SoundMap
  <2>3. \A d \in kv'.idem : \E x \in kv'.log : x.ev = d
    BY <1>4 DEF QuietInv, MapSound, SoundMap
  <2>4. \A d \in kv'.idem : d \in kv'.state \/ folding'[d].stage = "keyed"
    BY <1>0, <1>1, <1>4, <1>5 DEF QuietInv, MapSound
  <2> QED
    BY <2>1, <2>2, <2>3, <2>4 DEF MapSound, SoundMap
<1>10. TakenSound'
  <2>1. \A d \in Events : Taken(d)' => Taken(d) /\ d # e /\ folding'[d] = folding[d]
    BY <1>5 DEF Taken
  <2> SUFFICES ASSUME NEW d \in Events, Taken(d)'
               PROVE  /\ folding'[d].seq <= seq' /\ folding'[d].seq <= MaxSeq
                      /\ \A x \in kv'.log : x.seq # folding'[d].seq
                      /\ \A c \in Events : Taken(c)' /\ c # d => folding'[c].seq # folding'[d].seq
                      /\ \A s \in Saves' : s.seq < folding'[d].seq
    BY DEF TakenSound
  <2>2. Taken(d) /\ d # e /\ folding'[d] = folding[d]
    BY <2>1
  <2>3. \A x \in kv'.log : x.seq # folding'[d].seq
    BY <1>2, <1>3, <1>4, <2>2 DEF QuietInv, TakenSound
  <2>4. \A c \in Events : Taken(c)' /\ c # d => folding'[c].seq # folding'[d].seq
    BY <2>1, <2>2 DEF QuietInv, TakenSound
  <2> QED
    BY <1>1, <1>7, <2>2, <2>3, <2>4 DEF QuietInv, TakenSound
<1>11. FoldsSound'
  <2>1. ASSUME NEW d \in Events, folding'[d].stage = "logged"
        PROVE  \E x \in kv'.log : x.ev = d
    <3>1. CASE d = e
      BY <1>2, <1>4, <3>1
    <3>2. CASE d # e
      BY <1>4, <1>5, <2>1, <3>2 DEF QuietInv, FoldsSound
    <3> QED
      BY <3>1, <3>2
  <2> QED
    BY <1>1, <1>6, <2>1 DEF FoldsSound, Ready
<1>12. SavesSound'
  BY <1>1, <1>2, <1>3, <1>7 DEF QuietInv, SavesSound, SoundMap
<1>13. EntriesKnown'
  <2>1. \A x \in Entries' : x.seq <= MaxSeq
    BY <1>2, <1>3, <1>7 DEF QuietInv, EntriesKnown
  <2>2. ASSUME NEW x \in Entries'
        PROVE  x.ev \in kv'.idem \/ folding'[x.ev].stage = "logged"
    <3>1. CASE x = entry
      BY <1>2, <1>5, <3>1
    <3>2. CASE x \in Entries
      BY <1>0, <1>4, <1>5, <1>6, <1>8, <3>2 DEF QuietInv, EntriesKnown
    <3> QED
      BY <1>7, <2>2, <3>1, <3>2
  <2> QED
    BY <2>1, <2>2 DEF EntriesKnown
<1>14. FlushSound' /\ ReplaySound'
  BY <1>1, <1>6 DEF QuietInv, FlushSound, ReplaySound, Ready
<1>15. OnceSound'
  <2>1. LoggedOnce'
    BY <1>1 DEF QuietInv, OnceSound, LoggedOnce
  <2>2. \A i \in Appends : inbox[i].entry.ev # e
    BY <1>8 DEF Entries
  <2>3. \A i \in 1 .. Len(opfs) : opfs[i].ev # e
    BY <1>8 DEF Entries
  <2>4. inbox'[n].entry.ev = e
    BY <1>2, <1>7
  <2>5. \A i, j \in Appends' : inbox'[i].entry.ev = inbox'[j].entry.ev => i = j
    <3> SUFFICES ASSUME NEW i \in Appends', NEW j \in Appends',
                        inbox'[i].entry.ev = inbox'[j].entry.ev
                 PROVE  i = j
      OBVIOUS
    <3>1. CASE i \in Appends /\ j \in Appends
      <4>1. inbox[i].entry.ev = inbox[j].entry.ev
        BY <1>7, <3>1
      <4> QED
        BY <3>1, <4>1 DEF QuietInv, OnceSound
    <3>2. CASE i = n /\ j \in Appends
      BY <1>7, <2>2, <2>4, <3>2
    <3>3. CASE j = n /\ i \in Appends
      BY <1>7, <2>2, <2>4, <3>3
    <3> QED
      BY <1>7, <3>1, <3>2, <3>3
  <2>6. \A i \in 1 .. Len(opfs), j \in Appends' : opfs[i].ev # inbox'[j].entry.ev
    <3>1. \A i \in 1 .. Len(opfs), j \in Appends : opfs[i].ev # inbox[j].entry.ev
      BY DEF QuietInv, OnceSound
    <3> QED
      BY <1>7, <2>3, <2>4, <3>1
  <2> QED
    BY <1>1, <2>1, <2>5, <2>6 DEF OnceSound
<1> QED
  BY <1>9, <1>10, <1>11, <1>12, <1>13, <1>14, <1>15 DEF QuietInv

-----------------------------------------------------------------------------
(* The theorems. *)

LEMMA QuietInit == StoreInit => QuietInv
<1> SUFFICES ASSUME StoreInit PROVE QuietInv
  OBVIOUS
<1>1. /\ kv.log = {} /\ kv.idem = {} /\ seq = 0 /\ inbox = << >> /\ opfs = << >>
      /\ saving = << >> /\ snapshot = NoSnapshot /\ NoFlushes /\ Ready
      /\ \A e \in Events : folding[e].stage = "none"
  BY DEF StoreInit, EmptyKv, NoFlush, NoFlushes, NoFold, Ready
<1>2. Entries = {} /\ Saves = {NoSnapshot} /\ Appends = {}
  BY <1>1 DEF Entries, Saves, Appends
<1>3. /\ NoSnapshot.seq = 0 /\ NoSnapshot.kv.log = {} /\ NoSnapshot.kv.idem = {}
      /\ NoSnapshot.kv.state = {}
  BY DEF NoSnapshot, EmptyKv
<1>4. TypeOK
  BY StoreInitTypeOK
<1>5. MapSound /\ TakenSound /\ FoldsSound /\ SavesSound
  BY <1>1, <1>2, <1>3 DEF MapSound, SoundMap, TakenSound, Taken, FoldsSound, SavesSound
<1>6. EntriesKnown /\ FlushSound /\ ReplaySound /\ OnceSound
  BY <1>1, <1>2 DEF EntriesKnown, NoFlushes, FlushSound, ReplaySound, OnceSound, LoggedOnce
<1> QED
  BY <1>4, <1>5, <1>6 DEF QuietInv

LEMMA QuietNext ==
  ASSUME Overlap = FALSE, ReadFaults = {}
  PROVE  QuietInv /\ [StoreNext]_storeVars => QuietInv'
<1> SUFFICES ASSUME QuietInv, [StoreNext]_storeVars PROVE QuietInv'
  OBVIOUS
<1>1. TypeOK'
  BY StoreNextTypeOK DEF QuietInv
<1>2. CASE UNCHANGED storeVars
  <2>1. UNCHANGED <<kv, seq, folding, inbox, saving, opfs, snapshot, boot, flush>>
    BY <1>2 DEF storeVars
  <2>2. FlushSound'
    BY <2>1 DEF QuietInv, FlushSound, MutexFree, InFold, Ready
  <2> QED
    BY <1>1, <2>1, <2>2, FlushKeeps
<1>3. CASE \/ \E e \in Events : Dispatch(e)
           \/ \E arrival \in Arrivals : BatchImport(arrival)
  BY <1>1, <1>3, DispatchQuiet, BatchQuiet
<1>4. CASE FoldStep
  BY <1>1, <1>4, FoldQuiet, LogQuiet DEF FoldStep
<1>5. CASE \/ EnterFold \/ ExitFold
           \/ \E f \in Flushers : StartFlush(f) \/ StartManualSnapshot(f) \/ FlushStep(f)
  BY <1>1, <1>5, GateQuiet, FlushSteps, FlushQuiet, CaptureQuiet
<1>6. CASE WorkerStep \/ WorkerAppendFails \/ CommitSnapshot \/ AbortSave
  BY <1>1, <1>6, WorkerQuiet DEF WorkerStep
<1>7. CASE Reload \/ ReplayStep
  BY <1>1, <1>7, ReloadQuiet, ReplayQuiet, ReplayDoneQuiet DEF ReplayStep
<1> QED
  BY <1>2, <1>3, <1>4, <1>5, <1>6, <1>7 DEF StoreNext

LEMMA QuietShows ==
  ASSUME QuietInv
  PROVE  NothingForgotten /\ LoggedOnce /\ SeqsFresh /\ MapLogComplete
<1>1. ASSUME Ready, NEW i \in 1 .. Len(opfs)
      PROVE  opfs[i].ev \in kv.state \union InFold
  <2>1. opfs[i] \in Entries /\ opfs[i].ev \in Events
    BY PlaceTypes, ValueTypes DEF QuietInv, Entries
  <2>2. opfs[i].ev \in kv.idem \/ folding[opfs[i].ev].stage = "logged"
    BY <1>1, <2>1 DEF QuietInv, EntriesKnown
  <2>3. opfs[i].ev \in kv.state \/ folding[opfs[i].ev].stage \in {"keyed", "logged"}
    BY <2>2 DEF QuietInv, MapSound
  <2> QED
    BY <2>1, <2>3 DEF InFold
<1>2. NothingForgotten
  BY <1>1 DEF NothingForgotten, Logged
<1>3. SeqsFresh
  BY DEF QuietInv, MapSound, SoundMap, TakenSound, Taken, SeqsFresh
<1>4. MapLogComplete
  BY DEF QuietInv, MapSound, SoundMap, MapLogComplete
<1>5. LoggedOnce
  BY DEF QuietInv, OnceSound
<1> QED
  BY <1>2, <1>3, <1>4, <1>5

\* If nobody folds while a snapshot is taken and what is stored can be read, every event
\* that ever reached the log is in the map after a page load, whenever pages died and
\* whatever appends and saves failed (init in eo-store.ts, loadKvSnapshot, replayFromLog).
THEOREM NothingIsForgotten ==
  Overlap = FALSE /\ ReadFaults = {} => (StoreSpec => []NothingForgotten)
<1> SUFFICES ASSUME Overlap = FALSE, ReadFaults = {} PROVE StoreSpec => []NothingForgotten
  OBVIOUS
<1>1. QuietInv => NothingForgotten
  BY QuietShows
<1>2. QuietInv /\ [StoreNext]_storeVars => QuietInv'
  BY QuietNext
<1> QED
  BY <1>1, <1>2, QuietInit, PTL DEF StoreSpec

\* Under the same conditions no event is appended twice: a fold that repeats after a page
\* death finds the idem: key (the check in processEventInner, before appendRaw).
THEOREM NothingLoggedTwice ==
  Overlap = FALSE /\ ReadFaults = {} => (StoreSpec => []LoggedOnce)
<1> SUFFICES ASSUME Overlap = FALSE, ReadFaults = {} PROVE StoreSpec => []LoggedOnce
  OBVIOUS
<1>1. QuietInv => LoggedOnce
  BY QuietShows
<1>2. QuietInv /\ [StoreNext]_storeVars => QuietInv'
  BY QuietNext
<1> QED
  BY <1>1, <1>2, QuietInit, PTL DEF StoreSpec

\* And the seq counter that a page load restores is one that no entry of the restored map
\* has, so that no fold puts its log: key over another's (nextSeq).
THEOREM SeqsStayFresh ==
  Overlap = FALSE /\ ReadFaults = {} => (StoreSpec => []SeqsFresh)
<1> SUFFICES ASSUME Overlap = FALSE, ReadFaults = {} PROVE StoreSpec => []SeqsFresh
  OBVIOUS
<1>1. QuietInv => SeqsFresh
  BY QuietShows
<1>2. QuietInv /\ [StoreNext]_storeVars => QuietInv'
  BY QuietNext
<1> QED
  BY <1>1, <1>2, QuietInit, PTL DEF StoreSpec

\* Hence an event that the map takes for folded has its log: key in the map, also when the
\* map is that of a snapshot with the entries of the log replayed over it: a reader of the
\* keys (readLogSince) misses no event that idem: says was folded.
THEOREM MapLogStaysComplete ==
  Overlap = FALSE /\ ReadFaults = {} => (StoreSpec => []MapLogComplete)
<1> SUFFICES ASSUME Overlap = FALSE, ReadFaults = {} PROVE StoreSpec => []MapLogComplete
  OBVIOUS
<1>1. QuietInv => MapLogComplete
  BY QuietShows
<1>2. QuietInv /\ [StoreNext]_storeVars => QuietInv'
  BY QuietNext
<1> QED
  BY <1>1, <1>2, QuietInit, PTL DEF StoreSpec
=============================================================================
