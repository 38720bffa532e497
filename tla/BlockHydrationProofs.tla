------------------------- MODULE BlockHydrationProofs -------------------------
(***************************************************************************)
(* Theorems about BlockHydration, for any bounds, any live window, and any *)
(* number of failures, forced runs and blocks disabled and enabled again.  *)
(***************************************************************************)
EXTENDS BlockHydration, WellFoundedInduction, TLAPS

\* Numbers have a least one among them.
LEMMA LeastNatural ==
  ASSUME NEW S \in SUBSET Nat, S # {}
  PROVE  \E x \in S : \A y \in S : x <= y
<1> DEFINE R == OpToRel(<, Nat)
<1>1. \A x, y \in Nat : x < y => <<x, y>> \in R
  BY Zenon DEF OpToRel
<1> HIDE DEF R
<1>2. PICK x \in S : \A y \in S : <<y, x>> \notin R
  <2>1. IsWellFoundedOn(R, Nat)
    BY NatLessThanWellFounded DEF R
  <2> QED
    BY <2>1, WFMin
<1>3. \A y \in S : ~(y < x)
  BY <1>1, <1>2
<1> QED
  BY <1>3

\* The events of block k of a chain with these cutoffs.
Sealed(cut, k) == (IF k - 1 = 0 THEN 0 ELSE cut[k - 1]) + 1 .. (IF k = 0 THEN 0 ELSE cut[k])

\* The events hold every block up to h that was never disabled.
Held(cut, off, events, h) == \A k \in 1 .. h : k \notin off => Sealed(cut, k) \subseteq events

\* No cursor and no run is ahead of the chain.
WithinChain ==
  /\ marker <= ChainLen /\ saved.head <= ChainLen /\ seen.head <= ChainLen
  /\ \A r \in Runs : /\ run[r].head <= ChainLen /\ run[r].stop <= ChainLen
                     /\ run[r].todo \subseteq 1 .. run[r].head

TypeInv == TypeOK /\ WithinChain

\* What a run may count on: its stop block is covered, and it has folded the blocks
\* that it has left behind.
RunHolds(cut, off, events, x) ==
  /\ x.pc # "idle" => Held(cut, off, events, x.stop)
  /\ x.pc = "apply" =>
       \A k \in 1 .. x.head : k \notin off /\ k \notin x.todo => Sealed(cut, k) \subseteq events
  /\ x.pc \in {"tail", "mark", "flush"} => Held(cut, off, events, x.head)

HydrInv ==
  /\ TypeInv
  /\ seen.off \subseteq used.off /\ room.off \subseteq used.off
  /\ Held(room.cut, used.off, mem, marker)
  /\ Held(room.cut, used.off, saved.events, saved.head)
  /\ \A r \in Runs : RunHolds(room.cut, used.off, mem, run[r])

-----------------------------------------------------------------------------
(* Types. *)

\* A chain that grows keeps its cutoffs.
LEMMA AppendKeeps ==
  ASSUME NEW s \in Seq(Nat), NEW n \in Nat
  PROVE  /\ Append(s, n) \in Seq(Nat) /\ Len(Append(s, n)) = Len(s) + 1 /\ Len(s) \in Nat
         /\ \A i \in 1 .. Len(s) : Append(s, n)[i] = s[i] /\ s[i] \in Nat
OBVIOUS

LEMMA SpentMore ==
  ASSUME NEW u \in Spent, NEW S \in SUBSET Nat
  PROVE  /\ [u EXCEPT !.reloads = u.reloads + 1] \in Spent
         /\ [u EXCEPT !.reapplies = u.reapplies + 1] \in Spent
         /\ [u EXCEPT !.fails = u.fails + 1] \in Spent
         /\ [u EXCEPT !.toggles = u.toggles + 1, !.off = u.off \union S] \in Spent
<1>1. /\ u.reloads \in Nat /\ u.toggles \in Nat /\ u.reapplies \in Nat /\ u.fails \in Nat
      /\ u.off \in SUBSET Nat
  BY DEF Spent
<1>2. /\ u.reloads + 1 \in Nat /\ u.toggles + 1 \in Nat /\ u.reapplies + 1 \in Nat
      /\ u.fails + 1 \in Nat
  BY <1>1
<1>7. u.off \union S \in SUBSET Nat
  BY <1>1
<1>3. [u EXCEPT !.reloads = u.reloads + 1] \in Spent
  BY <1>1, <1>2 DEF Spent
<1>4. [u EXCEPT !.reapplies = u.reapplies + 1] \in Spent
  BY <1>1, <1>2 DEF Spent
<1>5. [u EXCEPT !.fails = u.fails + 1] \in Spent
  BY <1>1, <1>2 DEF Spent
<1>6. [u EXCEPT !.toggles = u.toggles + 1, !.off = u.off \union S] \in Spent
  BY <1>1, <1>2, <1>7 DEF Spent
<1> QED
  BY <1>3, <1>4, <1>5, <1>6

LEMMA LeastBlock ==
  ASSUME NEW S, S \subseteq Nat, S # {}
  PROVE  (CHOOSE i \in S : \A j \in S : i <= j) \in S
BY LeastNatural

LEMMA BlockTypes ==
  ASSUME TypeOK
  PROVE  /\ ChainLen \in Nat
         /\ \A k \in 0 .. ChainLen : CutoffOf(k) \in Nat
         /\ \A k \in 1 .. ChainLen : BlockEvents(k) \subseteq Nat /\ BlockEvents(k) = Sealed(room.cut, k)
<1>1. room.cut \in Seq(Nat)
  BY DEF TypeOK, Room
<1>2. ChainLen \in Nat /\ \A i \in 1 .. ChainLen : room.cut[i] \in Nat
  BY <1>1 DEF ChainLen
<1>3. \A k \in 0 .. ChainLen : CutoffOf(k) \in Nat
  BY <1>2 DEF CutoffOf
<1> QED
  BY <1>2, <1>3 DEF BlockEvents, Sealed, CutoffOf

LEMMA TypeInit == HydrInit => TypeInv
<1> SUFFICES ASSUME HydrInit PROVE TypeInv
  OBVIOUS
<1> USE DEF HydrInit
<1>1. NoRun \in Run /\ NoRun.head = 0 /\ NoRun.stop = 0 /\ NoRun.todo = {}
  BY DEF NoRun, Run
<1>2. room \in Room /\ ChainLen = 0
  BY DEF Room, ChainLen
<1>3. seen \in Seen /\ used \in Spent /\ saved \in [events : SUBSET Nat, head : Nat]
  BY DEF Seen, Spent
<1>4. run \in [Runs -> Run] /\ \A r \in Runs : run[r] = NoRun
  BY <1>1
<1>5. TypeOK
  BY <1>2, <1>3, <1>4 DEF TypeOK
<1> QED
  BY <1>1, <1>2, <1>4, <1>5 DEF TypeInv, WithinChain

\* The actions of the room and the device, and those that begin a run.
LEMMA TypeOutside ==
  ASSUME TypeInv,
         \/ PostEvent \/ SealBlock \/ Sync \/ Reload \/ ClearMarker \/ DropUpdate
         \/ \E k \in 1 .. ChainLen : ToggleBlock(k)
         \/ \E e \in mem : Persist(e)
  PROVE  TypeInv'
<1>0. /\ room.posted \in Nat /\ room.cut \in Seq(Nat) /\ room.off \in SUBSET Nat
      /\ ChainLen = Len(room.cut) /\ ChainLen \in Nat /\ room \in Room /\ seen \in Seen
      /\ used \in Spent /\ mem \in SUBSET Nat /\ saved \in [events : SUBSET Nat, head : Nat]
      /\ marker \in Nat /\ run \in [Runs -> Run] /\ booting \in BOOLEAN /\ armed \in BOOLEAN
      /\ marker <= ChainLen /\ saved.head <= ChainLen /\ seen.head <= ChainLen
      /\ \A r \in Runs : /\ run[r].head <= ChainLen /\ run[r].stop <= ChainLen
                          /\ run[r].todo \subseteq 1 .. run[r].head
                          /\ run[r].head \in Nat /\ run[r].stop \in Nat
  BY BlockTypes DEF TypeInv, TypeOK, WithinChain, Room, Run, ChainLen
<1>1. ASSUME room' \in Room, ChainLen' \in {ChainLen, ChainLen + 1}, used' \in Spent,
             UNCHANGED <<seen, mem, saved, marker, run, booting, armed>>
      PROVE  TypeInv'
  <2>1. TypeOK'
    BY <1>0, <1>1 DEF TypeOK
  <2>2. ChainLen' \in Nat /\ ChainLen <= ChainLen' /\ seen.head \in Nat /\ saved.head \in Nat
    BY <1>0, <1>1 DEF Seen
  <2>3. marker <= ChainLen' /\ saved.head <= ChainLen' /\ seen.head <= ChainLen'
    BY <1>0, <2>2
  <2>4. \A r \in Runs : run[r].head <= ChainLen' /\ run[r].stop <= ChainLen'
    BY <1>0, <2>2
  <2>5. WithinChain'
    BY <1>0, <1>1, <2>3, <2>4 DEF WithinChain
  <2> QED
    BY <2>1, <2>5 DEF TypeInv
<1>2. CASE PostEvent
  <2>1. room' \in Room /\ room'.cut = room.cut
    <3>1. room' = [room EXCEPT !.posted = room.posted + 1]
      BY <1>2 DEF PostEvent
    <3>2. room.posted + 1 \in Nat
      BY <1>0
    <3> QED
      BY <1>0, <3>1, <3>2 DEF Room
  <2> QED
    BY <1>0, <1>1, <1>2, <2>1 DEF PostEvent, RoomOnly, ChainLen
<1>3. CASE SealBlock
  <2>1. room' = [room EXCEPT !.cut = Append(@, room.posted)]
    BY <1>3 DEF SealBlock
  <2>2. room' \in Room /\ ChainLen' = ChainLen + 1
    BY <1>0, <2>1, AppendKeeps DEF Room, ChainLen
  <2> QED
    BY <1>0, <1>1, <1>3, <2>2 DEF SealBlock, RoomOnly
<1>4. CASE \E k \in 1 .. ChainLen : ToggleBlock(k)
  <2>1. PICK k \in 1 .. ChainLen : ToggleBlock(k)
    BY <1>4
  <2> DEFINE off == IF k \in room.off THEN room.off \ {k} ELSE room.off \union {k}
  <2>4. k \in Nat
    BY <1>0
  <2>5. off \in SUBSET Nat /\ room' = [room EXCEPT !.off = off]
    BY <1>0, <2>1, <2>4 DEF ToggleBlock
  <2> HIDE DEF off
  <2>2. room' \in Room /\ room'.cut = room.cut
    BY <1>0, <2>5 DEF Room
  <2>3. used' \in Spent
    <3>1. used' = [used EXCEPT !.toggles = used.toggles + 1, !.off = used.off \union {k}]
      BY <2>1 DEF ToggleBlock
    <3> QED
      BY <1>0, <2>4, <3>1, SpentMore
  <2> QED
    BY <1>0, <1>1, <2>1, <2>2, <2>3 DEF ToggleBlock, RoomOnly, ChainLen
<1>5. ASSUME UNCHANGED room, seen' \in Seen, seen'.head <= ChainLen, mem' \in SUBSET Nat,
             saved' \in [events : SUBSET Nat, head : Nat], saved'.head = saved.head,
             marker' \in {0, marker, saved.head}, booting' \in BOOLEAN, armed' \in BOOLEAN,
             used' \in Spent, run' \in {run, [r \in Runs |-> NoRun]}
      PROVE  TypeInv'
  <2>1. ChainLen' = ChainLen /\ marker' \in Nat /\ marker' <= ChainLen
    BY <1>0, <1>5 DEF ChainLen
  <2>2. NoRun \in Run /\ NoRun.head = 0 /\ NoRun.stop = 0 /\ NoRun.todo = {}
    BY DEF NoRun, Run
  <2>3. run' \in [Runs -> Run] /\ \A r \in Runs : run'[r] \in {run[r], NoRun}
    BY <1>0, <1>5, <2>2
  <2>4. WithinChain'
    BY <1>0, <1>5, <2>1, <2>2, <2>3 DEF WithinChain
  <2> QED
    BY <1>0, <1>5, <2>1, <2>3, <2>4 DEF TypeInv, TypeOK
<1>6. CASE Sync
  <2>1. seen' \in Seen /\ seen'.head = ChainLen
    BY <1>0, <1>6 DEF Sync, Seen
  <2>2. armed' \in BOOLEAN
    BY <1>0, <1>6, Zenon DEF Sync
  <2> QED
    BY <1>0, <1>5, <1>6, <2>1, <2>2 DEF Sync
<1>7. CASE \E e \in mem : Persist(e)
  <2>1. saved' \in [events : SUBSET Nat, head : Nat] /\ saved'.head = saved.head
    BY <1>0, <1>7 DEF Persist
  <2> QED
    BY <1>0, <1>5, <1>7, <2>1 DEF Persist
<1>8. CASE Reload
  <2>1. LiveBase \in Nat
    BY <1>0, HydrationAssumption DEF LiveBase
  <2>2. seen' \in Seen /\ seen'.head = ChainLen
    BY <1>0, <1>8, <2>1 DEF Reload, Seen
  <2>3. used' \in Spent /\ mem' \in SUBSET Nat
    <3>1. used' = [used EXCEPT !.reloads = used.reloads + 1] /\ mem' = saved.events
      BY <1>8 DEF Reload
    <3>2. used' \in Spent
      BY <1>0, <3>1, SpentMore
    <3> QED
      BY <1>0, <3>1, <3>2
  <2>4. run' \in {run, [r \in Runs |-> NoRun]} /\ marker' \in {0, marker, saved.head}
    BY <1>8, Zenon DEF Reload
  <2>5. UNCHANGED <<room, saved>> /\ booting' \in BOOLEAN /\ armed' \in BOOLEAN
    BY <1>8 DEF Reload
  <2> QED
    BY <1>0, <1>5, <2>2, <2>3, <2>4, <2>5
<1>9. CASE ClearMarker \/ DropUpdate
  BY <1>0, <1>5, <1>9 DEF ClearMarker, DropUpdate
<1> QED
  BY <1>2, <1>3, <1>4, <1>6, <1>7, <1>8, <1>9

\* How Begin leaves the marker and its run: as it was, at the tail of an empty chain,
\* or about to walk.
LEMMA BeginCases ==
  ASSUME TypeInv, NEW r \in Runs, NEW force \in BOOLEAN, Begin(r, force)
  PROVE  /\ marker' \in {0, marker} /\ UNCHANGED <<room, seen, mem, saved>>
         /\ \E x \in Run :
              /\ run' = [run EXCEPT ![r] = x]
              /\ \/ x = run[r]
                 \/ x.pc = "tail" /\ x.head = 0 /\ x.stop = 0 /\ x.todo = {}
                 \/ x.pc = "walk" /\ x.head = seen.head /\ x.stop \in {0, marker} /\ x.todo = {}
<1>1. seen.head \in Nat /\ marker \in Nat /\ run \in [Runs -> Run] /\ run[r] \in Run
  BY DEF TypeInv, TypeOK, Seen
<1>2. PICK s \in Nat : s = StopAt(force) /\ s \in {0, marker}
  BY <1>1 DEF StopAt
<1> DEFINE tail == [pc |-> "tail", head |-> 0, stop |-> 0, todo |-> {}]
           walk == [pc |-> "walk", head |-> seen.head, stop |-> s, todo |-> {}]
<1>3. /\ tail \in Run /\ tail.pc = "tail" /\ tail.head = 0 /\ tail.stop = 0 /\ tail.todo = {}
      /\ tail = [NoRun EXCEPT !.pc = "tail"]
  BY DEF NoRun, Run
<1>4. /\ walk \in Run /\ walk.pc = "walk" /\ walk.head = seen.head /\ walk.todo = {}
      /\ walk.stop \in {0, marker}
  BY <1>1, <1>2 DEF Run
<1>7. walk = [pc |-> "walk", head |-> seen.head, stop |-> StopAt(force), todo |-> {}]
  BY <1>2
<1> HIDE DEF tail, walk
<1>5. /\ marker' \in {0, marker} /\ UNCHANGED <<room, seen, mem, saved>>
      /\ \/ run' = run
         \/ run' = [run EXCEPT ![r] = tail]
         \/ run' = [run EXCEPT ![r] = walk]
  BY <1>3, <1>7 DEF Begin
<1>6. run = [run EXCEPT ![r] = run[r]]
  BY <1>1
<1> QED
  BY <1>1, <1>3, <1>4, <1>5, <1>6

LEMMA TypeBegin ==
  ASSUME TypeInv, BeginBoot \/ BeginIngest \/ BeginReapply
  PROVE  TypeInv'
<1>1. PICK r \in Runs, force \in BOOLEAN : Begin(r, force)
  BY DEF BeginBoot, BeginIngest, BeginReapply, Runs
<1>2. booting' \in BOOLEAN /\ armed' \in BOOLEAN
  BY DEF BeginBoot, BeginIngest, BeginReapply, TypeInv, TypeOK
<1>3. used' \in Spent
  BY SpentMore DEF BeginBoot, BeginIngest, BeginReapply, TypeInv, TypeOK
<1>4. /\ marker \in Nat /\ seen.head \in Nat /\ ChainLen \in Nat
      /\ marker <= ChainLen /\ seen.head <= ChainLen
  BY BlockTypes DEF TypeInv, TypeOK, WithinChain, Seen
<1>5. PICK x \in Run :
        /\ run' = [run EXCEPT ![r] = x]
        /\ \/ x = run[r]
           \/ x.pc = "tail" /\ x.head = 0 /\ x.stop = 0 /\ x.todo = {}
           \/ x.pc = "walk" /\ x.head = seen.head /\ x.stop \in {0, marker} /\ x.todo = {}
  BY <1>1, BeginCases
<1>6. x.head <= ChainLen /\ x.stop <= ChainLen /\ x.todo \subseteq 1 .. x.head
  BY <1>4, <1>5 DEF TypeInv, WithinChain
<1>7. marker' \in {0, marker} /\ UNCHANGED <<room, seen, mem, saved>>
  BY <1>1, BeginCases
<1> QED
  BY <1>2, <1>3, <1>4, <1>5, <1>6, <1>7 DEF TypeInv, TypeOK, WithinChain, ChainLen

\* What TypeInv says of the state that a run works on.
LEMMA RunTypes ==
  ASSUME TypeInv, NEW r \in Runs
  PROVE  /\ run \in [Runs -> Run] /\ run[r] \in Run
         /\ run[r].head \in Nat /\ run[r].stop \in Nat /\ run[r].todo \in SUBSET Nat
         /\ run[r].head <= ChainLen /\ run[r].stop <= ChainLen
         /\ run[r].todo \subseteq 1 .. run[r].head
         /\ ChainLen \in Nat /\ mem \in SUBSET Nat /\ marker \in Nat /\ used \in Spent
         /\ saved.events \in SUBSET Nat /\ saved.head \in Nat
         /\ marker <= ChainLen /\ saved.head <= ChainLen
         /\ seen.base \in Nat /\ seen.len \in Nat
BY BlockTypes DEF TypeInv, TypeOK, WithinChain, Run, Seen

LEMMA TypeRun ==
  ASSUME TypeInv, NEW r \in Runs, RunStep(r) \/ FailRun(r)
  PROVE  TypeInv'
<1>0. PICK x \in Run :
      /\ x = run[r] /\ run \in [Runs -> Run] /\ x.head <= ChainLen /\ x.stop <= ChainLen /\ x.todo \subseteq 1 .. x.head
      /\ x.head \in Nat /\ x.stop \in Nat /\ ChainLen \in Nat /\ mem \in SUBSET Nat
      /\ marker \in Nat /\ marker <= ChainLen /\ used \in Spent
  BY RunTypes
<1>1. ASSUME NEW y, y \in Run, y.head <= ChainLen, y.stop <= ChainLen,
             y.todo \subseteq 1 .. y.head, run' = [run EXCEPT ![r] = y],
             UNCHANGED <<room, seen, booting, armed>>, used' \in Spent,
             mem' \in SUBSET Nat, saved' \in [events : SUBSET Nat, head : Nat],
             saved'.head <= ChainLen, marker' \in {marker, x.head}
      PROVE  TypeInv'
  <2>1. marker' \in Nat /\ marker' <= ChainLen
    BY <1>0, <1>1
  <2> QED
    BY <1>0, <1>1, <2>1 DEF TypeInv, TypeOK, WithinChain, ChainLen
<1>2. ASSUME NEW y, y \in Run, y.head = x.head, y.stop = x.stop, y.todo \subseteq 1 .. y.head,
             run' = [run EXCEPT ![r] = y], RunOnly, UNCHANGED saved,
             mem' \in SUBSET Nat, marker' \in {marker, x.head}
      PROVE  TypeInv'
  <2>1. saved' \in [events : SUBSET Nat, head : Nat] /\ saved'.head <= ChainLen
    BY <1>2 DEF TypeInv, TypeOK, WithinChain
  <2> QED
    BY <1>0, <1>1, <1>2, <2>1 DEF RunOnly
<1>3. CASE WalkChain(r)
  <2> DEFINE T == (FirstBlock(r) .. x.head) \ seen.off
             y == [x EXCEPT !.pc = "apply", !.todo = T]
  <2>1. T \subseteq 1 .. x.head /\ T \in SUBSET Nat
    BY <1>0 DEF FirstBlock
  <2>2. run' = [run EXCEPT ![r] = y] /\ RunOnly /\ UNCHANGED <<mem, saved, marker>>
    BY <1>0, <1>3 DEF WalkChain
  <2> HIDE DEF T
  <2>3. y \in Run /\ y.head = x.head /\ y.stop = x.stop /\ y.todo = T
    BY <1>0, <2>1 DEF Run
  <2> HIDE DEF y
  <2> QED
    BY <1>0, <1>2, <2>1, <2>2, <2>3
<1>4. CASE ApplyBlock(r)
  <2> DEFINE k == CHOOSE i \in x.todo : \A j \in x.todo : i <= j
             T == x.todo \ {k}
             y == [x EXCEPT !.todo = T]
  <2>1. k \in x.todo
    <3>1. x.todo # {} /\ x.todo \subseteq Nat
      BY <1>0, <1>4 DEF ApplyBlock
    <3> QED
      BY <3>1, LeastBlock
  <2>2. /\ mem' = mem \union BlockEvents(k) /\ run' = [run EXCEPT ![r] = y]
        /\ RunOnly /\ UNCHANGED <<saved, marker>>
    BY <1>0, <1>4 DEF ApplyBlock
  <2> HIDE DEF k
  <2>3. T \in SUBSET Nat /\ T \subseteq 1 .. x.head
    BY <1>0
  <2> HIDE DEF T
  <2>4. y \in Run /\ y.head = x.head /\ y.stop = x.stop /\ y.todo = T
    BY <1>0, <2>3 DEF Run
  <2>5. mem' \in SUBSET Nat
    <3>1. k \in 1 .. ChainLen
      BY <1>0, <2>1
    <3> QED
      BY <1>0, <2>2, <3>1, BlockTypes DEF TypeInv
  <2> HIDE DEF y
  <2> QED
    BY <1>0, <1>2, <2>2, <2>3, <2>4, <2>5
<1>5. ASSUME NEW p \in {"tail", "mark", "flush"}, run' = [run EXCEPT ![r].pc = p],
             RunOnly, UNCHANGED saved, mem' \in SUBSET Nat, marker' \in {marker, x.head}
      PROVE  TypeInv'
  <2> DEFINE y == [x EXCEPT !.pc = p]
  <2>1. y \in Run /\ y.head = x.head /\ y.stop = x.stop /\ y.todo = x.todo
    BY <1>0 DEF Run
  <2>2. run' = [run EXCEPT ![r] = y]
    BY <1>0, <1>5
  <2> HIDE DEF y
  <2> QED
    BY <1>0, <1>2, <1>5, <2>1, <2>2
<1>6. CASE BlocksDone(r)
  BY <1>0, <1>5, <1>6 DEF BlocksDone
<1>7. CASE ApplyTail(r)
  <2>1. \E first \in Nat : mem' = mem \/ mem' = mem \union (first .. seen.len)
    <3>1. CutoffOf(x.head) + 1 \in Nat /\ seen.base + 1 \in Nat
      BY <1>0, BlockTypes, RunTypes DEF TypeInv
    <3> QED
      BY <1>0, <1>7, <3>1 DEF ApplyTail
  <2>2. mem' \in SUBSET Nat
    <3>1. PICK first \in Nat : mem' = mem \/ mem' = mem \union (first .. seen.len)
      BY <2>1
    <3>2. first .. seen.len \subseteq Nat
      BY RunTypes
    <3> QED
      BY <1>0, <3>1, <3>2
  <2>3. PICK p \in {"tail", "mark", "flush"} : run' = [run EXCEPT ![r].pc = p]
    BY <1>7 DEF ApplyTail
  <2> QED
    BY <1>5, <1>7, <2>2, <2>3 DEF ApplyTail
<1>8. CASE WriteMarker(r)
  BY <1>0, <1>5, <1>8 DEF WriteMarker
<1>9. /\ NoRun \in Run /\ NoRun.head <= ChainLen /\ NoRun.stop <= ChainLen
      /\ NoRun.todo \subseteq 1 .. NoRun.head
  BY <1>0 DEF NoRun, Run
<1>10. CASE FlushRun(r)
  <2>1. FlushCursor(r) \in Nat /\ FlushCursor(r) <= ChainLen
    BY <1>0, RunTypes DEF FlushCursor
  <2>2. saved.events \union mem \in SUBSET Nat
    BY RunTypes
  <2>3. saved' \in [events : SUBSET Nat, head : Nat] /\ saved'.head <= ChainLen
    BY <1>10, <2>1, <2>2 DEF FlushRun
  <2>4. /\ run' = [run EXCEPT ![r] = NoRun] /\ UNCHANGED <<room, seen, booting, armed, used>>
        /\ UNCHANGED <<mem, marker>>
    BY <1>10 DEF FlushRun, RunOnly
  <2> QED
    BY <1>0, <1>1, <1>9, <2>3, <2>4
<1>11. CASE FailRun(r)
  <2>1. saved' \in [events : SUBSET Nat, head : Nat] /\ saved'.head <= ChainLen
    BY <1>11 DEF FailRun, TypeInv, TypeOK, WithinChain
  <2>2. used' \in Spent
    BY <1>0, <1>11, SpentMore DEF FailRun
  <2> QED
    BY <1>0, <1>1, <1>9, <1>11, <2>1, <2>2 DEF FailRun
<1> QED
  BY <1>3, <1>4, <1>6, <1>7, <1>8, <1>10, <1>11 DEF RunStep

LEMMA TypeStep == TypeInv /\ [HydrNext]_hydrVars => TypeInv'
<1>1. ASSUME TypeInv, UNCHANGED hydrVars PROVE TypeInv'
  BY <1>1 DEF hydrVars, TypeInv, TypeOK, WithinChain, ChainLen
<1> QED
  BY <1>1, TypeOutside, TypeBegin, TypeRun DEF HydrNext

\* Types, and no cursor ahead of the chain, whatever fails or is cut off.
THEOREM HydrTypeCorrect == HydrSpec => []TypeOK
<1>1. TypeInv => TypeOK
  BY DEF TypeInv
<1> QED
  BY <1>1, TypeInit, TypeStep, PTL DEF HydrSpec

-----------------------------------------------------------------------------
(* What the cursors cover. *)

\* A chain only grows: the cutoffs it had stay where they were.
Extends(cut2, cut) ==
  /\ cut \in Seq(Nat) /\ cut2 \in Seq(Nat) /\ Len(cut) <= Len(cut2)
  /\ \A i \in 1 .. Len(cut) : cut2[i] = cut[i]

\* What is held stays held when the chain grows, more is folded, or more is disabled.
LEMMA SealedStays ==
  ASSUME NEW cut, NEW cut2, Extends(cut2, cut), NEW k \in 1 .. Len(cut)
  PROVE  Sealed(cut2, k) = Sealed(cut, k)
<1>1. Len(cut) \in Nat /\ \A i \in 1 .. Len(cut) : cut2[i] = cut[i]
  BY DEF Extends
<1>2. k # 0 /\ cut2[k] = cut[k] /\ (k - 1 = 0 \/ k - 1 \in 1 .. Len(cut))
  BY <1>1
<1>3. k - 1 = 0 \/ cut2[k - 1] = cut[k - 1]
  BY <1>1, <1>2
<1> QED
  BY <1>2, <1>3 DEF Sealed

LEMMA HeldStays ==
  ASSUME NEW cut, NEW cut2, Extends(cut2, cut), NEW off, NEW off2, off \subseteq off2,
         NEW events, NEW events2, events \subseteq events2,
         NEW h \in Nat, h <= Len(cut), Held(cut, off, events, h)
  PROVE  Held(cut2, off2, events2, h)
<1>1. Len(cut) \in Nat
  BY DEF Extends
<1> SUFFICES ASSUME NEW k \in 1 .. h, k \notin off2 PROVE Sealed(cut2, k) \subseteq events2
  BY DEF Held
<1>2. k \in 1 .. Len(cut) /\ k \notin off
  BY <1>1
<1>3. Sealed(cut, k) \subseteq events
  BY <1>2 DEF Held
<1> QED
  BY <1>2, <1>3, SealedStays

LEMMA RunHoldsStays ==
  ASSUME NEW cut, NEW cut2, Extends(cut2, cut), NEW off, NEW off2, off \subseteq off2,
         NEW events, NEW events2, events \subseteq events2,
         NEW x \in Run, x.head <= Len(cut), x.stop <= Len(cut),
         RunHolds(cut, off, events, x)
  PROVE  RunHolds(cut2, off2, events2, x)
<1>1. x.head \in Nat /\ x.stop \in Nat /\ Len(cut) \in Nat
  BY DEF Run, Extends
<1>2. x.pc # "idle" => Held(cut2, off2, events2, x.stop)
  BY <1>1, HeldStays DEF RunHolds
<1>3. x.pc \in {"tail", "mark", "flush"} => Held(cut2, off2, events2, x.head)
  BY <1>1, HeldStays DEF RunHolds
<1>4. ASSUME x.pc = "apply", NEW k \in 1 .. x.head, k \notin off2, k \notin x.todo
      PROVE  Sealed(cut2, k) \subseteq events2
  <2>1. k \in 1 .. Len(cut) /\ k \notin off
    BY <1>1, <1>4
  <2>2. Sealed(cut, k) \subseteq events
    BY <1>4, <2>1 DEF RunHolds
  <2> QED
    BY <2>1, <2>2, SealedStays
<1> QED
  BY <1>2, <1>3, <1>4 DEF RunHolds

LEMMA HydrFacts ==
  ASSUME HydrInv
  PROVE  /\ room.cut \in Seq(Nat) /\ Extends(room.cut, room.cut)
         /\ ChainLen = Len(room.cut) /\ ChainLen \in Nat
         /\ marker \in Nat /\ marker <= ChainLen
         /\ saved.head \in Nat /\ saved.head <= ChainLen
         /\ \A r \in Runs : /\ run[r] \in Run /\ run[r].head <= ChainLen
                             /\ run[r].stop <= ChainLen
BY BlockTypes DEF HydrInv, TypeInv, TypeOK, WithinChain, Room, ChainLen, Extends

\* A step keeps HydrInv if nothing that was folded or saved is lost, and if every cursor
\* and every run that it changes may count on what it then counts on.
LEMMA Preserved ==
  ASSUME HydrInv, TypeInv', Extends(room'.cut, room.cut), used.off \subseteq used'.off,
         seen'.off \subseteq used'.off, room'.off \subseteq used'.off,
         mem \subseteq mem', saved.events \subseteq saved'.events,
         marker' \in {0, marker} \/ Held(room'.cut, used'.off, mem', marker'),
         saved'.head = saved.head \/ Held(room'.cut, used'.off, saved'.events, saved'.head),
         \A r \in Runs : \/ run'[r] = run[r]
                          \/ run'[r].pc = "idle"
                          \/ RunHolds(room'.cut, used'.off, mem', run'[r])
  PROVE  HydrInv'
<1>1. Held(room'.cut, used'.off, mem', marker')
  <2>1. CASE marker' = 0
    BY <2>1 DEF Held
  <2>2. CASE marker' = marker
    BY <2>2, HydrFacts, HeldStays DEF HydrInv
  <2> QED
    BY <2>1, <2>2
<1>2. Held(room'.cut, used'.off, saved'.events, saved'.head)
  BY HydrFacts, HeldStays DEF HydrInv
<1>3. ASSUME NEW r \in Runs PROVE RunHolds(room'.cut, used'.off, mem', run'[r])
  <2>1. CASE run'[r] = run[r]
    BY <2>1, HydrFacts, RunHoldsStays DEF HydrInv
  <2>2. CASE run'[r].pc = "idle"
    BY <2>2 DEF RunHolds
  <2> QED
    BY <2>1, <2>2
<1> QED
  BY <1>1, <1>2, <1>3 DEF HydrInv

\* The room and the device.
LEMMA CoverOutside ==
  ASSUME LoseUnsaved = FALSE, HydrInv,
         \/ PostEvent \/ SealBlock \/ Sync \/ Reload \/ ClearMarker \/ DropUpdate
         \/ \E k \in 1 .. ChainLen : ToggleBlock(k)
         \/ \E e \in mem : Persist(e)
  PROVE  HydrInv'
<1>0. TypeInv' /\ TypeInv
  BY TypeOutside DEF HydrInv
<1>1. /\ seen.off \subseteq used.off /\ room.off \subseteq used.off
      /\ Extends(room.cut, room.cut) /\ room \in Room /\ used \in Spent /\ seen \in Seen
  BY HydrFacts DEF HydrInv, TypeInv, TypeOK
<1>2. CASE PostEvent
  <2>1. room'.cut = room.cut /\ room'.off = room.off
    BY <1>1, <1>2 DEF PostEvent, Room
  <2> QED
    BY <1>0, <1>1, <1>2, <2>1, Preserved DEF PostEvent, RoomOnly
<1>3. CASE SealBlock
  <2>1. room' = [room EXCEPT !.cut = Append(room.cut, room.posted)]
    BY <1>3 DEF SealBlock
  <2>2. room'.cut = Append(room.cut, room.posted) /\ room'.off = room.off
    BY <1>1, <2>1 DEF Room
  <2>3. room.cut \in Seq(Nat) /\ room.posted \in Nat
    BY <1>1 DEF Room
  <2>4. Extends(room'.cut, room.cut)
    BY <2>2, <2>3, AppendKeeps DEF Extends
  <2> QED
    BY <1>0, <1>1, <1>3, <2>2, <2>4, Preserved DEF SealBlock, RoomOnly
<1>4. CASE \E k \in 1 .. ChainLen : ToggleBlock(k)
  <2>1. PICK k : ToggleBlock(k)
    BY <1>4
  <2>2. /\ room' = [room EXCEPT !.off = IF k \in @ THEN @ \ {k} ELSE @ \union {k}]
        /\ used' = [used EXCEPT !.toggles = @ + 1, !.off = @ \union {k}]
        /\ RoomOnly
    BY <2>1 DEF ToggleBlock
  <2>3. /\ room'.cut = room.cut
        /\ room'.off = IF k \in room.off THEN room.off \ {k} ELSE room.off \union {k}
    BY <1>1, <2>2 DEF Room
  <2>4. used'.off = used.off \union {k}
    BY <1>1, <2>2 DEF Spent
  <2>5. used.off \subseteq used'.off /\ room'.off \subseteq used'.off
    BY <1>1, <2>3, <2>4
  <2> QED
    BY <1>0, <1>1, <2>2, <2>3, <2>5, Preserved DEF RoomOnly
<1>5. CASE Sync
  <2>1. seen'.off = room.off
    BY <1>1, <1>5 DEF Sync, Seen
  <2> QED
    BY <1>0, <1>1, <1>5, <2>1, Preserved DEF Sync
<1>6. CASE \E e \in mem : Persist(e)
  <2>1. saved'.head = saved.head /\ saved.events \subseteq saved'.events
    BY <1>0, <1>6 DEF Persist, TypeInv, TypeOK
  <2> QED
    BY <1>0, <1>1, <1>6, <2>1, Preserved DEF Persist
<1>7. CASE Reload
  <2>1. /\ mem \subseteq mem' /\ mem' = saved.events
        /\ marker' = IF marker = 0 THEN saved.head ELSE marker
    BY <1>7 DEF Reload
  <2>2. /\ UNCHANGED <<room, saved>> /\ used' = [used EXCEPT !.reloads = @ + 1]
        /\ seen' = [head |-> ChainLen, len |-> room.posted, off |-> room.off, base |-> LiveBase]
    BY <1>7 DEF Reload
  <2>3. used'.off = used.off /\ seen'.off = room.off
    BY <1>1, <2>2 DEF Spent
  <2>4. \A r \in Runs : run'[r].pc = "idle"
    BY <1>7 DEF Reload, NoRun
  <2>5. marker' = marker \/ Held(room'.cut, used'.off, mem', marker')
    BY <2>1, <2>2, <2>3 DEF HydrInv
  <2>6. marker' \in {0, marker} \/ Held(room'.cut, used'.off, mem', marker')
    BY <2>5
  <2> QED
    BY <1>0, <1>1, <2>1, <2>2, <2>3, <2>4, <2>6, Preserved
<1>8. CASE ClearMarker \/ DropUpdate
  BY <1>0, <1>1, <1>8, Preserved DEF ClearMarker, DropUpdate
<1> QED
  BY <1>2, <1>3, <1>4, <1>5, <1>6, <1>7, <1>8

\* A run that begins stops at the marker, or goes back to the first block.
LEMMA CoverBegin ==
  ASSUME HydrInv, BeginBoot \/ BeginIngest \/ BeginReapply
  PROVE  HydrInv'
<1>0. TypeInv' /\ TypeInv
  BY TypeBegin DEF HydrInv
<1>1. PICK r \in Runs, force \in BOOLEAN : Begin(r, force)
  BY DEF BeginBoot, BeginIngest, BeginReapply, Runs
<1>2. marker' \in {0, marker} /\ UNCHANGED <<room, seen, mem, saved>>
  BY <1>0, <1>1, BeginCases
<1>3. PICK x \in Run :
        /\ run' = [run EXCEPT ![r] = x]
        /\ \/ x = run[r]
           \/ x.pc = "tail" /\ x.head = 0 /\ x.stop = 0 /\ x.todo = {}
           \/ x.pc = "walk" /\ x.head = seen.head /\ x.stop \in {0, marker} /\ x.todo = {}
  BY <1>0, <1>1, BeginCases
<1>4. used'.off = used.off
  BY <1>0 DEF BeginBoot, BeginIngest, BeginReapply, TypeInv, TypeOK, Spent
<1>5. Held(room.cut, used.off, mem, 0) /\ Held(room.cut, used.off, mem, marker)
  BY DEF HydrInv, Held
<1>6. x = run[r] \/ RunHolds(room.cut, used.off, mem, x)
  <2>1. CASE x.pc = "tail" /\ x.head = 0 /\ x.stop = 0
    BY <1>5, <2>1 DEF RunHolds
  <2>2. CASE x.pc = "walk" /\ x.stop \in {0, marker}
    BY <1>5, <2>2 DEF RunHolds
  <2> QED
    BY <1>3, <2>1, <2>2
<1>7. run \in [Runs -> Run]
  BY <1>0 DEF TypeInv, TypeOK
<1>8. \A q \in Runs : run'[q] = run[q] \/ RunHolds(room'.cut, used'.off, mem', run'[q])
  BY <1>2, <1>3, <1>4, <1>6, <1>7
<1>9. /\ seen.off \subseteq used.off /\ room.off \subseteq used.off
      /\ Extends(room.cut, room.cut)
  BY HydrFacts DEF HydrInv
<1> QED
  BY <1>0, <1>2, <1>4, <1>8, <1>9, Preserved

\* A run leaves no block behind that it has not folded, unless it was disabled.
LEMMA CoverRun ==
  ASSUME HydrInv, NEW r \in Runs, RunStep(r) \/ FailRun(r)
  PROVE  HydrInv'
<1>0. TypeInv' /\ TypeInv
  BY TypeRun DEF HydrInv
<1>1. PICK x \in Run :
        /\ x = run[r] /\ run \in [Runs -> Run] /\ x.head \in Nat /\ x.stop \in Nat
        /\ x.head <= ChainLen /\ x.stop <= ChainLen /\ x.todo \subseteq 1 .. x.head
  BY <1>0, RunTypes
<1>2. RunHolds(room.cut, used.off, mem, x)
  BY <1>1 DEF HydrInv
<1>3. /\ seen.off \subseteq used.off /\ room.off \subseteq used.off
      /\ Extends(room.cut, room.cut)
  BY HydrFacts DEF HydrInv
<1>4. ASSUME NEW y, run' = [run EXCEPT ![r] = y], RunOnly, UNCHANGED saved, mem \subseteq mem',
             y.pc = "idle" \/ RunHolds(room.cut, used.off, mem', y),
             marker' = marker \/ Held(room.cut, used.off, mem', marker')
      PROVE  HydrInv'
  <2>1. /\ run'[r] = y /\ \A q \in Runs \ {r} : run'[q] = run[q]
        /\ UNCHANGED <<room, seen, used>>
    BY <1>1, <1>4 DEF RunOnly
  <2> QED
    BY <1>0, <1>3, <1>4, <2>1, Preserved
<1>5. CASE WalkChain(r)
  <2> DEFINE T == (FirstBlock(r) .. x.head) \ seen.off
             y == [x EXCEPT !.pc = "apply", !.todo = T]
  <2>1. run' = [run EXCEPT ![r] = y] /\ RunOnly /\ UNCHANGED <<mem, saved, marker>>
    BY <1>1, <1>5 DEF WalkChain
  <2>2. y.pc = "apply" /\ y.head = x.head /\ y.stop = x.stop /\ y.todo = T
    BY <1>1 DEF Run
  <2>3. ASSUME NEW k \in 1 .. x.head, k \notin used.off, k \notin T
        PROVE  k \in 1 .. x.stop
    <3>1. k \notin FirstBlock(r) .. x.head
      BY <1>3, <2>3
    <3>2. k < FirstBlock(r)
      BY <1>1, <3>1 DEF FirstBlock
    <3> QED
      BY <1>1, <3>2 DEF FirstBlock
  <2>4. Held(room.cut, used.off, mem, x.stop)
    BY <1>2, <1>5, <1>1 DEF RunHolds, WalkChain
  <2> HIDE DEF T, y
  <2>5. \A k \in 1 .. x.head : k \notin used.off /\ k \notin T => Sealed(room.cut, k) \subseteq mem
    BY <2>3, <2>4 DEF Held
  <2>6. RunHolds(room.cut, used.off, mem, y)
    BY <2>2, <2>4, <2>5 DEF RunHolds
  <2> QED
    BY <1>4, <2>1, <2>6
<1>6. CASE ApplyBlock(r)
  <2> DEFINE k == CHOOSE i \in x.todo : \A j \in x.todo : i <= j
             T == x.todo \ {k}
             y == [x EXCEPT !.todo = T]
  <2>1. k \in x.todo
    <3>1. x.todo # {} /\ x.todo \subseteq Nat
      BY <1>1, <1>6 DEF ApplyBlock
    <3> QED
      BY <3>1, LeastBlock
  <2>2. /\ mem' = mem \union BlockEvents(k) /\ run' = [run EXCEPT ![r] = y]
        /\ RunOnly /\ UNCHANGED <<saved, marker>> /\ x.pc = "apply"
    BY <1>1, <1>6 DEF ApplyBlock
  <2>3. y.pc = x.pc /\ y.head = x.head /\ y.stop = x.stop /\ y.todo = T
    BY <1>1 DEF Run
  <2> HIDE DEF k, y
  <2>4. k \in 1 .. ChainLen
    BY <1>0, <1>1, <2>1, BlockTypes DEF TypeInv
  <2>5. BlockEvents(k) = Sealed(room.cut, k)
    BY <1>0, <2>4, BlockTypes DEF TypeInv
  <2>6. RunHolds(room.cut, used.off, mem', x)
    BY <1>0, <1>1, <1>2, <1>3, <2>2, RunHoldsStays, HydrFacts
  <2>7. ASSUME NEW i \in 1 .. x.head, i \notin used.off, i \notin T
        PROVE  Sealed(room.cut, i) \subseteq mem'
    <3>1. CASE i = k
      BY <2>2, <2>5, <3>1
    <3>2. CASE i # k
      <4>1. i \notin x.todo
        BY <2>7, <3>2
      <4> QED
        BY <2>2, <2>6, <2>7, <4>1 DEF RunHolds
    <3> QED
      BY <3>1, <3>2
  <2> HIDE DEF T
  <2>8. RunHolds(room.cut, used.off, mem', y)
    BY <2>2, <2>3, <2>6, <2>7 DEF RunHolds
  <2> QED
    BY <1>4, <2>2, <2>8
<1>7. ASSUME NEW p \in {"tail", "mark", "flush"}, run' = [run EXCEPT ![r].pc = p],
             RunOnly, UNCHANGED saved, mem \subseteq mem', x.pc # "idle",
             Held(room.cut, used.off, mem, x.head), marker' \in {marker, x.head}
      PROVE  HydrInv'
  <2> DEFINE y == [x EXCEPT !.pc = p]
  <2>1. y.pc = p /\ y.head = x.head /\ y.stop = x.stop
    BY <1>1 DEF Run
  <2>2. run' = [run EXCEPT ![r] = y]
    BY <1>1, <1>7
  <2> HIDE DEF y
  <2>3. Held(room.cut, used.off, mem', x.head) /\ Held(room.cut, used.off, mem', x.stop)
    <3>1. Held(room.cut, used.off, mem, x.stop)
      BY <1>2, <1>7 DEF RunHolds
    <3> QED
      BY <1>1, <1>3, <1>7, <3>1, HeldStays, HydrFacts
  <2>4. RunHolds(room.cut, used.off, mem', y)
    BY <2>1, <2>3 DEF RunHolds
  <2> QED
    BY <1>4, <1>7, <2>2, <2>3, <2>4
<1>8. CASE BlocksDone(r)
  <2>1. x.pc = "apply" /\ x.todo = {}
    BY <1>1, <1>8 DEF BlocksDone
  <2>2. Held(room.cut, used.off, mem, x.head)
    BY <1>2, <2>1 DEF RunHolds, Held
  <2> QED
    BY <1>7, <1>8, <2>1, <2>2 DEF BlocksDone
<1>9. CASE ApplyTail(r)
  <2>1. x.pc = "tail" /\ mem \subseteq mem'
    BY <1>1, <1>9 DEF ApplyTail
  <2>2. PICK p \in {"tail", "mark", "flush"} : run' = [run EXCEPT ![r].pc = p]
    BY <1>9 DEF ApplyTail
  <2>3. RunOnly /\ UNCHANGED <<saved, marker>>
    BY <1>9 DEF ApplyTail
  <2> QED
    BY <1>2, <1>7, <2>1, <2>2, <2>3 DEF RunHolds
<1>10. CASE WriteMarker(r)
  <2>1. x.pc = "mark" /\ marker' = x.head
    BY <1>1, <1>10 DEF WriteMarker
  <2> QED
    BY <1>2, <1>7, <1>10, <2>1 DEF RunHolds, WriteMarker
<1>11. CASE FlushRun(r)
  <2>1. /\ x.pc = "flush" /\ run' = [run EXCEPT ![r] = NoRun] /\ RunOnly
        /\ saved' = [events |-> saved.events \union mem, head |-> FlushCursor(r)]
        /\ UNCHANGED <<mem, marker>>
    BY <1>1, <1>11 DEF FlushRun
  <2>2. Held(room.cut, used.off, mem, x.head)
    BY <1>2, <2>1 DEF RunHolds
  <2>3. saved'.head \in {saved.head, x.head} /\ saved'.events = saved.events \union mem
    BY <1>1, <2>1 DEF FlushCursor
  <2>4. saved'.head = saved.head \/ Held(room.cut, used.off, saved'.events, saved'.head)
    BY <1>1, <1>3, <2>2, <2>3, HeldStays, HydrFacts
  <2>5. NoRun.pc = "idle" /\ \A q \in Runs : run'[q] \in {run[q], NoRun}
    BY <1>1, <2>1 DEF NoRun
  <2> QED
    BY <1>0, <1>3, <2>1, <2>3, <2>4, <2>5, Preserved DEF RunOnly
<1>12. CASE FailRun(r)
  <2>1. /\ run' = [run EXCEPT ![r] = NoRun] /\ used' = [used EXCEPT !.fails = @ + 1]
        /\ UNCHANGED <<room, seen, mem, saved, marker>>
    BY <1>12 DEF FailRun
  <2>2. used'.off = used.off
    BY <1>0, <2>1 DEF TypeInv, TypeOK, Spent
  <2>3. NoRun.pc = "idle" /\ \A q \in Runs : run'[q] \in {run[q], NoRun}
    BY <1>1, <2>1 DEF NoRun
  <2> QED
    BY <1>0, <1>3, <2>1, <2>2, <2>3, Preserved
<1> QED
  BY <1>5, <1>6, <1>8, <1>9, <1>10, <1>11, <1>12 DEF RunStep

LEMMA CoverInit == HydrInit => HydrInv
<1> SUFFICES ASSUME HydrInit PROVE HydrInv
  OBVIOUS
<1>1. TypeInv
  BY TypeInit
<1>2. /\ seen.off = {} /\ room.off = {} /\ marker = 0 /\ saved.head = 0
      /\ \A r \in Runs : run[r].pc = "idle"
  BY DEF HydrInit, NoRun
<1> QED
  BY <1>1, <1>2 DEF HydrInv, Held, RunHolds

LEMMA CoverStep ==
  ASSUME LoseUnsaved = FALSE
  PROVE  HydrInv /\ [HydrNext]_hydrVars => HydrInv'
<1>1. ASSUME HydrInv, UNCHANGED hydrVars PROVE HydrInv'
  BY <1>1 DEF hydrVars, HydrInv, TypeInv, TypeOK, WithinChain, ChainLen
<1> QED
  BY <1>1, CoverOutside, CoverBegin, CoverRun DEF HydrNext

LEMMA CoverShown == HydrInv => MarkerCovers /\ CursorCovers
<1> SUFFICES ASSUME HydrInv, NEW k \in 1 .. ChainLen, k \notin used.off
             PROVE  /\ k <= marker => Folded(k)
                    /\ k <= saved.head => BlockEvents(k) \subseteq saved.events
  BY DEF MarkerCovers, CursorCovers
<1>1. BlockEvents(k) = Sealed(room.cut, k) /\ ChainLen \in Nat
  BY BlockTypes DEF HydrInv, TypeInv
<1>2. marker \in Nat /\ saved.head \in Nat
  BY HydrFacts
<1>3. ASSUME k <= marker PROVE Folded(k)
  BY <1>1, <1>2, <1>3 DEF HydrInv, Held, Folded
<1>4. ASSUME k <= saved.head PROVE BlockEvents(k) \subseteq saved.events
  BY <1>1, <1>2, <1>4 DEF HydrInv, Held
<1> QED
  BY <1>3, <1>4

\* When the page is not closed over unsaved work, every block that the marker lets the
\* next run skip is in the store, whatever runs interleave, fail or start over
\* (hydrateBlocksIfStale).
THEOREM MarkerHonest == LoseUnsaved = FALSE => (HydrSpec => []MarkerCovers)
<1> SUFFICES ASSUME LoseUnsaved = FALSE PROVE HydrSpec => []MarkerCovers
  OBVIOUS
<1>1. HydrInv => MarkerCovers
  BY CoverShown
<1>2. HydrInv /\ [HydrNext]_hydrVars => HydrInv'
  BY CoverStep
<1> QED
  BY <1>1, <1>2, CoverInit, PTL DEF HydrSpec

\* And the cursor in the snapshot never runs ahead of the map saved with it
\* (flushToOpfs).
THEOREM CursorHonest == LoseUnsaved = FALSE => (HydrSpec => []CursorCovers)
<1> SUFFICES ASSUME LoseUnsaved = FALSE PROVE HydrSpec => []CursorCovers
  OBVIOUS
<1>1. HydrInv => CursorCovers
  BY CoverShown
<1>2. HydrInv /\ [HydrNext]_hydrVars => HydrInv'
  BY CoverStep
<1> QED
  BY <1>1, <1>2, CoverInit, PTL DEF HydrSpec
=============================================================================
