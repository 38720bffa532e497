-------------------------- MODULE BlockChainProofs --------------------------
(***************************************************************************)
(* Theorems about BlockChain, for any number of clients, events, blocks    *)
(* and claims, any lag of /sync, and any crash between two requests.       *)
(*                                                                         *)
(* ChainGrounded is not inductive: AdvanceHead writes a head that was read *)
(* long before, so the head of every view and of every run in progress has *)
(* to describe a posted block as well, and a run that is about to write    *)
(* m.eo.head must still point at the block it sent (RunDescribes).         *)
(*                                                                         *)
(* What is said of whole chains is said of the recursive function Chain:   *)
(* it is shown to have the value its definition states (below the least    *)
(* block for which it had not, it would have it), and then never to change *)
(* for a block that was posted.                                            *)
(***************************************************************************)
EXTENDS BlockChain, WellFoundedInduction, TLAPS

\* Numbers have a least one among them.
LEMMA LeastNatural ==
  ASSUME NEW S \in SUBSET Nat, S # {}
  PROVE  \E x \in S : \A y \in S : x <= y
<1> DEFINE R == OpToRel(<, Nat)
<1>1. \A x, y \in Nat : x < y => <<x, y>> \in R
  BY Zenon DEF OpToRel
<1> HIDE DEF R
<1>2. PICK x \in S : \A y \in S : <<y, x>> \notin R
  <2>1. IsWellFoundedOn(R, Nat)
    BY NatLessThanWellFounded DEF R
  <2> QED
    BY <2>1, WFMin
<1>3. \A y \in S : ~(y < x)
  BY <1>1, <1>2
<1> QED
  BY <1>3

\* A run that sent its block finds it in the room as it was sent.
RunDescribes(c) ==
  op[c].pc = "advancing" =>
     /\ op[c].blk \in BlockIds
     /\ blocks[op[c].blk].index = op[c].head.count
     /\ blocks[op[c].blk].hi = op[c].hi

GroundedInv ==
  /\ TypeOK
  /\ ChainGrounded
  /\ \A c \in Clients : /\ HeadDescribes(view[c].head)
                        /\ HeadDescribes(op[c].head)
                        /\ RunDescribes(c)

\* What a run seals: events that are posted, from the cutoff of its head on when that
\* head has one.
RunLinked(c) ==
  op[c].pc # "idle" => /\ op[c].lo >= 1
                       /\ op[c].hi \in op[c].lo - 1 .. posted
                       /\ op[c].head.cutoff # 0 => op[c].lo = op[c].head.cutoff + 1

LinkedInv ==
  /\ ChainLinked
  /\ \A c \in Clients : view[c].len <= posted /\ RunLinked(c)

-----------------------------------------------------------------------------
(* Appending a block changes nothing that a head written before it names. *)

LEMMA HeadStable ==
  ASSUME NEW h \in HeadState, NEW b \in Block, blocks \in Seq(Block),
         HeadDescribes(h), blocks' = Append(blocks, b)
  PROVE  HeadDescribes(h)'
<1>1. Len(blocks') = Len(blocks) + 1 /\ Len(blocks) \in Nat
  OBVIOUS
<1>2. \A i \in 1 .. Len(blocks) : blocks'[i] = blocks[i]
  OBVIOUS
<1>3. h.latest \in 0 .. Len(blocks) /\ h.latest \in 0 .. Len(blocks')
  BY <1>1 DEF HeadDescribes
<1>4. IndexAfter(h.latest)' = IndexAfter(h.latest)
  BY <1>2, <1>3 DEF IndexAfter
<1>5. CutoffAfter(h.latest)' = CutoffAfter(h.latest)
  BY <1>2, <1>3 DEF CutoffAfter
<1> QED
  BY <1>3, <1>4, <1>5 DEF HeadDescribes

-----------------------------------------------------------------------------
(* Type correctness. *)

LEMMA ChainInitTypeOK == ChainInit => TypeOK
BY ChainAssumption DEF ChainInit, TypeOK, emptyHead, NoClaim, Idle, HeadState, Claim,
   Block, View, Op, Phase

LEMMA ChainNextTypeOK == TypeOK /\ [ChainNext]_chainVars => TypeOK'
<1> SUFFICES ASSUME TypeOK, [ChainNext]_chainVars
    PROVE  TypeOK'
  OBVIOUS
<1> USE ChainAssumption DEF TypeOK
<1>1. CASE PostEvent
  BY <1>1 DEF PostEvent
<1>2. CASE ClaimExpires
  BY <1>2 DEF ClaimExpires, Claim
<1>3. ASSUME NEW c \in Clients, Sync(c)
      PROVE  TypeOK'
  BY <1>3 DEF Sync, View
<1>4. ASSUME NEW c \in Clients, Restart(c)
      PROVE  TypeOK'
  <2>1. Idle \in Op
    BY DEF Idle, Op, Phase, emptyHead, HeadState
  <2>2. (IF posted > LiveWindow THEN posted - LiveWindow ELSE 0) \in Nat
    OBVIOUS
  <2> QED
    BY <1>4, <2>1, <2>2 DEF Restart, LiveBase, View
<1>5. ASSUME NEW c \in Clients, Abort(c)
      PROVE  TypeOK'
  BY <1>5 DEF Abort, Idle, Op, Phase, emptyHead, HeadState
<1>6. ASSUME NEW c \in Clients, StartSeal(c)
      PROVE  TypeOK'
  <2> DEFINE v == view[c]
             o == [pc |-> "claiming", head |-> v.head, lo |-> TailStart(v),
                   hi |-> v.len, blk |-> 0]
  <2>1. v \in View
    OBVIOUS
  <2>2. TailStart(v) \in Nat
    BY <2>1 DEF TailStart, View, HeadState
  <2>3. o \in Op
    BY <2>1, <2>2 DEF View, Op, Phase
  <2>4. op' = [op EXCEPT ![c] = o]
    BY <1>6 DEF StartSeal
  <2> HIDE DEF o
  <2> QED
    BY <1>6, <2>3, <2>4 DEF StartSeal
<1>7. ASSUME NEW c \in Clients, WriteClaim(c)
      PROVE  TypeOK'
  <2>1. op[c] \in Op
    OBVIOUS
  <2>2. [op[c] EXCEPT !.pc = "waiting"] \in Op
    BY <2>1 DEF Op, Phase
  <2>3. claim' \in Claim
    BY <1>7 DEF WriteClaim, Claim
  <2> QED
    BY <1>7, <2>2, <2>3 DEF WriteClaim
<1>8. ASSUME NEW c \in Clients, ConfirmClaim(c)
      PROVE  TypeOK'
  <2>1. Idle \in Op
    BY DEF Idle, Op, Phase, emptyHead, HeadState
  <2>2. [op[c] EXCEPT !.pc = "sending"] \in Op
    BY DEF Op, Phase
  <2> QED
    BY <1>8, <2>1, <2>2 DEF ConfirmClaim
<1>9. ASSUME NEW c \in Clients, StartPublish(c)
      PROVE  TypeOK'
  <2> DEFINE h == view[c].head
             o == [pc |-> "sending", head |-> h, lo |-> h.cutoff + 1,
                   hi |-> h.cutoff, blk |-> 0]
  <2>1. h \in HeadState
    BY DEF View
  <2>2. o \in Op
    <3>1. h.cutoff \in Nat /\ h.cutoff + 1 \in Nat
      BY <2>1 DEF HeadState
    <3> QED
      BY <2>1, <3>1 DEF Op, Phase
  <2>3. op' = [op EXCEPT ![c] = o]
    BY <1>9 DEF StartPublish
  <2> HIDE DEF o
  <2> QED
    BY <1>9, <2>2, <2>3 DEF StartPublish
<1>10. ASSUME NEW c \in Clients, SendBlock(c)
      PROVE  TypeOK'
  <2> DEFINE b == [index |-> op[c].head.count, prior |-> op[c].head.latest,
                   lo |-> op[c].lo, hi |-> op[c].hi]
             o == [op[c] EXCEPT !.pc = "advancing", !.blk = Len(blocks) + 1]
  <2>1. b \in Block
    BY DEF Op, HeadState, Block
  <2>2. o \in Op
    <3>1. op[c] \in Op /\ Len(blocks) + 1 \in Nat
      OBVIOUS
    <3> QED
      BY <3>1 DEF Op, Phase
  <2>3. blocks' = Append(blocks, b) /\ op' = [op EXCEPT ![c] = o]
    BY <1>10 DEF SendBlock, NextBlock
  <2> HIDE DEF b, o
  <2>4. blocks' \in Seq(Block)
    BY <2>1, <2>3
  <2>5. op' \in [Clients -> Op]
    BY <2>2, <2>3
  <2> QED
    BY <1>10, <2>4, <2>5 DEF SendBlock, NextBlock
<1>11. ASSUME NEW c \in Clients, AdvanceHead(c)
      PROVE  TypeOK'
  <2>1. Idle \in Op
    BY DEF Idle, Op, Phase, emptyHead, HeadState
  <2>2. head' \in HeadState
    BY <1>11 DEF AdvanceHead, NextHead, GenesisAfter, Op, HeadState
  <2>3. op[c].blk \in Nat
    BY DEF Op
  <2> QED
    BY <1>11, <2>1, <2>2, <2>3 DEF AdvanceHead, NextHead, GenesisAfter
<1>12. CASE UNCHANGED chainVars
  BY <1>12 DEF chainVars
<1> QED
  BY <1>1, <1>2, <1>3, <1>4, <1>5, <1>6, <1>7, <1>8, <1>9, <1>10, <1>11, <1>12
  DEF ChainNext

\* Type correctness: whatever the clients do, the room and every client's state
\* keep the shapes HeadState, BlockMessage and EncodingClaim declare.
THEOREM ChainTypeCorrect == ChainSpec => []TypeOK
BY ChainInitTypeOK, ChainNextTypeOK, PTL DEF ChainSpec

-----------------------------------------------------------------------------
(* Grounding. *)

\* What one client knows describes posted blocks.
ClientGrounded(d) ==
  /\ HeadDescribes(view[d].head)
  /\ HeadDescribes(op[d].head)
  /\ RunDescribes(d)

LEMMA EmptyHeadDescribes == TypeOK => HeadDescribes(emptyHead)
BY DEF TypeOK, HeadDescribes, emptyHead, IndexAfter, CutoffAfter

\* As long as no block is sent, every head keeps describing what it described.
LEMMA SameBlocksSameHeads ==
  ASSUME TypeOK, blocks' = blocks
  PROVE  /\ \A h \in HeadState : HeadDescribes(h) => HeadDescribes(h)'
         /\ BlockIds' = BlockIds
BY DEF HeadDescribes, IndexAfter, CutoffAfter, BlockIds

\* The steps that touch neither the blocks, nor m.eo.head, nor a client but c.
LEMMA QuietStep ==
  ASSUME GroundedInv, TypeOK', NEW c \in Clients,
         blocks' = blocks, head' = head,
         \A d \in Clients \ {c} : view'[d] = view[d] /\ op'[d] = op[d],
         ClientGrounded(c)'
  PROVE  GroundedInv'
<1>1. TypeOK /\ ChainGrounded
  BY DEF GroundedInv
<1>2. HeadDescribes(head)'
  <2>1. HeadDescribes(head) /\ head \in HeadState
    BY <1>1 DEF ChainGrounded, TypeOK
  <2> QED
    BY <1>1, <2>1, SameBlocksSameHeads DEF HeadDescribes, IndexAfter, CutoffAfter
<1>3. ChainGrounded'
  BY <1>1, <1>2 DEF ChainGrounded, BlockIds, IndexAfter
<1>4. ASSUME NEW d \in Clients
      PROVE  ClientGrounded(d)'
  <2>1. CASE d = c
    BY <2>1
  <2>2. CASE d # c
    <3>1. view'[d] = view[d] /\ op'[d] = op[d]
      BY <2>2
    <3>2. ClientGrounded(d)
      BY DEF GroundedInv, ClientGrounded
    <3> QED
      BY <3>1, <3>2 DEF ClientGrounded, RunDescribes, HeadDescribes, IndexAfter,
         CutoffAfter, BlockIds
  <2> QED
    BY <2>1, <2>2
<1> QED
  BY <1>3, <1>4 DEF GroundedInv, ClientGrounded

LEMMA ChainInitGrounded == ChainInit => GroundedInv
<1> SUFFICES ASSUME ChainInit
    PROVE  GroundedInv
  OBVIOUS
<1>1. TypeOK
  BY ChainInitTypeOK
<1>2. blocks = << >> /\ head = emptyHead
  BY DEF ChainInit
<1>3. ChainGrounded
  BY <1>1, <1>2, EmptyHeadDescribes DEF ChainGrounded, BlockIds
<1>4. ASSUME NEW c \in Clients
      PROVE  view[c].head = emptyHead /\ op[c].head = emptyHead /\ op[c].pc = "idle"
  BY DEF ChainInit, Idle
<1> QED
  BY <1>1, <1>3, <1>4, EmptyHeadDescribes DEF GroundedInv, RunDescribes

LEMMA ChainNextGrounded == GroundedInv /\ [ChainNext]_chainVars => GroundedInv'
<1> SUFFICES ASSUME GroundedInv, [ChainNext]_chainVars
    PROVE  GroundedInv'
  OBVIOUS
<1>t. TypeOK /\ TypeOK'
  BY ChainNextTypeOK DEF GroundedInv
<1>g. ASSUME NEW c \in Clients
      PROVE  /\ view[c] \in View /\ op[c] \in Op
             /\ HeadDescribes(view[c].head) /\ HeadDescribes(op[c].head)
             /\ RunDescribes(c)
  BY <1>t DEF GroundedInv, TypeOK
<1>h. head \in HeadState /\ HeadDescribes(head)
  BY <1>t DEF GroundedInv, ChainGrounded, TypeOK
<1> USE DEF TypeOK
<1>1. ASSUME NEW c \in Clients, Sync(c)
      PROVE  GroundedInv'
  <2>1. view'[c].head = head /\ op' = op /\ blocks' = blocks /\ head' = head
    BY <1>1, <1>t DEF Sync, View
  <2>2. \A d \in Clients \ {c} : view'[d] = view[d]
    BY <1>1, <1>t DEF Sync
  <2>3. ClientGrounded(c)'
    BY <2>1, <1>g, <1>h, <1>t DEF ClientGrounded, RunDescribes, HeadDescribes,
       IndexAfter, CutoffAfter, BlockIds
  <2> QED
    BY <2>1, <2>2, <2>3, <1>t, QuietStep
<1>2. ASSUME NEW c \in Clients, Restart(c)
      PROVE  GroundedInv'
  <2>1. view'[c].head = head /\ op'[c] = Idle /\ blocks' = blocks /\ head' = head
    BY <1>2, <1>t DEF Restart, LiveBase
  <2>2. \A d \in Clients \ {c} : view'[d] = view[d] /\ op'[d] = op[d]
    BY <1>2, <1>t DEF Restart, LiveBase
  <2>3. HeadDescribes(head)' /\ HeadDescribes(emptyHead)'
    BY <2>1, <1>h, <1>t, EmptyHeadDescribes
       DEF HeadDescribes, IndexAfter, CutoffAfter
  <2>4. ClientGrounded(c)'
    BY <2>1, <2>3, <1>t DEF ClientGrounded, RunDescribes, HeadDescribes, IndexAfter,
       CutoffAfter, Idle
  <2> QED
    BY <2>1, <2>2, <2>4, <1>t, QuietStep
<1>3. ASSUME NEW c \in Clients, op'[c] = Idle, view' = view, blocks' = blocks,
             head' = head, \A d \in Clients \ {c} : op'[d] = op[d]
      PROVE  GroundedInv'
  <2>1. HeadDescribes(view[c].head)' /\ HeadDescribes(emptyHead)'
    BY <1>3, <1>g, <1>t, EmptyHeadDescribes
       DEF HeadDescribes, IndexAfter, CutoffAfter
  <2>2. ClientGrounded(c)'
    BY <1>3, <2>1, <1>t DEF ClientGrounded, RunDescribes, HeadDescribes, IndexAfter,
       CutoffAfter, Idle
  <2> QED
    BY <1>3, <2>2, <1>t, QuietStep
<1>4. ASSUME NEW c \in Clients, Abort(c)
      PROVE  GroundedInv'
  BY <1>4, <1>3, <1>t DEF Abort
\* A run that starts or goes on, with its own head or the one of its view.
<1>5. ASSUME NEW c \in Clients, op'[c].head \in {view[c].head, op[c].head},
             op'[c].pc # "advancing", view' = view, blocks' = blocks, head' = head,
             \A d \in Clients \ {c} : op'[d] = op[d]
      PROVE  GroundedInv'
  <2>0. /\ \A h \in HeadState : HeadDescribes(h) => HeadDescribes(h)'
        /\ view[c].head \in HeadState /\ op[c].head \in HeadState
    BY <1>5, <1>g, <1>t, SameBlocksSameHeads DEF View, Op
  <2>1. HeadDescribes(view[c].head)' /\ HeadDescribes(op[c].head)'
    <3>1. HeadDescribes(view[c].head)'
      BY <1>5, <1>g, <2>0 DEF HeadDescribes, IndexAfter, CutoffAfter
    <3>2. op'[c].head \in HeadState /\ HeadDescribes(op'[c].head)
      BY <1>5, <1>g, <2>0
    <3>3. HeadDescribes(op[c].head)'
      BY <2>0, <3>2 DEF HeadDescribes, IndexAfter, CutoffAfter
    <3> QED
      BY <3>1, <3>3
  <2>2. ClientGrounded(c)'
    BY <1>5, <2>1, <1>t DEF ClientGrounded, RunDescribes, HeadDescribes, IndexAfter,
       CutoffAfter
  <2> QED
    BY <1>5, <2>2, <1>t, QuietStep
<1>6. ASSUME NEW c \in Clients, StartSeal(c)
      PROVE  GroundedInv'
  BY <1>6, <1>5, <1>t DEF StartSeal
<1>7. ASSUME NEW c \in Clients, StartPublish(c)
      PROVE  GroundedInv'
  BY <1>7, <1>5, <1>t DEF StartPublish
<1>8. ASSUME NEW c \in Clients, WriteClaim(c)
      PROVE  GroundedInv'
  <2>1. op'[c] = [op[c] EXCEPT !.pc = "waiting"]
    BY <1>8, <1>t DEF WriteClaim
  <2>2. op'[c].head = op[c].head /\ op'[c].pc # "advancing"
    BY <2>1, <1>g DEF Op
  <2> QED
    BY <1>8, <2>2, <1>5, <1>t DEF WriteClaim
<1>9. ASSUME NEW c \in Clients, ConfirmClaim(c)
      PROVE  GroundedInv'
  <2>1. CASE ClaimHeld(view[c].claim, c)
    <3>1. op'[c] = [op[c] EXCEPT !.pc = "sending"]
      BY <1>9, <2>1, <1>t DEF ConfirmClaim
    <3>2. op'[c].head = op[c].head /\ op'[c].pc # "advancing"
      BY <3>1, <1>g DEF Op
    <3> QED
      BY <1>9, <3>2, <1>5, <1>t DEF ConfirmClaim
  <2>2. CASE ~ClaimHeld(view[c].claim, c)
    BY <1>9, <2>2, <1>3, <1>t DEF ConfirmClaim
  <2> QED
    BY <2>1, <2>2
<1>10. ASSUME NEW c \in Clients, SendBlock(c)
       PROVE  GroundedInv'
  <2> DEFINE b == [index |-> op[c].head.count, prior |-> op[c].head.latest,
                   lo |-> op[c].lo, hi |-> op[c].hi]
             n == Len(blocks)
  <2>1. b \in Block
    BY <1>g DEF Op, HeadState, Block
  <2>2. blocks' = Append(blocks, b) /\ head' = head /\ view' = view /\ n \in Nat
    BY <1>10, <1>t DEF SendBlock, NextBlock
  <2>3. \A h \in HeadState : HeadDescribes(h) => HeadDescribes(h)'
    BY <2>1, <2>2, <1>t, HeadStable
  <2>4. /\ Len(blocks') = n + 1 /\ blocks'[n + 1] = b
        /\ \A i \in 1 .. n : blocks'[i] = blocks[i]
    BY <2>1, <2>2, <1>t
  <2>5. /\ op'[c].pc = "advancing" /\ op'[c].blk = n + 1
        /\ op'[c].head = op[c].head /\ op'[c].lo = op[c].lo /\ op'[c].hi = op[c].hi
    <3>1. op'[c] = [op[c] EXCEPT !.pc = "advancing", !.blk = Len(blocks) + 1]
      BY <1>10, <1>t DEF SendBlock, NextBlock
    <3> QED
      BY <3>1, <1>g DEF Op
  <2>6. HeadDescribes(head)'
    BY <2>2, <2>3, <1>h DEF HeadDescribes, IndexAfter, CutoffAfter
  <2>7. ASSUME NEW k \in BlockIds'
        PROVE  /\ blocks'[k].prior \in 0 .. k - 1
               /\ (blocks[k].index = IndexAfter(blocks[k].prior))'
    <3>1. CASE k = n + 1
      <4>1. HeadDescribes(op[c].head) /\ op[c].head \in HeadState
        BY <1>g DEF Op
      <4>2. blocks'[k].prior = op[c].head.latest /\ blocks'[k].index = op[c].head.count
        BY <3>1, <2>4
      <4>3. op[c].head.count = IF op[c].head.latest = 0 THEN 0
                               ELSE blocks'[op[c].head.latest].index + 1
        BY <4>1, <2>3 DEF HeadDescribes, IndexAfter
      <4>4. op[c].head.latest \in 0 .. n
        BY <4>1 DEF HeadDescribes
      <4> QED
        BY <4>2, <4>3, <4>4, <3>1, <2>2 DEF IndexAfter
    <3>2. CASE k # n + 1
      <4>1. k \in 1 .. n /\ k \in BlockIds
        BY <3>2, <2>2, <2>4 DEF BlockIds
      <4>2. blocks[k].prior \in 0 .. k - 1 /\ blocks[k].index = IndexAfter(blocks[k].prior)
        BY <4>1 DEF GroundedInv, ChainGrounded
      <4>3. blocks[k].prior = 0 \/ blocks[k].prior \in 1 .. n
        BY <4>1, <4>2, <2>2
      <4> QED
        BY <4>1, <4>2, <4>3, <2>4 DEF IndexAfter
    <3> QED
      BY <3>1, <3>2
  <2>8. ASSUME NEW d \in Clients
        PROVE  ClientGrounded(d)'
    <3>1. HeadDescribes(view[d].head)' /\ HeadDescribes(op[d].head)'
      <4>1. view[d].head \in HeadState /\ op[d].head \in HeadState
        BY <1>g DEF View, Op
      <4>2. op'[d].head = op[d].head
        BY <1>10, <2>5, <1>t DEF SendBlock, NextBlock
      <4>3. HeadDescribes(view[d].head)'
        BY <4>1, <2>2, <2>3, <1>g DEF HeadDescribes, IndexAfter, CutoffAfter
      <4>4. HeadDescribes(op[d].head)'
        BY <4>1, <4>2, <2>3, <1>g DEF HeadDescribes, IndexAfter, CutoffAfter
      <4> QED
        BY <4>3, <4>4
    <3>2. RunDescribes(d)'
      <4>1. CASE d = c
        BY <4>1, <2>2, <2>4, <2>5 DEF RunDescribes, BlockIds
      <4>2. CASE d # c
        <5>1. op'[d] = op[d]
          BY <4>2, <1>10, <1>t DEF SendBlock, NextBlock
        <5> QED
          BY <5>1, <2>2, <2>4, <1>g DEF RunDescribes, BlockIds
      <4> QED
        BY <4>1, <4>2
    <3> QED
      BY <3>1, <3>2 DEF ClientGrounded, HeadDescribes, IndexAfter, CutoffAfter
  <2> QED
    BY <2>6, <2>7, <2>8, <1>t DEF GroundedInv, ChainGrounded, ClientGrounded, BlockIds,
       IndexAfter
<1>11. ASSUME NEW c \in Clients, AdvanceHead(c)
       PROVE  GroundedInv'
  <2>1. blocks' = blocks /\ view' = view /\ op' = [op EXCEPT ![c] = Idle]
    BY <1>11 DEF AdvanceHead, NextHead, GenesisAfter
  <2>2. /\ op[c].blk \in BlockIds
        /\ blocks[op[c].blk].index = op[c].head.count
        /\ blocks[op[c].blk].hi = op[c].hi
    BY <1>11, <1>g DEF AdvanceHead, NextHead, GenesisAfter, RunDescribes
  <2>3. HeadDescribes(head')
    <3>1. op[c].blk \in 1 .. Len(blocks) /\ op[c].blk # 0 /\ Len(blocks) \in Nat
      BY <2>2, <1>t DEF BlockIds
    <3>2. head'.latest = op[c].blk /\ head'.count = op[c].head.count + 1
      BY <1>11 DEF AdvanceHead, NextHead, GenesisAfter
    <3>3. head'.cutoff = op[c].hi /\ head'.genesis # 0
      BY <1>11, <3>1 DEF AdvanceHead, NextHead, GenesisAfter
    <3> QED
      BY <3>1, <3>2, <3>3, <2>2 DEF HeadDescribes, IndexAfter, CutoffAfter
  <2>4. ChainGrounded'
    BY <2>1, <2>3 DEF GroundedInv, ChainGrounded, BlockIds, IndexAfter, CutoffAfter,
       HeadDescribes
  <2>5. ASSUME NEW d \in Clients
        PROVE  ClientGrounded(d)'
    <3>1. CASE d = c
      <4>1. op'[d] = Idle
        BY <2>1, <3>1, <1>t
      <4> QED
        BY <4>1, <2>1, <1>g, <1>t, EmptyHeadDescribes DEF ClientGrounded, RunDescribes,
           HeadDescribes, IndexAfter, CutoffAfter, Idle
    <3>2. CASE d # c
      <4>1. op'[d] = op[d]
        BY <2>1, <3>2, <1>t
      <4> QED
        BY <4>1, <2>1, <1>g DEF ClientGrounded, RunDescribes, HeadDescribes, IndexAfter,
           CutoffAfter, BlockIds
    <3> QED
      BY <3>1, <3>2
  <2> QED
    BY <2>4, <2>5, <1>t DEF GroundedInv, ClientGrounded
<1>12. ASSUME UNCHANGED <<blocks, head, view, op>>
       PROVE  GroundedInv'
  BY <1>12, <1>t DEF GroundedInv, ChainGrounded, RunDescribes, HeadDescribes, IndexAfter,
     CutoffAfter, BlockIds
<1> QED
  BY <1>1, <1>2, <1>4, <1>6, <1>7, <1>8, <1>9, <1>10, <1>11, <1>12
  DEF ChainNext, PostEvent, ClaimExpires, chainVars

\* Grounding: in every run of every number of clients the backward walk of a
\* reader descends, one index at a time, to a genesis block, and m.eo.head names a
\* block that is in the room.
THEOREM ChainIsGrounded == ChainSpec => []ChainGrounded
<1>1. GroundedInv => ChainGrounded
  BY DEF GroundedInv
<1> QED
  BY <1>1, ChainInitGrounded, ChainNextGrounded, PTL DEF ChainSpec

-----------------------------------------------------------------------------
(* Linking. *)

LEMMA CutoffIsPosted ==
  ASSUME TypeOK, ChainLinked, NEW h \in HeadState, HeadDescribes(h)
  PROVE  h.cutoff \in 0 .. posted
<1>1. CASE h.latest = 0
  BY <1>1 DEF HeadDescribes, CutoffAfter, TypeOK
<1>2. CASE h.latest # 0
  <2>1. h.latest \in BlockIds /\ h.cutoff = blocks[h.latest].hi
    BY <1>2 DEF HeadDescribes, CutoffAfter, HeadState, BlockIds
  <2>2. blocks[h.latest] \in Block /\ posted \in Nat
    BY <2>1 DEF TypeOK, BlockIds
  <2>3. blocks[h.latest].hi \in blocks[h.latest].lo - 1 .. posted
    BY <2>1 DEF ChainLinked
  <2> QED
    BY <2>1, <2>2, <2>3 DEF Block, ChainLinked
<1> QED
  BY <1>1, <1>2

LEMMA ChainInitLinked == ChainInit => LinkedInv
<1> SUFFICES ASSUME ChainInit
    PROVE  LinkedInv
  OBVIOUS
<1>1. BlockIds = {}
  BY DEF ChainInit, BlockIds
<1>2. ASSUME NEW c \in Clients
      PROVE  view[c].len = 0 /\ op[c].pc = "idle"
  BY DEF ChainInit, Idle
<1> QED
  BY <1>1, <1>2 DEF LinkedInv, RunLinked, ChainLinked, ChainInit

LEMMA ChainNextLinked ==
  ASSUME GroundedInv, LinkedInv, [ChainNext]_chainVars
  PROVE  LinkedInv'
<1>t. TypeOK /\ TypeOK'
  BY ChainNextTypeOK DEF GroundedInv
<1>g. ASSUME NEW c \in Clients
      PROVE  /\ view[c] \in View /\ op[c] \in Op
             /\ HeadDescribes(view[c].head) /\ HeadDescribes(op[c].head)
             /\ view[c].len <= posted
             /\ RunLinked(c)
  BY <1>t DEF GroundedInv, TypeOK, LinkedInv, RunLinked
<1>l. ChainLinked
  BY DEF LinkedInv
<1> USE ChainAssumption DEF TypeOK
\* The steps that send neither an event nor a block.
<1>1. ASSUME posted' = posted, blocks' = blocks
      PROVE  ChainLinked'
  BY <1>1, <1>l DEF ChainLinked, BlockIds, CutoffAfter
<1>2. ASSUME NEW d \in Clients, view'[d] = view[d], op'[d] = op[d], posted' = posted
      PROVE  view'[d].len <= posted' /\ RunLinked(d)'
  BY <1>2, <1>g DEF RunLinked
<1>3. ASSUME NEW c \in Clients, posted' = posted, blocks' = blocks,
             \A d \in Clients \ {c} : view'[d] = view[d] /\ op'[d] = op[d],
             view'[c].len <= posted, RunLinked(c)'
      PROVE  LinkedInv'
  <2>1. ASSUME NEW d \in Clients
        PROVE  view'[d].len <= posted' /\ RunLinked(d)'
    <3>1. CASE d = c
      BY <3>1, <1>3
    <3>2. CASE d # c
      BY <3>2, <1>3, <1>2
    <3> QED
      BY <3>1, <3>2
  <2> QED
    BY <2>1, <1>1, <1>3 DEF LinkedInv, RunLinked
<1>4. CASE PostEvent
  <2>1. posted' = posted + 1 /\ posted \in Nat
    BY <1>4, <1>t DEF PostEvent
  <2>2. blocks' = blocks /\ view' = view /\ op' = op
    BY <1>4 DEF PostEvent
  <2>3. ChainLinked'
    <3>1. ASSUME NEW b \in BlockIds
          PROVE  blocks[b].lo \in Nat /\ blocks[b].hi \in Nat
      <4>1. blocks[b] \in Block
        BY <1>t DEF BlockIds
      <4> QED
        BY <4>1 DEF Block
    <3> QED
      BY <2>1, <2>2, <3>1, <1>l DEF ChainLinked, BlockIds, CutoffAfter
  <2>4. ASSUME NEW d \in Clients
        PROVE  view'[d].len <= posted' /\ RunLinked(d)'
    <3>1. view[d].len \in Nat
      BY <1>g DEF View
    <3>2. op[d].lo \in Nat /\ op[d].hi \in Nat
      BY <1>g DEF Op
    <3> QED
      BY <2>1, <2>2, <3>1, <3>2, <1>g DEF RunLinked
  <2> QED
    BY <2>1, <2>3, <2>4 DEF LinkedInv, RunLinked
<1>5. ASSUME NEW c \in Clients, Sync(c)
      PROVE  LinkedInv'
  <2>1. view'[c].len = posted /\ op' = op
    BY <1>5, <1>t DEF Sync, View
  <2>2. posted' = posted /\ blocks' = blocks /\ \A d \in Clients \ {c} : view'[d] = view[d]
    BY <1>5, <1>t DEF Sync
  <2>3. RunLinked(c)'
    BY <2>1, <2>2, <1>g DEF RunLinked
  <2>4. /\ \A d \in Clients \ {c} : view'[d] = view[d] /\ op'[d] = op[d]
        /\ view'[c].len <= posted
    BY <2>1, <2>2, <1>g, <1>t
  <2> QED
    BY <2>2, <2>3, <2>4, <1>3
<1>6. ASSUME NEW c \in Clients, Restart(c)
      PROVE  LinkedInv'
  <2>1. view'[c].len = posted /\ op'[c] = Idle
    BY <1>6, <1>t, <1>l DEF Restart, LiveBase
  <2>2. /\ posted' = posted /\ blocks' = blocks
        /\ \A d \in Clients \ {c} : view'[d] = view[d] /\ op'[d] = op[d]
    BY <1>6, <1>t DEF Restart, LiveBase
  <2> QED
    BY <2>1, <2>2, <1>3, <1>t DEF RunLinked, Idle
\* The steps of c that leave the room's blocks and every view alone.
<1>7. ASSUME NEW c \in Clients, posted' = posted, blocks' = blocks, view' = view,
             \A d \in Clients \ {c} : op'[d] = op[d], RunLinked(c)'
      PROVE  LinkedInv'
  BY <1>7, <1>3, <1>g
<1>8. ASSUME NEW c \in Clients, Abort(c)
      PROVE  LinkedInv'
  BY <1>8, <1>7, <1>t DEF Abort, RunLinked, Idle
<1>9. ASSUME NEW c \in Clients, StartSeal(c)
      PROVE  LinkedInv'
  <2>1. /\ op'[c].head = view[c].head /\ op'[c].lo = TailStart(view[c])
        /\ op'[c].hi = view[c].len /\ view[c].len + 1 - TailStart(view[c]) >= MinTail
    BY <1>9, <1>t DEF StartSeal
  <2>2. /\ TailStart(view[c]) \in Nat \ {0}
        /\ view[c].head.cutoff # 0 => TailStart(view[c]) = view[c].head.cutoff + 1
    BY <1>g DEF TailStart, View, HeadState
  <2>3. view[c].len \in Nat /\ view[c].len <= posted
    BY <1>g DEF View
  <2>4. RunLinked(c)'
    BY <1>9, <2>1, <2>2, <2>3, <1>t DEF StartSeal, RunLinked
  <2> QED
    BY <1>9, <2>4, <1>7, <1>t DEF StartSeal
<1>10. ASSUME NEW c \in Clients, StartPublish(c)
       PROVE  LinkedInv'
  <2>1. view[c].head \in HeadState
    BY <1>g DEF View
  <2>2. view[c].head.cutoff \in 0 .. posted
    BY <2>1, <1>g, <1>l, <1>t, CutoffIsPosted
  <2>3. RunLinked(c)'
    BY <1>10, <2>2, <1>t DEF StartPublish, RunLinked
  <2> QED
    BY <1>10, <2>3, <1>7, <1>t DEF StartPublish
<1>11. ASSUME NEW c \in Clients, WriteClaim(c)
       PROVE  LinkedInv'
  <2>1. op'[c] = [op[c] EXCEPT !.pc = "waiting"] /\ op[c].pc # "idle"
    BY <1>11, <1>t DEF WriteClaim
  <2>2. RunLinked(c)'
    BY <1>11, <2>1, <1>g DEF WriteClaim, RunLinked, Op
  <2> QED
    BY <1>11, <2>2, <1>7, <1>t DEF WriteClaim
<1>12. ASSUME NEW c \in Clients, ConfirmClaim(c)
       PROVE  LinkedInv'
  <2>1. op[c].pc # "idle"
    BY <1>12 DEF ConfirmClaim
  <2>2. op'[c] = Idle \/ op'[c] = [op[c] EXCEPT !.pc = "sending"]
    BY <1>12, <1>t DEF ConfirmClaim
  <2>3. RunLinked(c)'
    BY <1>12, <2>1, <2>2, <1>g DEF ConfirmClaim, RunLinked, Op, Idle
  <2> QED
    BY <1>12, <2>3, <1>7, <1>t DEF ConfirmClaim
<1>13. ASSUME NEW c \in Clients, SendBlock(c)
       PROVE  LinkedInv'
  <2> DEFINE b == [index |-> op[c].head.count, prior |-> op[c].head.latest,
                   lo |-> op[c].lo, hi |-> op[c].hi]
             n == Len(blocks)
  <2>1. b \in Block
    BY <1>g DEF Op, HeadState, Block
  <2>2. /\ blocks' = Append(blocks, b) /\ posted' = posted /\ view' = view
        /\ n \in Nat /\ op[c].pc = "sending"
    BY <1>13, <1>t DEF SendBlock, NextBlock
  <2>3. /\ Len(blocks') = n + 1 /\ blocks'[n + 1] = b
        /\ \A i \in 1 .. n : blocks'[i] = blocks[i]
    BY <2>1, <2>2, <1>t
  <2>4. op[c].head.cutoff = CutoffAfter(op[c].head.latest) /\ op[c].head.latest \in 0 .. n
    BY <1>g DEF HeadDescribes
  <2>5. ASSUME NEW k \in BlockIds'
        PROVE  (/\ blocks[k].lo >= 1
                /\ blocks[k].hi \in blocks[k].lo - 1 .. posted
                /\ CutoffAfter(blocks[k].prior) # 0 =>
                     blocks[k].lo = CutoffAfter(blocks[k].prior) + 1)'
    <3>1. CASE k = n + 1
      BY <3>1, <2>2, <2>3, <2>4, <1>g DEF CutoffAfter, RunLinked
    <3>2. CASE k # n + 1
      <4>1. k \in 1 .. n /\ k \in BlockIds
        BY <3>2, <2>2, <2>3 DEF BlockIds
      <4>2. blocks[k].prior \in 0 .. k - 1
        BY <4>1 DEF GroundedInv, ChainGrounded
      <4>3. blocks[k].prior = 0 \/ blocks[k].prior \in 1 .. n
        BY <4>1, <4>2, <2>2
      <4> QED
        BY <4>1, <4>3, <2>2, <2>3, <1>l DEF CutoffAfter, ChainLinked
    <3> QED
      BY <3>1, <3>2
  <2>6. ASSUME NEW d \in Clients
        PROVE  view'[d].len <= posted' /\ RunLinked(d)'
    <3>1. CASE d = c
      <4>1. op'[d] = [op[d] EXCEPT !.pc = "advancing", !.blk = Len(blocks) + 1]
        BY <3>1, <1>13, <1>t DEF SendBlock, NextBlock
      <4> QED
        BY <3>1, <4>1, <2>2, <1>g DEF RunLinked, Op
    <3>2. CASE d # c
      <4>1. op'[d] = op[d]
        BY <3>2, <1>13, <1>t DEF SendBlock, NextBlock
      <4> QED
        BY <4>1, <2>2, <1>2
    <3> QED
      BY <3>1, <3>2
  <2> QED
    BY <2>2, <2>5, <2>6, <1>l DEF LinkedInv, ChainLinked, RunLinked
<1>14. ASSUME NEW c \in Clients, AdvanceHead(c)
       PROVE  LinkedInv'
  BY <1>14, <1>7, <1>t DEF AdvanceHead, NextHead, GenesisAfter, RunLinked, Idle
<1>15. ASSUME UNCHANGED <<posted, blocks, view, op>>
       PROVE  LinkedInv'
  BY <1>15, <1>1, <1>2 DEF LinkedInv, RunLinked
<1> QED
  BY <1>4, <1>5, <1>6, <1>8, <1>9, <1>10, <1>11, <1>12, <1>13, <1>14, <1>15
  DEF ChainNext, ClaimExpires, chainVars

\* Linking: a block takes up the timeline exactly where the block it points at
\* stopped, however far back the live timeline of its sealer reaches: events are left
\* out, if any, only before the first block of a chain that covers one.
THEOREM ChainIsLinked == ChainSpec => []ChainLinked
<1>1. LinkedInv => ChainLinked
  BY DEF LinkedInv
<1>2. GroundedInv /\ LinkedInv /\ [ChainNext]_chainVars => GroundedInv' /\ LinkedInv'
  BY ChainNextGrounded, ChainNextLinked
<1> QED
  BY <1>1, <1>2, ChainInitGrounded, ChainInitLinked, PTL DEF ChainSpec

-----------------------------------------------------------------------------
(* The chain a head names is defined by recursion along the prior links.    *)
(* The functions of this section take the blocks as a parameter, so that    *)
(* what is said of them holds of the blocks before and after a step.        *)

PriorBelow(s) == \A b \in 1 .. Len(s) : s[b].prior \in 0 .. b - 1

\* The room t holds the blocks of s and perhaps more.
Prolongs(t, s) ==
  /\ Len(s) <= Len(t)
  /\ \A b \in 1 .. Len(s) : t[b] = s[b]

Cut(s, b) == [lo |-> s[b].lo, hi |-> s[b].hi]

ChainOf(s) == CHOOSE f : f = [b \in 0 .. Len(s) |->
                IF b = 0 THEN {} ELSE {b} \union f[s[b].prior]]

SegmentsOf(s) == CHOOSE f : f = [b \in 0 .. Len(s) |->
                   IF b = 0 THEN << >> ELSE Append(f[s[b].prior], Cut(s, b))]

LEMMA ChainAndSegments ==
  /\ Chain = ChainOf(blocks) /\ Chain' = ChainOf(blocks')
  /\ Segments = SegmentsOf(blocks) /\ Segments' = SegmentsOf(blocks')
<1>1. Chain = ChainOf(blocks) /\ Chain' = ChainOf(blocks')
  BY DEF Chain, ChainOf
<1>2. Segments = SegmentsOf(blocks) /\ Segments' = SegmentsOf(blocks')
  BY DEF Segments, SegmentsOf, Cut
<1> QED
  BY <1>1, <1>2

\* There is such a function: were there a block up to which there is none, the
\* first one of them could be added to the function for the blocks before it.
LEMMA ChainFunction ==
  ASSUME NEW s \in Seq(Block), PriorBelow(s)
  PROVE  ChainOf(s) = [b \in 0 .. Len(s) |->
                 IF b = 0 THEN {} ELSE {b} \union ChainOf(s)[s[b].prior]]
<1> DEFINE Eq(k, f) == f = [b \in 0 .. k |-> IF b = 0 THEN {} ELSE {b} \union f[s[b].prior]]
           Without == {k \in 0 .. Len(s) : ~ \E f : Eq(k, f)}
<1> USE DEF PriorBelow
<1>n. Len(s) \in Nat /\ Len(s) \in 0 .. Len(s)
  OBVIOUS
<1>m. \A k \in 0 .. Len(s) : k \notin Without => \E f : Eq(k, f)
  OBVIOUS
<1>1. Without = {}
  <2> SUFFICES ASSUME Without # {}
      PROVE  FALSE
    OBVIOUS
  <2>1. Without \subseteq Nat
    BY <1>n
  <2>2. PICK k \in Without : \A m \in Without : k <= m
    BY <2>1, LeastNatural
  <2>3. k # 0
    <3>1. Eq(0, [b \in 0 .. 0 |-> {}])
      OBVIOUS
    <3> QED
      BY <3>1, <2>2
  <2>4. k \in 1 .. Len(s) /\ k - 1 \in 0 .. Len(s) /\ k - 1 \notin Without
    <3>1. k \in 0 .. Len(s)
      OBVIOUS
    <3> HIDE DEF Without
    <3>2. k \in 1 .. Len(s) /\ k - 1 \in 0 .. Len(s) /\ ~(k <= k - 1)
      BY <3>1, <2>3, <1>n
    <3> QED
      BY <3>2, <2>2
  <2>5. PICK f : Eq(k - 1, f)
    <3> HIDE DEF Eq, Without
    <3> QED
      BY <2>4, <1>m
  <2> DEFINE g == [b \in 0 .. k |-> IF b = k THEN {k} \union f[s[k].prior] ELSE f[b]]
  <2>6. ASSUME NEW b \in 0 .. k
        PROVE  g[b] = IF b = 0 THEN {} ELSE {b} \union g[s[b].prior]
    <3>1. CASE b = 0
      <4>0. 0 \in 0 .. k - 1
        BY <2>4, <1>n
      <4>1. f[0] = {}
        BY <4>0, <2>5
      <4> QED
        BY <2>3, <3>1, <4>1
    <3>2. CASE b # 0
      <4>1. b \in 1 .. Len(s) /\ s[b].prior \in 0 .. b - 1
        BY <2>4, <3>2, <1>n
      <4>2. s[b].prior \in 0 .. k - 1 /\ s[b].prior \in 0 .. k /\ s[b].prior # k
        BY <2>4, <4>1, <1>n
      <4>3. g[s[b].prior] = f[s[b].prior]
        BY <4>2
      <4>4. CASE b = k
        BY <4>3, <4>4, <3>2
      <4>5. CASE b # k
        <5>1. b \in 0 .. k - 1
          BY <4>5, <2>4, <1>n
        <5>2. f[b] = {b} \union f[s[b].prior]
          BY <5>1, <2>5, <3>2
        <5> QED
          BY <5>2, <4>3, <4>5, <3>2
      <4> QED
        BY <4>4, <4>5
    <3> QED
      BY <3>1, <3>2
  <2>7. Eq(k, g)
    BY <2>6
  <2> QED
    BY <2>7, <2>2
<1>2. \E f : Eq(Len(s), f)
  <2> HIDE DEF Eq, Without
  <2> QED
    BY <1>1, <1>n, <1>m
<1> QED
  BY <1>2 DEF ChainOf

\* The same for the segments.
LEMMA SegmentsFunction ==
  ASSUME NEW s \in Seq(Block), PriorBelow(s)
  PROVE  SegmentsOf(s) = [b \in 0 .. Len(s) |->
                 IF b = 0 THEN << >> ELSE Append(SegmentsOf(s)[s[b].prior], Cut(s, b))]
<1> DEFINE Eq(k, f) == f = [b \in 0 .. k |-> IF b = 0 THEN << >> ELSE Append(f[s[b].prior], Cut(s, b))]
           Without == {k \in 0 .. Len(s) : ~ \E f : Eq(k, f)}
<1> USE DEF PriorBelow
<1>n. Len(s) \in Nat /\ Len(s) \in 0 .. Len(s)
  OBVIOUS
<1>m. \A k \in 0 .. Len(s) : k \notin Without => \E f : Eq(k, f)
  OBVIOUS
<1>1. Without = {}
  <2> SUFFICES ASSUME Without # {}
      PROVE  FALSE
    OBVIOUS
  <2>1. Without \subseteq Nat
    BY <1>n
  <2>2. PICK k \in Without : \A m \in Without : k <= m
    BY <2>1, LeastNatural
  <2>3. k # 0
    <3>1. Eq(0, [b \in 0 .. 0 |-> << >>])
      OBVIOUS
    <3> QED
      BY <3>1, <2>2
  <2>4. k \in 1 .. Len(s) /\ k - 1 \in 0 .. Len(s) /\ k - 1 \notin Without
    <3>1. k \in 0 .. Len(s)
      OBVIOUS
    <3> HIDE DEF Without
    <3>2. k \in 1 .. Len(s) /\ k - 1 \in 0 .. Len(s) /\ ~(k <= k - 1)
      BY <3>1, <2>3, <1>n
    <3> QED
      BY <3>2, <2>2
  <2>5. PICK f : Eq(k - 1, f)
    <3> HIDE DEF Eq, Without
    <3> QED
      BY <2>4, <1>m
  <2> DEFINE g == [b \in 0 .. k |-> IF b = k THEN Append(f[s[k].prior], Cut(s, k)) ELSE f[b]]
  <2>6. ASSUME NEW b \in 0 .. k
        PROVE  g[b] = IF b = 0 THEN << >> ELSE Append(g[s[b].prior], Cut(s, b))
    <3>1. CASE b = 0
      <4>0. 0 \in 0 .. k - 1
        BY <2>4, <1>n
      <4>1. f[0] = << >>
        BY <4>0, <2>5
      <4> QED
        BY <2>3, <3>1, <4>1
    <3>2. CASE b # 0
      <4>1. b \in 1 .. Len(s) /\ s[b].prior \in 0 .. b - 1
        BY <2>4, <3>2, <1>n
      <4>2. s[b].prior \in 0 .. k - 1 /\ s[b].prior \in 0 .. k /\ s[b].prior # k
        BY <2>4, <4>1, <1>n
      <4>3. g[s[b].prior] = f[s[b].prior]
        BY <4>2
      <4>4. CASE b = k
        BY <4>3, <4>4, <3>2
      <4>5. CASE b # k
        <5>1. b \in 0 .. k - 1
          BY <4>5, <2>4, <1>n
        <5>2. f[b] = Append(f[s[b].prior], Cut(s, b))
          BY <5>1, <2>5, <3>2
        <5> QED
          BY <5>2, <4>3, <4>5, <3>2
      <4> QED
        BY <4>4, <4>5
    <3> QED
      BY <3>1, <3>2
  <2>7. Eq(k, g)
    BY <2>6
  <2> QED
    BY <2>7, <2>2
<1>2. \E f : Eq(Len(s), f)
  <2> HIDE DEF Eq, Without
  <2> QED
    BY <1>1, <1>n, <1>m
<1> QED
  BY <1>2 DEF SegmentsOf

\* A chain is unfolded block by block, and a later room unfolds it the same way.
LEMMA ChainUnfolds ==
  ASSUME NEW s \in Seq(Block), PriorBelow(s)
  PROVE  /\ ChainOf(s)[0] = {}
         /\ \A b \in 1 .. Len(s) : ChainOf(s)[b] = {b} \union ChainOf(s)[s[b].prior]
<1>1. Len(s) \in Nat
  OBVIOUS
<1>2. ChainOf(s) = [b \in 0 .. Len(s) |->
        IF b = 0 THEN {} ELSE {b} \union ChainOf(s)[s[b].prior]]
  BY ChainFunction
<1> HIDE DEF ChainOf
<1>3. ChainOf(s)[0] = {}
  BY <1>1, <1>2
<1>4. ASSUME NEW b \in 1 .. Len(s)
      PROVE  ChainOf(s)[b] = {b} \union ChainOf(s)[s[b].prior]
  <2>1. b \in 0 .. Len(s) /\ b # 0
    BY <1>1
  <2> QED
    BY <2>1, <1>2
<1> QED
  BY <1>3, <1>4

LEMMA SegmentsUnfold ==
  ASSUME NEW s \in Seq(Block), PriorBelow(s)
  PROVE  /\ SegmentsOf(s)[0] = << >>
         /\ \A b \in 1 .. Len(s) :
              SegmentsOf(s)[b] = Append(SegmentsOf(s)[s[b].prior], Cut(s, b))
<1>1. Len(s) \in Nat
  OBVIOUS
<1>2. SegmentsOf(s) = [b \in 0 .. Len(s) |->
        IF b = 0 THEN << >> ELSE Append(SegmentsOf(s)[s[b].prior], Cut(s, b))]
  BY SegmentsFunction
<1> HIDE DEF SegmentsOf
<1>3. SegmentsOf(s)[0] = << >>
  BY <1>1, <1>2
<1>4. ASSUME NEW b \in 1 .. Len(s)
      PROVE  SegmentsOf(s)[b] = Append(SegmentsOf(s)[s[b].prior], Cut(s, b))
  <2>1. b \in 0 .. Len(s) /\ b # 0
    BY <1>1
  <2> QED
    BY <2>1, <1>2
<1> QED
  BY <1>3, <1>4

LEMMA ChainStable ==
  ASSUME NEW s \in Seq(Block), NEW t \in Seq(Block), PriorBelow(s), PriorBelow(t),
         Prolongs(t, s)
  PROVE  \A b \in 0 .. Len(s) : /\ ChainOf(t)[b] = ChainOf(s)[b]
                                 /\ SegmentsOf(t)[b] = SegmentsOf(s)[b]
<1> DEFINE Same(b) == ChainOf(t)[b] = ChainOf(s)[b] /\ SegmentsOf(t)[b] = SegmentsOf(s)[b]
           Differs == {b \in 0 .. Len(s) : ~ Same(b)}
<1>n. Len(s) \in Nat /\ Len(t) \in Nat
  OBVIOUS
<1>0. Same(0)
  BY ChainUnfolds, SegmentsUnfold
<1>s. ASSUME NEW b \in 1 .. Len(s), Same(s[b].prior)
      PROVE  Same(b)
  <2>1. b \in 1 .. Len(t) /\ t[b] = s[b]
    BY <1>n DEF Prolongs
  <2>2. /\ ChainOf(s)[b] = {b} \union ChainOf(s)[s[b].prior]
        /\ ChainOf(t)[b] = {b} \union ChainOf(t)[t[b].prior]
    BY <2>1, ChainUnfolds
  <2>3. /\ SegmentsOf(s)[b] = Append(SegmentsOf(s)[s[b].prior], Cut(s, b))
        /\ SegmentsOf(t)[b] = Append(SegmentsOf(t)[t[b].prior], Cut(t, b))
    BY <2>1, SegmentsUnfold
  <2> QED
    BY <1>s, <2>1, <2>2, <2>3 DEF Cut
<1>1. Differs = {}
  <2> SUFFICES ASSUME Differs # {}
      PROVE  FALSE
    OBVIOUS
  <2>1. Differs \subseteq Nat /\ Differs \subseteq 0 .. Len(s)
    BY <1>n
  <2>2. PICK b \in Differs : \A c \in Differs : b <= c
    BY <2>1, LeastNatural
  <2>3. b # 0 /\ ~ Same(b)
    BY <1>0
  <2>5. \A c \in 0 .. Len(s) : c \notin Differs => Same(c)
    OBVIOUS
  <2> HIDE DEF Differs, Same
  <2>6. b \in 1 .. Len(s)
    BY <2>1, <2>3, <1>n
  <2>7. s[b].prior \in 0 .. b - 1
    BY <2>6 DEF PriorBelow
  <2>8. s[b].prior \in 0 .. Len(s) /\ ~(b <= s[b].prior)
    BY <2>6, <2>7, <1>n
  <2> QED
    BY <2>8, <2>2, <2>3, <2>5, <2>6, <1>s
<1>2. \A b \in 0 .. Len(s) : b \notin Differs => Same(b)
  OBVIOUS
<1> QED
  BY <1>1, <1>2

\* What a step leaves of the chain when it posts at most one block.
LEMMA ChainOfStep ==
  ASSUME GroundedInv, GroundedInv', Prolongs(blocks', blocks)
  PROVE  /\ Chain[0] = {} /\ Segments[0] = << >>
         /\ \A b \in BlockIds : /\ Chain[b] = {b} \union Chain[blocks[b].prior]
                                 /\ Segments[b] = Append(Segments[blocks[b].prior], Cut(blocks, b))
         /\ \A b \in 0 .. Len(blocks) : Chain'[b] = Chain[b] /\ Segments'[b] = Segments[b]
<1>1. blocks \in Seq(Block) /\ PriorBelow(blocks)
  BY DEF GroundedInv, TypeOK, ChainGrounded, PriorBelow, BlockIds
<1>2. blocks' \in Seq(Block) /\ PriorBelow(blocks')
  BY DEF GroundedInv, TypeOK, ChainGrounded, PriorBelow, BlockIds
<1>3. /\ ChainOf(blocks)[0] = {} /\ SegmentsOf(blocks)[0] = << >>
      /\ \A b \in 1 .. Len(blocks) :
           /\ ChainOf(blocks)[b] = {b} \union ChainOf(blocks)[blocks[b].prior]
           /\ SegmentsOf(blocks)[b] =
                Append(SegmentsOf(blocks)[blocks[b].prior], Cut(blocks, b))
  BY <1>1, ChainUnfolds, SegmentsUnfold
<1>4. \A b \in 0 .. Len(blocks) : /\ ChainOf(blocks')[b] = ChainOf(blocks)[b]
                                  /\ SegmentsOf(blocks')[b] = SegmentsOf(blocks)[b]
  BY <1>1, <1>2, ChainStable
<1> QED
  BY <1>3, <1>4, ChainAndSegments DEF BlockIds

-----------------------------------------------------------------------------
(* What a step does to the heads that are about, and to the runs.          *)

\* A step posts one block behind the others or none.
LEMMA BlocksProlonged ==
  ASSUME TypeOK, TypeOK', [ChainNext]_chainVars
  PROVE  Prolongs(blocks', blocks)
<1>1. CASE blocks' = blocks
  BY <1>1 DEF Prolongs, TypeOK
<1>2. ASSUME NEW c \in Clients, SendBlock(c)
      PROVE  Prolongs(blocks', blocks)
  <2>1. blocks' = Append(blocks, NextBlock(op[c]))
    BY <1>2 DEF SendBlock
  <2>2. op[c] \in Op
    BY DEF TypeOK
  <2>3. NextBlock(op[c]) \in Block
    BY <2>2 DEF NextBlock, Op, HeadState, Block
  <2> HIDE DEF NextBlock
  <2> QED
    BY <2>1, <2>3 DEF Prolongs, TypeOK
<1> QED
  BY <1>1, <1>2 DEF ChainNext, PostEvent, Sync, Restart, Abort, ClaimExpires, WriteClaim,
     ConfirmClaim, StartSeal, StartPublish, AdvanceHead, chainVars

\* The client d receives m.eo.head or keeps the head it has; a run goes on with its
\* head, or starts with the one that d has received; only SendBlock makes it advance.
HeadsMove(d) ==
  /\ view'[d].head \in {view[d].head, head}
  /\ op'[d].head \in {op[d].head, view[d].head, emptyHead}
  /\ op'[d].pc = "advancing" => op'[d] = op[d] \/ SendBlock(d)

LEMMA HeadsMoveInStep ==
  ASSUME TypeOK, [ChainNext]_chainVars, NEW d \in Clients
  PROVE  HeadsMove(d)
<1>t. view[d] \in View /\ op[d] \in Op /\ op \in [Clients -> Op] /\ view \in [Clients -> View]
  BY DEF TypeOK
<1>0. CASE op'[d] = op[d] /\ view'[d] = view[d]
  BY <1>0 DEF HeadsMove
<1>1. ASSUME NEW c \in Clients, op' = op, \E v \in View : v.head = head /\ view' = [view EXCEPT ![c] = v]
      PROVE  HeadsMove(d)
  BY <1>1, <1>t DEF HeadsMove
<1>2. CASE op'[d] = Idle /\ view'[d].head \in {view[d].head, head}
  BY <1>2 DEF HeadsMove, Idle
<1>3. ASSUME NEW c \in Clients, c # d, \E o : op' = [op EXCEPT ![c] = o],
             view' = view \/ \E v : view' = [view EXCEPT ![c] = v]
      PROVE  HeadsMove(d)
  <2>1. op'[d] = op[d] /\ view'[d] = view[d]
    BY <1>3, <1>t
  <2> QED
    BY <2>1, <1>0
<1>4. CASE PostEvent \/ ClaimExpires \/ UNCHANGED chainVars
  BY <1>4, <1>0 DEF PostEvent, ClaimExpires, chainVars
<1>5. ASSUME NEW c \in Clients, Sync(c)
      PROVE  HeadsMove(d)
  <2>1. CASE c = d
    <3>1. view'[d].head = head
      BY <1>5, <2>1, <1>t DEF Sync, View
    <3> QED
      BY <1>5, <3>1 DEF Sync, HeadsMove
  <2>2. CASE c # d
    BY <1>5, <2>2, <1>0, <1>t DEF Sync
  <2> QED
    BY <2>1, <2>2
<1>6. ASSUME NEW c \in Clients, c # d,
             Restart(c) \/ Abort(c) \/ StartSeal(c) \/ WriteClaim(c) \/ ConfirmClaim(c)
               \/ StartPublish(c) \/ SendBlock(c) \/ AdvanceHead(c)
      PROVE  HeadsMove(d)
  <2>1. op'[d] = op[d]
    BY <1>6, <1>t DEF Restart, Abort, StartSeal, WriteClaim, ConfirmClaim, StartPublish,
       SendBlock, AdvanceHead
  <2>2. view'[d] = view[d]
    BY <1>6, <1>t DEF Restart, Abort, StartSeal, WriteClaim, ConfirmClaim, StartPublish,
       SendBlock, AdvanceHead
  <2> QED
    BY <2>1, <2>2, <1>0
<1>7. CASE Restart(d)
  <2>1. op'[d] = Idle /\ view'[d].head = head
    BY <1>7, <1>t DEF Restart
  <2> QED
    BY <2>1, <1>2
<1>8. CASE Abort(d) \/ AdvanceHead(d)
  <2>1. op'[d] = Idle /\ view' = view
    BY <1>8, <1>t DEF Abort, AdvanceHead
  <2> QED
    BY <2>1, <1>2
<1>9. CASE StartSeal(d)
  <2>1. op'[d].head = view[d].head /\ op'[d].pc = "claiming" /\ view' = view
    BY <1>9, <1>t DEF StartSeal
  <2> QED
    BY <2>1 DEF HeadsMove
<1>10. CASE StartPublish(d)
  <2>1. op'[d].head = view[d].head /\ op'[d].pc = "sending" /\ view' = view
    BY <1>10, <1>t DEF StartPublish
  <2> QED
    BY <2>1 DEF HeadsMove
<1>11. CASE WriteClaim(d)
  <2>1. op'[d] = [op[d] EXCEPT !.pc = "waiting"] /\ view' = view /\ op[d].pc = "claiming"
    BY <1>11, <1>t DEF WriteClaim
  <2>2. op'[d].head = op[d].head /\ op'[d].pc = "waiting"
    BY <2>1, <1>t DEF Op
  <2> QED
    BY <2>1, <2>2 DEF HeadsMove
<1>12. CASE ConfirmClaim(d)
  <2>1. CASE op'[d] = Idle
    BY <1>12, <2>1, <1>2 DEF ConfirmClaim
  <2>2. CASE op'[d] # Idle
    <3>1. op'[d] = [op[d] EXCEPT !.pc = "sending"] /\ view' = view /\ op[d].pc = "waiting"
      BY <1>12, <2>2, <1>t DEF ConfirmClaim
    <3>2. op'[d].head = op[d].head /\ op'[d].pc = "sending"
      BY <3>1, <1>t DEF Op
    <3> QED
      BY <3>1, <3>2 DEF HeadsMove
  <2> QED
    BY <2>1, <2>2
<1>13. CASE SendBlock(d)
  <2>1. op'[d] = [op[d] EXCEPT !.pc = "advancing", !.blk = Len(blocks) + 1]
    BY <1>13, <1>t DEF SendBlock
  <2>2. view' = view /\ op[d].pc = "sending"
    BY <1>13 DEF SendBlock
  <2>3. op'[d].head = op[d].head
    BY <2>1, <1>t DEF Op
  <2> QED
    BY <1>13, <2>2, <2>3 DEF HeadsMove
<1> QED
  BY <1>4, <1>5, <1>6, <1>7, <1>8, <1>9, <1>10, <1>11, <1>12, <1>13 DEF ChainNext

\* Only AdvanceHead writes m.eo.head and reports success.
LEMMA HeadMoves ==
  ASSUME [ChainNext]_chainVars
  PROVE  \/ head' = head /\ sealed' = sealed
         \/ \E c \in Clients : AdvanceHead(c)
BY DEF ChainNext, PostEvent, Sync, Restart, Abort, ClaimExpires, WriteClaim, ConfirmClaim,
   StartSeal, StartPublish, SendBlock, chainVars

\* A run that sent its block finds it in the room with the links it was sent with.
RunSent(o) ==
  o.pc = "advancing" => /\ o.blk \in BlockIds
                        /\ blocks[o.blk].prior = o.head.latest
                        /\ blocks[o.blk].lo = o.lo
                        /\ blocks[o.blk].hi = o.hi

RunsSent == \A c \in Clients : RunSent(op[c])

LEMMA ChainInitSent == ChainInit => RunsSent
BY DEF ChainInit, RunsSent, RunSent, Idle

LEMMA ChainNextSent ==
  ASSUME TypeOK, TypeOK', RunsSent, [ChainNext]_chainVars
  PROVE  RunsSent'
<1>n. Len(blocks) \in Nat /\ Len(blocks') \in Nat /\ Prolongs(blocks', blocks)
  BY BlocksProlonged DEF TypeOK
<1> SUFFICES ASSUME NEW d \in Clients, op'[d].pc = "advancing"
    PROVE  RunSent(op[d])'
  BY DEF RunsSent, RunSent
<1>1. CASE op'[d] = op[d]
  <2>1. op[d].blk \in 1 .. Len(blocks) /\ RunSent(op[d]) /\ op[d].pc = "advancing"
    BY <1>1 DEF RunsSent, RunSent, BlockIds
  <2>2. op[d].blk \in 1 .. Len(blocks') /\ blocks'[op[d].blk] = blocks[op[d].blk]
    BY <2>1, <1>n DEF Prolongs
  <2> QED
    BY <1>1, <2>1, <2>2 DEF RunSent, BlockIds
<1>2. CASE SendBlock(d)
  <2>0. op[d] \in Op /\ blocks \in Seq(Block)
    BY DEF TypeOK
  <2>1. op'[d] = [op[d] EXCEPT !.pc = "advancing", !.blk = Len(blocks) + 1]
    BY <1>2 DEF SendBlock, TypeOK
  <2>2. blocks' = Append(blocks, NextBlock(op[d])) /\ NextBlock(op[d]) \in Block
    BY <1>2, <2>0 DEF SendBlock, NextBlock, Op, HeadState, Block
  <2>3. /\ op'[d].blk = Len(blocks) + 1 /\ op'[d].head = op[d].head
        /\ op'[d].lo = op[d].lo /\ op'[d].hi = op[d].hi
    BY <2>0, <2>1 DEF Op
  <2>4. op'[d].blk \in 1 .. Len(blocks') /\ blocks'[op'[d].blk] = NextBlock(op[d])
    <3> HIDE DEF NextBlock
    <3> QED
      BY <2>0, <2>2, <2>3, <1>n
  <2>5. /\ blocks'[op'[d].blk].prior = op'[d].head.latest
        /\ blocks'[op'[d].blk].lo = op'[d].lo
        /\ blocks'[op'[d].blk].hi = op'[d].hi
    BY <2>3, <2>4 DEF NextBlock
  <2> QED
    BY <2>4, <2>5 DEF RunSent, BlockIds
<1> QED
  BY <1>1, <1>2, HeadsMoveInStep DEF HeadsMove

-----------------------------------------------------------------------------
(* The genesis of a head. *)

\* The head h records the root of the chain it names; as for ChainGrounded, that has
\* to hold of every head that a client may still write back.
RootedHead(h) ==
  h.latest # 0 => /\ h.genesis \in BlockIds
                  /\ h.genesis \in Chain[h.latest]
                  /\ blocks[h.genesis].prior = 0

RootedInv ==
  /\ RunsSent
  /\ RootedHead(head)
  /\ \A c \in Clients : RootedHead(view[c].head) /\ RootedHead(op[c].head)

LEMMA ChainInitRooted == ChainInit => RootedInv
<1> SUFFICES ASSUME ChainInit
    PROVE  RootedInv
  OBVIOUS
<1>1. RootedHead(emptyHead)
  BY DEF RootedHead, emptyHead
<1>2. head = emptyHead /\ \A c \in Clients : view[c].head = emptyHead /\ op[c].head = emptyHead
  BY DEF ChainInit, Idle
<1> QED
  BY <1>1, <1>2, ChainInitSent DEF RootedInv

LEMMA ChainNextRooted ==
  ASSUME GroundedInv, GroundedInv', RootedInv, [ChainNext]_chainVars
  PROVE  RootedInv'
<1>t. TypeOK /\ TypeOK'
  BY DEF GroundedInv
<1>n. Len(blocks) \in Nat /\ Len(blocks') \in Nat /\ Prolongs(blocks', blocks)
  BY <1>t, BlocksProlonged DEF TypeOK
<1>c. /\ \A b \in BlockIds : Chain[b] = {b} \union Chain[blocks[b].prior]
      /\ \A b \in 0 .. Len(blocks) : Chain'[b] = Chain[b]
  BY <1>n, ChainOfStep
\* What is rooted stays so.
<1>s. ASSUME NEW h \in HeadState, HeadDescribes(h), RootedHead(h), NEW g, g = h
      PROVE  g.latest # 0 => /\ g.genesis \in BlockIds'
                             /\ g.genesis \in Chain'[g.latest]
                             /\ blocks'[g.genesis].prior = 0
  <2>1. h.latest \in 0 .. Len(blocks)
    BY <1>s DEF HeadDescribes
  <2>2. Chain'[h.latest] = Chain[h.latest]
    BY <2>1, <1>c
  <2>3. ASSUME h.latest # 0
        PROVE  h.genesis \in 1 .. Len(blocks') /\ blocks'[h.genesis] = blocks[h.genesis]
    <3>1. h.genesis \in 1 .. Len(blocks)
      BY <1>s, <2>3 DEF RootedHead, BlockIds
    <3> QED
      BY <3>1, <1>n DEF Prolongs
  <2> QED
    BY <1>s, <2>2, <2>3 DEF RootedHead, BlockIds
<1>h. head \in HeadState /\ HeadDescribes(head) /\ RootedHead(head)
  BY <1>t DEF GroundedInv, ChainGrounded, RootedInv, TypeOK
<1>g. ASSUME NEW d \in Clients
      PROVE  /\ view[d].head \in HeadState /\ op[d].head \in HeadState
             /\ HeadDescribes(view[d].head) /\ HeadDescribes(op[d].head)
             /\ RootedHead(view[d].head) /\ RootedHead(op[d].head)
  BY <1>t DEF GroundedInv, RootedInv, TypeOK, View, Op
<1>e. emptyHead \in HeadState /\ HeadDescribes(emptyHead) /\ RootedHead(emptyHead)
  BY <1>t, EmptyHeadDescribes DEF RootedHead, emptyHead, HeadState
<1>1. ASSUME NEW d \in Clients
      PROVE  (RootedHead(view[d].head) /\ RootedHead(op[d].head))'
  <2>1. /\ view'[d].head \in {view[d].head, head}
        /\ op'[d].head \in {op[d].head, view[d].head, emptyHead}
    BY <1>t, HeadsMoveInStep DEF HeadsMove
  <2>2. RootedHead(view[d].head)'
    BY <2>1, <1>s, <1>h, <1>g DEF RootedHead
  <2>3. RootedHead(op[d].head)'
    BY <2>1, <1>s, <1>e, <1>g DEF RootedHead
  <2> QED
    BY <2>2, <2>3
<1>2. ASSUME NEW c \in Clients, AdvanceHead(c)
      PROVE  RootedHead(head)'
  <2> DEFINE k == op[c].blk
             g == op[c].head.genesis
  <2>1. blocks' = blocks /\ head' = NextHead(op[c]) /\ op[c].pc = "advancing"
    BY <1>2 DEF AdvanceHead
  <2>2. k \in BlockIds /\ blocks[k].prior = op[c].head.latest
    BY <2>1 DEF RootedInv, RunsSent, RunSent
  <2>3. /\ head'.latest = k
        /\ head'.genesis = IF g = 0 THEN k ELSE g
    BY <2>1 DEF NextHead, GenesisAfter
  <2>4. k \in 0 .. Len(blocks) /\ Chain'[k] = {k} \union Chain[op[c].head.latest]
    BY <2>2, <1>c, <1>n DEF BlockIds
  <2>5. op[c].head.genesis = 0 <=> op[c].head.latest = 0
    BY <1>g DEF HeadDescribes
  <2>6. CASE g = 0
    BY <2>1, <2>2, <2>3, <2>4, <2>5, <2>6 DEF RootedHead, BlockIds
  <2>7. CASE g # 0
    <3>1. g \in BlockIds /\ g \in Chain[op[c].head.latest] /\ blocks[g].prior = 0
      BY <2>5, <2>7, <1>g DEF RootedHead
    <3> QED
      BY <3>1, <2>1, <2>3, <2>4, <2>7 DEF RootedHead, BlockIds
  <2> QED
    BY <2>6, <2>7
<1>3. ASSUME head' = head
      PROVE  RootedHead(head)'
  BY <1>3, <1>s, <1>h DEF RootedHead
<1>4. RunsSent'
  BY <1>t, ChainNextSent DEF RootedInv
<1> QED
  BY <1>1, <1>2, <1>3, <1>4, HeadMoves DEF RootedInv

\* The genesis that m.eo.head records is the root of the chain it names, for any
\* number of clients that each may have started a chain of their own.
THEOREM GenesisIsTheRoot == ChainSpec => []GenesisIsRoot
<1>1. RootedInv => GenesisIsRoot
  BY DEF RootedInv, RootedHead, GenesisIsRoot
<1>2. GroundedInv /\ RootedInv /\ [ChainNext]_chainVars => GroundedInv' /\ RootedInv'
  BY ChainNextGrounded, ChainNextRooted
<1> QED
  BY <1>1, <1>2, ChainInitGrounded, ChainInitRooted, PTL DEF ChainSpec

-----------------------------------------------------------------------------
(* What a head update drops.                                               *)

\* The chain that AdvanceHead makes the head name: the one its run read, one block
\* longer.
LEMMA HeadAdvances ==
  ASSUME GroundedInv, GroundedInv', RunsSent, [ChainNext]_chainVars,
         NEW c \in Clients, AdvanceHead(c)
  PROVE  /\ op[c].blk \in BlockIds /\ blocks[op[c].blk].prior = op[c].head.latest
         /\ head'.latest = op[c].blk
         /\ Chain'[head'.latest] = {op[c].blk} \union Chain[op[c].head.latest]
<1>t. TypeOK /\ TypeOK'
  BY DEF GroundedInv
<1>n. Len(blocks) \in Nat /\ Prolongs(blocks', blocks)
  BY <1>t, BlocksProlonged DEF TypeOK
<1>1. op[c].pc = "advancing" /\ head'.latest = op[c].blk
  BY DEF AdvanceHead, NextHead
<1>2. op[c].blk \in BlockIds /\ blocks[op[c].blk].prior = op[c].head.latest
  BY <1>1 DEF RunsSent, RunSent
<1>3. Chain[op[c].blk] = {op[c].blk} \union Chain[op[c].head.latest]
  BY <1>2, <1>n, ChainOfStep
<1>4. op[c].blk \in 0 .. Len(blocks)
  BY <1>2, <1>n DEF BlockIds
<1>5. Chain'[op[c].blk] = Chain[op[c].blk]
  BY <1>4, <1>n, ChainOfStep
<1> QED
  BY <1>1, <1>2, <1>3, <1>5

LEMMA LostInStep ==
  ASSUME GroundedInv, GroundedInv', RunsSent, [ChainNext]_chainVars, head' # head
  PROVE  \/ \E c \in Clients : /\ op[c].pc = "advancing"
                               /\ op[c].head.latest # head.latest
                               /\ head' = NextHead(op[c])
         \/ Chain[head.latest] \subseteq Chain[head.latest]'
<1>1. PICK c \in Clients : AdvanceHead(c)
  BY HeadMoves
<1>2. op[c].pc = "advancing" /\ head' = NextHead(op[c])
  BY <1>1 DEF AdvanceHead
<1>3. CASE op[c].head.latest = head.latest
  BY <1>1, <1>3, HeadAdvances
<1> QED
  BY <1>2, <1>3

\* Lost updates: over any number of clients, any lag of /sync and any crash, the chain
\* a reader walks loses a block only when the head is overwritten by a run that read it
\* before another run advanced it.
THEOREM BlocksAreLostOnlyToStaleRuns == ChainSpec => LostOnlyToStale
<1> DEFINE Inv == GroundedInv /\ RunsSent
<1>1. ChainInit => Inv
  BY ChainInitGrounded, ChainInitSent
<1>2. Inv /\ [ChainNext]_chainVars => Inv'
  <2> SUFFICES ASSUME GroundedInv, RunsSent, [ChainNext]_chainVars
      PROVE  GroundedInv' /\ RunsSent'
    OBVIOUS
  <2>1. GroundedInv'
    BY ChainNextGrounded
  <2> QED
    BY <2>1, ChainNextSent DEF GroundedInv
<1>3. Inv /\ Inv' /\ [ChainNext]_chainVars =>
        [head' # head =>
           \/ \E c \in Clients : /\ op[c].pc = "advancing"
                                 /\ op[c].head.latest # head.latest
                                 /\ head' = NextHead(op[c])
           \/ Chain[head.latest] \subseteq Chain[head.latest]']_chainVars
  BY LostInStep
<1> HIDE DEF Inv
<1> QED
  BY <1>1, <1>2, <1>3, PTL DEF ChainSpec, LostOnlyToStale

-----------------------------------------------------------------------------
(* The refinement of SealedLog. *)

\* Every head that is about names a chain that m.eo.head named at some time.
VersionsInv ==
  /\ RunsSent
  /\ sealed \subseteq BlockIds
  /\ head.latest \in sealed \union {0}
  /\ \A c \in Clients : /\ view[c].head.latest \in sealed \union {0}
                        /\ op[c].head.latest \in sealed \union {0}

LEMMA ChainInitVersions == ChainInit => VersionsInv
BY ChainInitSent DEF ChainInit, VersionsInv, emptyHead, Idle

LEMMA ChainNextVersions ==
  ASSUME GroundedInv, GroundedInv', VersionsInv, [ChainNext]_chainVars
  PROVE  VersionsInv'
<1>t. TypeOK /\ TypeOK'
  BY DEF GroundedInv
<1>1. RunsSent'
  BY <1>t, ChainNextSent DEF VersionsInv
<1>2. BlockIds \subseteq BlockIds'
  <2>1. Prolongs(blocks', blocks) /\ Len(blocks) \in Nat /\ Len(blocks') \in Nat
    BY <1>t, BlocksProlonged DEF TypeOK
  <2> QED
    BY <2>1 DEF Prolongs, BlockIds
<1>3. /\ sealed \subseteq sealed' /\ sealed' \subseteq BlockIds'
      /\ head'.latest \in sealed' \union {0}
  <2>1. CASE head' = head /\ sealed' = sealed
    BY <2>1, <1>2 DEF VersionsInv
  <2>2. ASSUME NEW c \in Clients, AdvanceHead(c)
        PROVE  /\ sealed \subseteq sealed' /\ sealed' \subseteq BlockIds'
               /\ head'.latest \in sealed' \union {0}
    <3>1. op[c].blk \in BlockIds /\ head'.latest = op[c].blk
      BY <2>2, HeadAdvances DEF VersionsInv
    <3>2. sealed' = sealed \union {op[c].blk}
      BY <2>2 DEF AdvanceHead
    <3> QED
      BY <3>1, <3>2, <1>2 DEF VersionsInv
  <2> QED
    BY <2>1, <2>2, HeadMoves
<1>4. ASSUME NEW d \in Clients
      PROVE  /\ view'[d].head.latest \in sealed' \union {0}
             /\ op'[d].head.latest \in sealed' \union {0}
  <2>1. /\ view'[d].head \in {view[d].head, head}
        /\ op'[d].head \in {op[d].head, view[d].head, emptyHead}
    BY <1>t, HeadsMoveInStep DEF HeadsMove
  <2> QED
    BY <2>1, <1>3 DEF VersionsInv, emptyHead
<1> QED
  BY <1>1, <1>3, <1>4 DEF VersionsInv

Segment == [lo : Nat, hi : Nat]

\* The segments of every chain form a sequence.
LEMMA SegmentsTyped ==
  ASSUME NEW s \in Seq(Block), PriorBelow(s)
  PROVE  \A b \in 0 .. Len(s) : SegmentsOf(s)[b] \in Seq(Segment)
<1> DEFINE Typed(b) == SegmentsOf(s)[b] \in Seq(Segment)
           Untyped == {b \in 0 .. Len(s) : ~ Typed(b)}
<1>n. Len(s) \in Nat
  OBVIOUS
<1>0. Typed(0)
  <2>1. << >> \in Seq(Segment)
    OBVIOUS
  <2> QED
    BY <2>1, SegmentsUnfold
<1>s. ASSUME NEW b \in 1 .. Len(s), Typed(s[b].prior)
      PROVE  Typed(b)
  <2>1. SegmentsOf(s)[b] = Append(SegmentsOf(s)[s[b].prior], Cut(s, b))
    BY SegmentsUnfold
  <2>2. Cut(s, b) \in Segment
    <3>1. s[b] \in Block
      BY <1>n
    <3> QED
      BY <3>1 DEF Cut, Segment, Block
  <2>3. \A q \in Seq(Segment), e \in Segment : Append(q, e) \in Seq(Segment)
    OBVIOUS
  <2> QED
    BY <1>s, <2>1, <2>2, <2>3, Zenon
<1>1. Untyped = {}
  <2> SUFFICES ASSUME Untyped # {}
      PROVE  FALSE
    OBVIOUS
  <2>1. Untyped \subseteq Nat /\ Untyped \subseteq 0 .. Len(s)
    BY <1>n
  <2>2. PICK b \in Untyped : \A c \in Untyped : b <= c
    BY <2>1, LeastNatural
  <2>3. b # 0 /\ ~ Typed(b)
    BY <1>0
  <2>5. \A c \in 0 .. Len(s) : c \notin Untyped => Typed(c)
    OBVIOUS
  <2> HIDE DEF Untyped, Typed
  <2>6. b \in 1 .. Len(s)
    BY <2>1, <2>3, <1>n
  <2>7. s[b].prior \in 0 .. b - 1
    BY <2>6 DEF PriorBelow
  <2>8. s[b].prior \in 0 .. Len(s) /\ ~(b <= s[b].prior)
    BY <2>6, <2>7, <1>n
  <2> QED
    BY <2>8, <2>2, <2>3, <2>5, <2>6, <1>s
<1>2. \A b \in 0 .. Len(s) : b \notin Untyped => Typed(b)
  OBVIOUS
<1> QED
  BY <1>1, <1>2

\* The last event a chain's segments seal is the cutoff of its newest block.
LEMMA SegmentsCutoff ==
  ASSUME GroundedInv
  PROVE  \A b \in 0 .. Len(blocks) :
           Segments[b] \in Seq(Segment) /\ Log!CutoffOf(Segments[b]) = CutoffAfter(b)
<1>1. blocks \in Seq(Block) /\ PriorBelow(blocks)
  BY DEF GroundedInv, TypeOK, ChainGrounded, PriorBelow, BlockIds
<1>2. \A b \in 0 .. Len(blocks) : Segments[b] \in Seq(Segment)
  BY <1>1, SegmentsTyped, ChainAndSegments
<1>3. /\ Segments[0] = << >>
      /\ \A b \in 1 .. Len(blocks) :
           Segments[b] = Append(Segments[blocks[b].prior], Cut(blocks, b))
  BY <1>1, SegmentsUnfold, ChainAndSegments
<1>4. ASSUME NEW b \in 1 .. Len(blocks)
      PROVE  Log!CutoffOf(Segments[b]) = CutoffAfter(b)
  <2>1. blocks[b].prior \in 0 .. Len(blocks)
    BY <1>1 DEF PriorBelow
  <2> DEFINE q == Segments[blocks[b].prior]
             e == Cut(blocks, b)
  <2>2. q \in Seq(Segment) /\ Segments[b] = Append(q, e)
    BY <2>1, <1>2, <1>3
  <2>3. e.hi = blocks[b].hi
    BY DEF Cut
  <2> HIDE DEF q, e
  <2>4. /\ Append(q, e) # << >>
        /\ Append(q, e)[Len(Append(q, e))] = e
    BY <2>2
  <2> QED
    BY <2>2, <2>3, <2>4, <1>1 DEF Log!CutoffOf, CutoffAfter
<1>5. Log!CutoffOf(Segments[0]) = CutoffAfter(0)
  BY <1>3 DEF Log!CutoffOf, CutoffAfter
<1> QED
  BY <1>1, <1>2, <1>4, <1>5

LEMMA LogInit == ChainInit => Log!Init
<1> SUFFICES ASSUME ChainInit
    PROVE  Log!Init
  OBVIOUS
<1>1. head = emptyHead /\ sealed = {} /\ GroundedInv
  BY ChainInitGrounded DEF ChainInit
<1>2. blocks \in Seq(Block) /\ PriorBelow(blocks)
  BY <1>1 DEF GroundedInv, TypeOK, ChainGrounded, PriorBelow, BlockIds
<1>3. Segments[0] = << >>
  BY <1>2, SegmentsUnfold, ChainAndSegments
<1>4. Versions = {<< >>}
  BY <1>1, <1>3 DEF Versions
<1> QED
  BY <1>1, <1>3, <1>4 DEF Log!Init, emptyHead

\* AdvanceHead seals one more segment, and every other step stutters.
LEMMA LogNext ==
  ASSUME GroundedInv, GroundedInv', LinkedInv, VersionsInv, [ChainNext]_chainVars
  PROVE  [Log!Next]_<<Segments[head.latest], Versions>>
<1>t. TypeOK /\ TypeOK'
  BY DEF GroundedInv
<1>n. Len(blocks) \in Nat /\ Prolongs(blocks', blocks)
  BY <1>t, BlocksProlonged DEF TypeOK
<1>s. \A b \in 0 .. Len(blocks) : Segments'[b] = Segments[b]
  BY <1>n, ChainOfStep
<1>b. sealed \subseteq BlockIds /\ head.latest \in sealed \union {0}
  BY DEF VersionsInv
<1>v. /\ \A b \in sealed \union {0} : b \in 0 .. Len(blocks)
      /\ head.latest \in 0 .. Len(blocks)
  <2>1. Len(blocks) \in Nat
    BY <1>n
  <2>2. BlockIds \subseteq 0 .. Len(blocks) /\ 0 \in 0 .. Len(blocks)
    BY <2>1 DEF BlockIds
  <2> QED
    BY <2>2, <1>b
<1>1. CASE head' = head /\ sealed' = sealed
  <2>1. Segments'[head'.latest] = Segments[head.latest]
    BY <1>1, <1>s, <1>v
  <2>2. Versions' = Versions
    BY <1>1, <1>s, <1>v DEF Versions
  <2> QED
    BY <2>1, <2>2
<1>2. ASSUME NEW c \in Clients, AdvanceHead(c)
      PROVE  Log!Next
  <2> DEFINE k == op[c].blk
             p == op[c].head.latest
  <2>1. k \in BlockIds /\ blocks[k].prior = p /\ head'.latest = k
    BY <1>2, HeadAdvances DEF VersionsInv
  <2>2. k \in 0 .. Len(blocks) /\ p \in sealed \union {0} /\ p \in 0 .. Len(blocks)
    <3>1. p \in sealed \union {0}
      BY DEF VersionsInv
    <3>2. k \in 0 .. Len(blocks)
      BY <2>1, <1>n DEF BlockIds
    <3> QED
      BY <3>1, <3>2, <1>v
  <2>3. Segments[k] = Append(Segments[p], Cut(blocks, k))
    BY <2>1, <1>n, ChainOfStep
  <2>4. Segments'[head'.latest] = Segments[k]
    BY <2>1, <2>2, <1>s
  <2>5. Versions' = Versions \union {Segments[k]} /\ Segments[p] \in Versions
    <3>1. sealed' = sealed \union {k}
      BY <1>2 DEF AdvanceHead
    <3>2. \A b \in sealed' \union {0} : Segments'[b] = Segments[b]
      BY <3>1, <2>2, <1>s, <1>v
    <3> HIDE DEF k, p
    <3>3. Versions' = {Segments[b] : b \in sealed' \union {0}}
      BY <3>2 DEF Versions
    <3> QED
      BY <3>1, <3>3, <2>2 DEF Versions
  <2>6. Log!Follows(Segments[p], Cut(blocks, k))
    <3>1. Log!CutoffOf(Segments[p]) = CutoffAfter(blocks[k].prior)
      BY <2>1, <2>2, SegmentsCutoff
    <3>2. /\ blocks[k].lo >= 1
          /\ blocks[k].hi \in blocks[k].lo - 1 .. posted
          /\ CutoffAfter(blocks[k].prior) # 0 =>
               blocks[k].lo = CutoffAfter(blocks[k].prior) + 1
      BY <2>1 DEF LinkedInv, ChainLinked
    <3>3. blocks[k].lo \in Nat /\ blocks[k].hi \in Nat /\ posted \in Nat
      <4>1. blocks[k] \in Block
        BY <2>1, <1>t DEF TypeOK, BlockIds
      <4> QED
        BY <4>1, <1>t DEF Block, TypeOK
    <3>4. Cut(blocks, k).lo = blocks[k].lo /\ Cut(blocks, k).hi = blocks[k].hi
      BY DEF Cut
    <3> HIDE DEF k, p
    <3> QED
      BY <3>1, <3>2, <3>3, <3>4 DEF Log!Follows
  <2>7. Segments[p] \in Seq(Segment)
    BY <2>2, SegmentsCutoff
  <2> HIDE DEF k, p
  <2>8. /\ Segments[k] # << >>
        /\ Segments[k][Len(Segments[k])] = Cut(blocks, k)
    BY <2>3, <2>7
  <2> QED
    BY <2>3, <2>4, <2>5, <2>6, <2>8, Zenon DEF Log!Next, Log!SealSegment
<1> QED
  BY <1>1, <1>2, HeadMoves

\* Refinement: over any number of clients, stale heads, lost head updates and live
\* timelines that reach back any distance, every value of the chain a reader walks is
\* an earlier value of it with one segment more, which takes up the timeline where that
\* earlier value stopped.
THEOREM ChainImplementsSealedLog == ChainSpec => ImplementsSealedLog
<1> DEFINE Inv == GroundedInv /\ LinkedInv /\ VersionsInv
<1>1. ChainInit => Inv
  BY ChainInitGrounded, ChainInitLinked, ChainInitVersions
<1>2. Inv /\ [ChainNext]_chainVars => Inv'
  <2> SUFFICES ASSUME GroundedInv, LinkedInv, VersionsInv, [ChainNext]_chainVars
      PROVE  GroundedInv' /\ LinkedInv' /\ VersionsInv'
    OBVIOUS
  <2>1. GroundedInv'
    BY ChainNextGrounded
  <2> QED
    BY <2>1, ChainNextLinked, ChainNextVersions
<1>3. Inv /\ Inv' /\ [ChainNext]_chainVars => [Log!Next]_<<Segments[head.latest], Versions>>
  BY LogNext
<1> HIDE DEF Inv
<1> QED
  BY <1>1, <1>2, <1>3, LogInit, PTL DEF ChainSpec, ImplementsSealedLog, Log!Spec
=============================================================================
