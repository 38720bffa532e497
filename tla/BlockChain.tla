----------------------------- MODULE BlockChain -----------------------------
(***************************************************************************)
(* The block chain a space keeps in its Matrix room, and the clients that  *)
(* extend it (app/src/sync/block-sealer.ts, encoding-claim.ts,             *)
(* publish-events.ts, seed-uploader.ts).                                   *)
(*                                                                         *)
(* The room holds a timeline of EO events, the m.eo.block messages and two *)
(* state events: m.eo.head, which names the newest block, and the encoding *)
(* claim.  A client never reads the server's state: it reads what /sync    *)
(* has delivered to it so far (view), and it extends the chain in several  *)
(* requests with an await between any two of them (op).                    *)
(*                                                                         *)
(* The i-th EO event of the timeline is the number i, the k-th m.eo.block  *)
(* message is the number k, and 0 stands for null.                         *)
(***************************************************************************)
EXTENDS Integers, Sequences, FiniteSets

CONSTANTS
  Clients,      \* the devices that extend the chain
  MinTail,      \* the sealing threshold (MIN_TAIL_EVENTS, or forceMinEvents)
  LiveWindow,   \* how many EO events the live timeline shows after a (re)start
  MaxEvents,    \* bound: EO events in the timeline
  MaxBlocks,    \* bound: m.eo.block messages
  MaxClaims     \* bound: encoding claims written

ASSUME ChainAssumption ==
  /\ 0 \notin Clients
  /\ MinTail \in Nat \ {0}
  /\ LiveWindow \in Nat
  /\ MaxEvents \in Nat /\ MaxBlocks \in Nat /\ MaxClaims \in Nat

VARIABLES
  posted,       \* number of EO events in the room timeline
  blocks,       \* the m.eo.block messages, in the order the server took them
  head,         \* content of the m.eo.head state event
  claim,        \* content of the encoding-claim state event
  expired,      \* claims up to this number are older than CLAIM_TTL_MS
  view,         \* what /sync has delivered to each client
  op,           \* the sealing run each client has in progress
  sealed        \* history: the blocks m.eo.head has named, whose runs returned success

chainVars == <<posted, blocks, head, claim, expired, view, op, sealed>>

-----------------------------------------------------------------------------
(* Types. *)

HeadState == [latest : Nat, genesis : Nat, count : Nat, cutoff : Nat]
Claim == [by : Clients \union {0}, n : Nat]
Block == [index : Nat, prior : Nat, lo : Nat, hi : Nat]
View  == [head : HeadState, claim : Claim, len : Nat, base : Nat]
Phase == {"idle", "claiming", "waiting", "sending", "advancing"}
Op    == [pc : Phase, head : HeadState, lo : Nat, hi : Nat, blk : Nat]

emptyHead == [latest |-> 0, genesis |-> 0, count |-> 0, cutoff |-> 0]
NoClaim   == [by |-> 0, n |-> 0]
Idle      == [pc |-> "idle", head |-> emptyHead, lo |-> 0, hi |-> 0, blk |-> 0]

TypeOK ==
  /\ posted \in Nat
  /\ blocks \in Seq(Block)
  /\ head \in HeadState
  /\ claim \in Claim
  /\ expired \in Nat
  /\ view \in [Clients -> View]
  /\ op \in [Clients -> Op]
  /\ sealed \in SUBSET Nat

ChainInit ==
  /\ posted = 0
  /\ blocks = << >>
  /\ head = emptyHead
  /\ claim = NoClaim
  /\ expired = 0
  /\ view = [c \in Clients |-> [head |-> emptyHead, claim |-> NoClaim,
                                len |-> 0, base |-> 0]]
  /\ op = [c \in Clients |-> Idle]
  /\ sealed = {}

-----------------------------------------------------------------------------
(* The room and its delivery. *)

\* Somebody sends an m.eo.event message to the room.
PostEvent ==
  /\ posted < MaxEvents
  /\ posted' = posted + 1
  /\ UNCHANGED <<blocks, head, claim, expired, view, op, sealed>>

\* /sync delivers everything the room holds by now to client c.
Sync(c) ==
  /\ view' = [view EXCEPT ![c].head = head, ![c].claim = claim, ![c].len = posted]
  /\ UNCHANGED <<posted, blocks, head, claim, expired, op, sealed>>

\* Where the live timeline begins after a (re)start.
LiveBaseUnclamped == posted - LiveWindow
LiveBase == IF posted > LiveWindow THEN posted - LiveWindow ELSE 0

\* The page is closed or crashes and starts again: the run in progress is gone,
\* and the live timeline now begins LiveWindow events before its end.
Restart(c) ==
  /\ op' = [op EXCEPT ![c] = Idle]
  /\ view' = [view EXCEPT ![c] =
        [head |-> head, claim |-> claim, len |-> posted, base |-> LiveBase]]
  /\ UNCHANGED <<posted, blocks, head, claim, expired, sealed>>

\* A request of the run fails: it throws, and what it sent before stays sent.
Abort(c) ==
  /\ op[c].pc # "idle"
  /\ op' = [op EXCEPT ![c] = Idle]
  /\ UNCHANGED <<posted, blocks, head, claim, expired, view, sealed>>

-----------------------------------------------------------------------------
(* The encoding claim. *)

\* A claim is pending from the moment it is written (releaseClaim has no
\* caller), so it can be taken over once it is stale or if it is one's own.
isClaimableByUs(cl, c) == cl.n = 0 \/ cl.n <= expired \/ cl.by = c

\* Five minutes pass since the oldest claim that was still fresh.
ClaimExpires ==
  /\ expired < claim.n
  /\ expired' = expired + 1
  /\ UNCHANGED <<posted, blocks, head, claim, view, op, sealed>>

\* The claim request lands; the server keeps the last one.
WriteClaim(c) ==
  /\ op[c].pc = "claiming"
  /\ claim.n < MaxClaims
  /\ claim' = [by |-> c, n |-> claim.n + 1]
  /\ op' = [op EXCEPT ![c].pc = "waiting"]
  /\ UNCHANGED <<posted, blocks, head, expired, view, sealed>>

\* What the client reads after the jittered wait makes it go on, or give up.
ClaimHeld(cl, c) == cl.n = 0 \/ cl.by = c

ConfirmClaim(c) ==
  /\ op[c].pc = "waiting"
  /\ op' = [op EXCEPT ![c] = IF ClaimHeld(view[c].claim, c)
                             THEN [@ EXCEPT !.pc = "sending"]
                             ELSE Idle]
  /\ UNCHANGED <<posted, blocks, head, claim, expired, view, sealed>>

-----------------------------------------------------------------------------
(* Sealing. *)

\* The first event of the live timeline that collectTailEvents takes: the one
\* after the cutoff, or the first one shown when there is no cutoff.
TailStartAtCutoff(v) == IF v.head.cutoff = 0 THEN v.base + 1 ELSE v.head.cutoff
TailStart(v) == IF v.head.cutoff = 0 THEN v.base + 1 ELSE v.head.cutoff + 1

\* The cutoff event is in the live timeline (otherwise nothing is collected).
CutoffShown(v) == v.head.cutoff = 0 \/ v.head.cutoff > v.base

\* sealNextBlock: head and tail are read, the threshold is tested, and only then
\* the claim protocol begins.
StartSeal(c) ==
  LET v == view[c] IN
  /\ op[c].pc = "idle"
  /\ CutoffShown(v)
  /\ v.len + 1 - TailStart(v) >= MinTail
  /\ isClaimableByUs(v.claim, c)
  /\ op' = [op EXCEPT ![c] = [pc |-> "claiming", head |-> v.head,
                              lo |-> TailStart(v), hi |-> v.len, blk |-> 0]]
  /\ UNCHANGED <<posted, blocks, head, claim, expired, view, sealed>>

\* publishEoEventBatch in block mode and uploadSeedFile: the head is read and
\* the payload goes out without a claim.  Its events never were in the timeline,
\* so the block covers no timeline event and the cutoff stays where it was.
StartPublish(c) ==
  /\ op[c].pc = "idle"
  /\ op' = [op EXCEPT ![c] =
        [pc |-> "sending", head |-> view[c].head,
         lo |-> view[c].head.cutoff + 1, hi |-> view[c].head.cutoff, blk |-> 0]]
  /\ UNCHANGED <<posted, blocks, head, claim, expired, view, sealed>>

\* The m.eo.block message of a run, and the m.eo.head that follows block b.
NextBlockPublishedAlone(o) ==
  [index |-> o.head.count, prior |-> IF o.lo > o.hi THEN 0 ELSE o.head.latest,
   lo |-> o.lo, hi |-> o.hi]
NextBlock(o) == [index |-> o.head.count, prior |-> o.head.latest, lo |-> o.lo, hi |-> o.hi]

GenesisAfter(o) == IF o.head.genesis = 0 THEN o.blk ELSE o.head.genesis

NextHeadUncounted(o) == [latest |-> o.blk, genesis |-> GenesisAfter(o),
                         count |-> o.head.count, cutoff |-> o.hi]
NextHeadNewGenesis(o) == [latest |-> o.blk, genesis |-> o.blk,
                          count |-> o.head.count + 1, cutoff |-> o.hi]
NextHeadKeepsCutoff(o) == [latest |-> o.blk, genesis |-> GenesisAfter(o),
                           count |-> o.head.count + 1, cutoff |-> o.head.cutoff]
NextHead(o) == [latest |-> o.blk, genesis |-> GenesisAfter(o),
                count |-> o.head.count + 1, cutoff |-> o.hi]

\* The payload is uploaded and the m.eo.block message lands.
SendBlock(c) ==
  /\ op[c].pc = "sending"
  /\ Len(blocks) < MaxBlocks
  /\ blocks' = Append(blocks, NextBlock(op[c]))
  /\ op' = [op EXCEPT ![c] = [@ EXCEPT !.pc = "advancing", !.blk = Len(blocks) + 1]]
  /\ UNCHANGED <<posted, head, claim, expired, view, sealed>>

\* The m.eo.head state event lands and the run returns.
AdvanceHead(c) ==
  /\ op[c].pc = "advancing"
  /\ head' = NextHead(op[c])
  /\ sealed' = sealed \union {op[c].blk}
  /\ op' = [op EXCEPT ![c] = Idle]
  /\ UNCHANGED <<posted, blocks, claim, expired, view>>

ChainNext ==
  \/ PostEvent
  \/ ClaimExpires
  \/ \E c \in Clients :
       \/ Sync(c)
       \/ Restart(c)
       \/ Abort(c)
       \/ StartSeal(c)
       \/ WriteClaim(c)
       \/ ConfirmClaim(c)
       \/ StartPublish(c)
       \/ SendBlock(c)
       \/ AdvanceHead(c)

ChainSpec == ChainInit /\ [][ChainNext]_chainVars

-----------------------------------------------------------------------------
(* The chain a head names, as walkBlockChain follows it. *)

BlockIds == 1 .. Len(blocks)

Chain[b \in 0 .. Len(blocks)] ==
  IF b = 0 THEN {} ELSE {b} \union Chain[blocks[b].prior]

Covers(b) == blocks[b].lo .. blocks[b].hi

IndexAfter(b)  == IF b = 0 THEN 0 ELSE blocks[b].index + 1
CutoffAfter(b) == IF b = 0 THEN 0 ELSE blocks[b].hi

\* A head that someone wrote, received or works from describes one posted block.
HeadDescribes(h) ==
  /\ h.latest \in 0 .. Len(blocks)
  /\ h.count = IndexAfter(h.latest)
  /\ h.cutoff = CutoffAfter(h.latest)
  /\ h.genesis = 0 <=> h.latest = 0

-----------------------------------------------------------------------------
(* Safety. *)

\* Every block points at a block posted before it, with the next lower index, so
\* that the backward walk of a reader ends at a genesis block and never raises
\* the "chain cycle" error; and m.eo.head never names a block that is not in the
\* room yet, whatever crashes and races happen between the two requests.
ChainGrounded ==
  /\ \A b \in BlockIds : /\ blocks[b].prior \in 0 .. b - 1
                         /\ blocks[b].index = IndexAfter(blocks[b].prior)
  /\ HeadDescribes(head)

\* The genesis a head records is the root of the very chain it names, also when
\* two clients each started a chain of their own.
GenesisIsRoot ==
  head.latest # 0 => /\ head.genesis \in Chain[head.latest]
                     /\ blocks[head.genesis].prior = 0

\* Each block takes up the timeline where its predecessor stopped, so that the
\* blocks of a chain share no event and leave none out, except before the first
\* block that covers one: that one starts where the client's live timeline does.
ChainLinked ==
  \A b \in BlockIds :
     /\ blocks[b].lo >= 1
     /\ blocks[b].hi \in blocks[b].lo - 1 .. posted
     /\ CutoffAfter(blocks[b].prior) # 0 =>
          blocks[b].lo = CutoffAfter(blocks[b].prior) + 1

\* A block that readers walked drops off the chain only when a run that read the
\* head before another run advanced it writes its own head over that one: a
\* failure, a restart, a lost claim or a publish beside a seal never loses one.
LostOnlyToStale ==
  [][head' # head =>
       \/ \E c \in Clients : /\ op[c].pc = "advancing"
                             /\ op[c].head.latest # head.latest
                             /\ head' = NextHead(op[c])
       \/ Chain[head.latest] \subseteq Chain[head.latest]']_chainVars

\* The chain a reader walks implements the log of SealedLog: each head names a
\* chain that some head named before, one segment longer.
Segments[b \in 0 .. Len(blocks)] ==
  IF b = 0 THEN << >>
  ELSE Append(Segments[blocks[b].prior], [lo |-> blocks[b].lo, hi |-> blocks[b].hi])

\* Every chain m.eo.head has named.
Versions == LET S == Segments IN {S[b] : b \in sealed \union {0}}

Log == INSTANCE SealedLog WITH log <- Segments[head.latest], versions <- Versions

ImplementsSealedLog == Log!Spec
=============================================================================
