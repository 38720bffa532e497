-------------------------------- MODULE Swarm --------------------------------
(***************************************************************************)
(* The sync worker of one device: how it fetches a piece that the peers of *)
(* a room advertise (app/src/sync/network-sync-worker-core.ts,             *)
(* projection.ts, derived.ts, scheduler.ts), with the main thread it talks *)
(* to (network-sync-bridge.ts, db/fold.ts).                                *)
(*                                                                         *)
(* The worker asks peers for the piece, judges what they deliver, and      *)
(* emits events about both.  An emitted event takes effect only when the   *)
(* main thread has folded it and reported it back; until then the worker   *)
(* decides on an older projection.  Every report ends in a tick: overdue   *)
(* requests are dropped, derived events are emitted, peers are asked.      *)
(*                                                                         *)
(* It is the system as network-sync-wiring.ts connects it: a delivery goes *)
(* to the worker with the hash that its sender claims, nothing ticks but   *)
(* reports, and validate.ts refuses every REC, so that no blacklisting and *)
(* no loss ever reaches the projection.                                    *)
(*                                                                         *)
(* Every event changes one piece, so one piece is modelled.  The others    *)
(* show in the tick only: they decide how many peers a piece may be asked  *)
(* from, and which peers have no budget left for it.                       *)
(***************************************************************************)
EXTENDS Integers, Sequences, FiniteSets

CONSTANTS
  Peers, Hashes,
  Author,             \* the device that wrote the piece, as a peer
  Holdings,           \* the hashes of the piece that the peers may have
  None,               \* no hash
  Fanouts,            \* how many peers a piece may be asked from: in an endgame, or not
  SynThreshold,       \* independent verified deliveries for an attestation
  MaxQueue            \* bound: events that wait to be folded when an answer comes

ASSUME SwarmAssumption ==
  /\ IsFiniteSet(Peers) /\ IsFiniteSet(Hashes)
  /\ None \notin Hashes
  /\ Author \in Peers
  /\ Holdings \subseteq [Peers -> Hashes \union {None}]
  /\ Fanouts \subseteq Nat \ {0} /\ Fanouts # {}
  /\ SynThreshold \in Nat \ {0} /\ MaxQueue \in Nat

VARIABLES
  holds,       \* the hash of the piece that a peer has and advertises, or None
  piece,       \* the projection of the piece
  flight,      \* inFlight: whom the piece was asked from, and the expected hash
  emitted,     \* emittedDerivedIds and emittedWorkerIds
  queue,       \* events the main thread has yet to fold
  folded,      \* the main thread: idempotency keys, and whether the piece is declared
  asked        \* requests without an answer yet: it may come late, or never

swarmVars ==
  <<holds, piece, flight, emitted, queue, folded, asked>>

-----------------------------------------------------------------------------
(* Types. *)

Hash == Hashes \union {None}

Con(q, h, ok)  == [op |-> "CON", peer |-> q, hash |-> h, ok |-> ok]
Bar(q)         == [op |-> "REC", peer |-> q]
Def(h, from)   == [op |-> "DEF", hash |-> h, from |-> from]
Syn(h, peers)  == [op |-> "SYN", hash |-> h, peers |-> peers]
Lost           == [op |-> "REC", awaiting |-> Author]

Arrivals == [op : {"CON"}, peer : Peers, hash : Hashes, ok : {TRUE}]
Failures == [op : {"CON"}, peer : Peers, hash : Hashes, ok : {FALSE}]
Bars     == [op : {"REC"}, peer : Peers]
Defs     == [op : {"DEF"}, hash : Hashes,
             from : {"author_seg", "swarm_attestation", "single_verified_delivery"}]
Syns     == [op : {"SYN"}, hash : Hashes, peers : SUBSET Peers]
Event    == Arrivals \union Failures \union Bars \union Defs \union Syns \union {Lost}

PieceRecord ==
  [ads : Seq([hash : Hashes, by : SUBSET Peers]),  \* candidates, the first one first
   good : [Peers -> Hash],       \* verified deliveries
   bad : SUBSET Peers,           \* failedDeliveries
   author : Hash, defined : Hash, inst : Hash, attested : Hash]

EmptyPiece ==
  [ads |-> << >>, good |-> [q \in Peers |-> None], bad |-> {},
   author |-> None, defined |-> None, inst |-> None, attested |-> None]

NoRequest == [peers |-> {}, hash |-> None]

TypeOK ==
  /\ holds \in Holdings
  /\ piece \in PieceRecord
  /\ flight \in [peers : SUBSET Peers, hash : Hash]
  /\ flight.peers = {} <=> flight = NoRequest
  /\ emitted \subseteq Event \ Bars
  /\ queue \in Seq(Event)
  /\ folded \in [keys : SUBSET Event, declared : BOOLEAN]
  /\ asked \subseteq [peer : Peers, hash : Hashes]

SwarmInit ==
  /\ holds \in Holdings
  /\ piece = EmptyPiece
  /\ flight = NoRequest
  /\ emitted = {}
  /\ queue = << >>
  /\ folded = [keys |-> {}, declared |-> FALSE]
  /\ asked = {}

-----------------------------------------------------------------------------
(* The projection of the piece (projection.ts). *)

Verifiers(pc, h) == {q \in Peers : pc.good[q] = h}
Verified(pc) == {q \in Peers : pc.good[q] # None}
Advertisers(pc) == UNION {pc.ads[i].by : i \in DOMAIN pc.ads}

\* pieceStatus is absent, signaled or contested: the piece is still wanted.
Wanted(pc) == pc.attested = None /\ pc.inst = None

\* SIG: the hash becomes a candidate, the peer one of those who advertise it.
Signaled(pc, q, h) ==
  IF \E i \in DOMAIN pc.ads : pc.ads[i].hash = h
  THEN [pc EXCEPT !.ads = [i \in DOMAIN pc.ads |->
                             IF pc.ads[i].hash = h
                             THEN [pc.ads[i] EXCEPT !.by = @ \union {q}] ELSE pc.ads[i]]]
  ELSE [pc EXCEPT !.ads = Append(@, [hash |-> h, by |-> {q}])]

\* What an event of the worker does to the piece, if it is folded.
Applied(pc, e) ==
  CASE e.op = "CON" /\ e.ok  -> [pc EXCEPT !.good[e.peer] = e.hash, !.bad = @ \ {e.peer}]
    [] e.op = "CON" /\ ~e.ok -> [pc EXCEPT !.bad = @ \union {e.peer}]
    [] e.op = "DEF"          -> [pc EXCEPT !.defined = e.hash]
    [] e.op = "SYN"          -> [pc EXCEPT !.attested = e.hash]
    [] OTHER                 -> pc

-----------------------------------------------------------------------------
(* Derived events (derived.ts). *)

\* Mutant: a verified delivery is looked at before the seal.
DerivedDefSealLast(pc) ==
  IF pc.defined # None THEN {}
  ELSE IF Verified(pc) # {}
       THEN {Def(pc.good[CHOOSE q \in Verified(pc) : TRUE], "single_verified_delivery")}
  ELSE IF pc.author # None THEN {Def(pc.author, "author_seg")} ELSE {}

\* emitPieceDef: the author's hash, else the attested one, else the one that all
\* verified deliveries agree on, unless every candidate is another.
DerivedDef(pc) ==
  LET hashes == {pc.good[q] : q \in Verified(pc)}
      agreed == CHOOSE h \in hashes : TRUE IN
  IF pc.defined # None THEN {}
  ELSE IF pc.author # None THEN {Def(pc.author, "author_seg")}
  ELSE IF pc.attested # None THEN {Def(pc.attested, "swarm_attestation")}
  ELSE IF /\ Cardinality(hashes) = 1
          /\ Len(pc.ads) > 1 => \E i \in DOMAIN pc.ads : pc.ads[i].hash = agreed
       THEN {Def(agreed, "single_verified_delivery")} ELSE {}

\* Mutant: those who only advertise the hash count, too.
AttestsUndelivered(pc, h) ==
  Cardinality(Verifiers(pc, h) \union
    UNION {pc.ads[i].by : i \in {j \in DOMAIN pc.ads : pc.ads[j].hash = h}}) >= SynThreshold

\* emitPieceSyn.
Attests(pc, h) == Cardinality(Verifiers(pc, h)) >= SynThreshold
DerivedSyn(pc) ==
  IF pc.attested # None \/ ~\E h \in Hashes : Attests(pc, h) THEN {}
  ELSE LET h == CHOOSE x \in Hashes : Attests(pc, x) IN {Syn(h, Verifiers(pc, h))}

\* emitPieceUnrecoverableRec.
DerivedLost(pc, here) ==
  IF /\ ~here
     /\ pc.inst = None /\ pc.attested = None /\ pc.defined = None
     /\ pc.bad # {} /\ Verified(pc) = {}
  THEN {Lost} ELSE {}

Derived(pc, here) == DerivedDef(pc) \union DerivedSyn(pc) \union DerivedLost(pc, here)

\* deriveEvents: what was derived and not emitted before, in the order of emission.
Listed(s) == IF s = {} THEN << >> ELSE <<CHOOSE e \in s : TRUE>>
Fresh(pc, here, ids) ==
  Listed(DerivedDef(pc) \ ids) \o Listed(DerivedSyn(pc) \ ids) \o Listed(DerivedLost(pc, here) \ ids)

-----------------------------------------------------------------------------
(* The scheduler (scheduler.ts). *)

\* chooseExpectedHash: the author's, else the most advertised one, the first of them.
Expected(pc) ==
  IF pc.author # None THEN pc.author
  ELSE IF pc.ads = << >> THEN None
  ELSE LET votes(i) == Cardinality(pc.ads[i].by)
           best == CHOOSE i \in DOMAIN pc.ads : \A j \in DOMAIN pc.ads :
                     votes(j) < votes(i) \/ (votes(j) = votes(i) /\ i <= j)
       IN pc.ads[best].hash

Sought(pc) == pc # EmptyPiece /\ Wanted(pc) /\ Expected(pc) # None

\* pickEligiblePeers, without the budgets: any peer that advertises the piece, whatever
\* the hash.  Nobody is ever blacklisted.
Eligible(pc, entry) == (Advertisers(pc) \union Verified(pc)) \ entry.peers

\* The peers that a tick may pick: as many as there is room for, fewer when their
\* budgets are spent on other pieces.
Picks(pc, entry, n) ==
  IF ~Sought(pc) THEN {{}}
  ELSE {s \in SUBSET Eligible(pc, entry) :
          s = {} \/ Cardinality(s) + Cardinality(entry.peers) <= n}

\* Mutant: also when there is no room.
EscalatesFull(pc, here, entry, n, picked) ==
  Sought(pc) /\ picked = {} /\ Advertisers(pc) # {} /\ here

\* No peer was picked for an advertised piece with room: the author is asked, if
\* reachable, whatever the reason and whether or not it was asked before.
Escalates(pc, here, entry, n, picked) ==
  /\ Sought(pc) /\ picked = {}
  /\ Cardinality(entry.peers) < n
  /\ Advertisers(pc) # {} /\ here

-----------------------------------------------------------------------------
(* The worker (network-sync-worker-core.ts). *)

\* Mutant: an entry without peers stays.
WithoutDelete(entry, qs) == [entry EXCEPT !.peers = @ \ qs]

\* The in-flight entry without some of its peers; the last one takes the entry with it.
Without(entry, qs) == IF entry.peers \subseteq qs THEN NoRequest
                      ELSE [entry EXCEPT !.peers = @ \ qs]

\* tick, from a state in the middle of a handler: the projection, what is in flight
\* without what is overdue, what waits and what was emitted.
TickWith(pc, here, left, open, waits, ids, n, picked) ==
  LET new == IF Escalates(pc, here, left, n, picked) THEN {Author} ELSE picked IN
  /\ flight' = IF new = {} THEN left
               ELSE [peers |-> left.peers \union new, hash |-> Expected(pc)]
  /\ asked' = open \union {[peer |-> q, hash |-> Expected(pc)] : q \in new}
  /\ queue' = waits \o Fresh(pc, here, ids)
  /\ emitted' = ids \union Derived(pc, here)

Tick(pc, entry, open, waits, ids) ==
  \E late \in SUBSET entry.peers, here \in BOOLEAN, n \in Fanouts :
    LET left == Without(entry, late) IN
    \E picked \in Picks(pc, left, n) : TickWith(pc, here, left, open, waits, ids, n, picked)

\* onFoldedEvent for an event that says nothing of the piece.
OtherReport == /\ Tick(piece, flight, asked, queue, emitted)
               /\ UNCHANGED <<holds, piece, folded>>

\* onFoldedEvent for an event of another device: the author's membership, a SIG of a
\* peer, the author's SEG.
Report(pc) ==
  /\ pc # piece /\ piece' = pc
  /\ Tick(pc, flight, asked, queue, emitted)
  /\ UNCHANGED <<holds, folded>>

Advertise(q) == holds[q] # None /\ Report(Signaled(piece, q, holds[q]))

Seal == holds[Author] # None /\ Report([piece EXCEPT !.author = holds[Author]])

\* The host has folded the bytes of a verified delivery and reports the INS of the
\* piece, unless the fold holds one.  It retires the requests.
Instantiate ==
  /\ ~folded.declared
  /\ \E q \in Verified(piece) :
       LET pc == [piece EXCEPT !.inst = piece.good[q]] IN
       /\ piece' = pc
       /\ Tick(pc, NoRequest, asked, queue, emitted)
  /\ folded' = [folded EXCEPT !.declared = TRUE]
  /\ UNCHANGED holds

\* A sender repeats the hash that it was asked for, and the worker believes it.  What
\* answers an earlier request may be of another hash than the one in flight.
Accepts(m) == flight.peers # {} => flight.hash = m.hash

\* A worker event is emitted once in a session.
Once(e, ids) == IF e \in ids THEN << >> ELSE <<e>>

\* What a delivery makes the worker emit.
Verdict(m, con) ==
  IF Accepts(m) THEN Once(con, emitted) ELSE Append(Once(con, emitted), Bar(m.peer))

\* onInboundBulk.  A delivery that verifies waits for the fold; one that does not is
\* followed by a tick, on a projection that does not know of it yet.
Deliver(m) ==
  LET con  == Con(m.peer, m.hash, Accepts(m))
      left == Without(flight, {m.peer})
      open == asked \ {m}
      told == queue \o Verdict(m, con)
      ids  == emitted \union {con} IN
  /\ m \in asked /\ holds[m.peer] # None
  /\ Len(queue) < MaxQueue
  /\ IF Accepts(m)
     THEN flight' = left /\ queue' = told /\ emitted' = ids /\ asked' = open
     ELSE Tick(piece, left, open, told, ids)
  /\ UNCHANGED <<holds, piece, folded>>

-----------------------------------------------------------------------------
(* The main thread folds what the worker emitted, and reports it back. *)

\* processEvent refuses a REC, and an event whose id it has folded: no report.
Refused(e) == e.op = "REC" \/ e \in folded.keys

DropEvent ==
  /\ queue # << >> /\ Refused(Head(queue))
  /\ queue' = Tail(queue)
  /\ UNCHANGED <<holds, piece, flight, emitted, folded, asked>>

\* The fold puts an INS before the first DEF or SYN of the piece.  It holds no hash,
\* but the worker takes it for the INS of the piece.
NeedsDeclared(e) == e.op \in {"DEF", "SYN"} /\ ~folded.declared

PromoteEvent ==
  /\ queue # << >> /\ ~Refused(Head(queue)) /\ NeedsDeclared(Head(queue))
  /\ folded' = [folded EXCEPT !.declared = TRUE]
  /\ Tick(piece, NoRequest, asked, queue, emitted)
  /\ UNCHANGED <<holds, piece>>

\* The event is folded, and reaches the worker's projection.
FoldEvent ==
  LET e  == Head(queue)
      pc == Applied(piece, e) IN
  /\ queue # << >> /\ ~Refused(e) /\ ~NeedsDeclared(e)
  /\ folded' = [folded EXCEPT !.keys = @ \union {e}]
  /\ piece' = pc
  /\ Tick(pc, flight, asked, Tail(queue), emitted)
  /\ UNCHANGED holds

HostStep == DropEvent \/ PromoteEvent \/ FoldEvent

SwarmNext ==
  \/ OtherReport
  \/ Seal \/ Instantiate
  \/ \E q \in Peers : Advertise(q)
  \/ \E m \in asked : Deliver(m)
  \/ HostStep

SwarmSpec == SwarmInit /\ [][SwarmNext]_swarmVars

-----------------------------------------------------------------------------
(* Properties. *)

\* The piece is never asked from more peers at a time than the largest fan-out,
\* whatever order requests, failures, escalations and overdue ones come in.
WithinFanout == \E n \in Fanouts : Cardinality(flight.peers) <= n

\* A definition by the author's seal stands: once it is folded no other is, from
\* deliveries that were under way when the seal came.
SealStands ==
  Def(piece.author, "author_seg") \in folded.keys => piece.defined = piece.author

\* An attestation stands on that many peers whose deliveries of the hash were folded,
\* whatever they delivered before or since.
AttestedByMany ==
  piece.attested # None =>
    Cardinality({q \in Peers : Con(q, piece.attested, TRUE) \in folded.keys}) >= SynThreshold
=============================================================================
