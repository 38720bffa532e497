----------------------------- MODULE SwarmProofs -----------------------------
(***************************************************************************)
(* Theorems about Swarm, for any peers and hashes, any threshold and       *)
(* fan-outs, whatever is lost, late or asked twice: requests are within    *)
(* the fan-out, an attestation stands on that many folded deliveries, and  *)
(* a definition by the author's seal stands.                               *)
(***************************************************************************)
EXTENDS Swarm, WellFoundedInduction, FiniteSetTheorems, TLAPS

\* Numbers have a least one among them.
LEMMA LeastNatural ==
  ASSUME NEW S \in SUBSET Nat, S # {}
  PROVE  \E x \in S : \A y \in S : x <= y
<1> DEFINE R == OpToRel(<, Nat)
<1>1. \A x, y \in Nat : x < y => <<x, y>> \in R
  BY Zenon DEF OpToRel
<1> HIDE DEF R
<1>2. PICK x \in S : \A y \in S : <<y, x>> \notin R
  <2>1. IsWellFoundedOn(R, Nat)
    BY NatLessThanWellFounded DEF R
  <2> QED
    BY <2>1, WFMin
<1>3. \A y \in S : ~(y < x)
  BY <1>1, <1>2
<1> QED
  BY <1>3

\* An event waits to be folded.
Said(e, s) == \E i \in 1 .. Len(s) : s[i] = e

\* The deliveries of a hash that the main thread has folded, in its idempotency keys.
DeliveredIn(keys, h) == {q \in Peers : Con(q, h, TRUE) \in keys}

\* What a projection takes for verified and attested was delivered, and so was what an
\* event that waits attests.
Counted(pc, keys) ==
  /\ \A q \in Verified(pc) : Con(q, pc.good[q], TRUE) \in keys
  /\ pc.attested # None => Cardinality(DeliveredIn(keys, pc.attested)) >= SynThreshold
Stands(e, keys) ==
  e \in Syns => Cardinality(DeliveredIn(keys, e.hash)) >= SynThreshold

CountInv ==
  /\ TypeOK
  /\ Counted(piece, folded.keys)
  /\ \A e \in Event : Said(e, queue) => Stands(e, folded.keys)

-----------------------------------------------------------------------------
(* Counting. *)

LEMMA PeersFinite ==
  ASSUME NEW S \in SUBSET Peers
  PROVE  IsFiniteSet(S) /\ Cardinality(S) \in Nat /\ Cardinality(S) <= Cardinality(Peers)
BY SwarmAssumption, FS_Subset, FS_CardinalityType

LEMMA ElementType ==
  ASSUME NEW T, NEW s \in Seq(T)
  PROVE  /\ DOMAIN s = 1 .. Len(s) /\ Len(s) \in Nat
         /\ s # << >> => Len(s) # 0
         /\ \A i \in 1 .. Len(s) : s[i] \in T
OBVIOUS

\* There is a candidate with the most advertisers, and a first one of these.
LEMMA ExpectedAd ==
  ASSUME NEW pc \in PieceRecord, pc.author = None, pc.ads # << >>
  PROVE  \E i \in DOMAIN pc.ads : Expected(pc) = pc.ads[i].hash /\ pc.ads[i].hash \in Hashes
<1> DEFINE votes(i) == Cardinality(pc.ads[i].by)
           N == Cardinality(Peers)
           Best(i) == \A j \in DOMAIN pc.ads :
                        votes(j) < votes(i) \/ (votes(j) = votes(i) /\ i <= j)
<1>1. /\ DOMAIN pc.ads # {} /\ DOMAIN pc.ads \subseteq Nat
      /\ \A i \in DOMAIN pc.ads : pc.ads[i].hash \in Hashes /\ pc.ads[i].by \in SUBSET Peers
  <2>1. pc.ads \in Seq([hash : Hashes, by : SUBSET Peers])
    BY DEF PieceRecord
  <2>2. \A i \in 1 .. Len(pc.ads) : pc.ads[i] \in [hash : Hashes, by : SUBSET Peers]
    BY <2>1, ElementType
  <2>3. DOMAIN pc.ads = 1 .. Len(pc.ads) /\ Len(pc.ads) \in Nat /\ Len(pc.ads) # 0
    BY <2>1, ElementType
  <2>4. DOMAIN pc.ads # {} /\ DOMAIN pc.ads \subseteq Nat
    <3>1. ASSUME NEW n \in Nat, n # 0 PROVE (1 .. n) # {} /\ (1 .. n) \subseteq Nat
      <4>1. 1 \in 1 .. n
        BY ONLY n \in Nat, n # 0
      <4> QED
        BY ONLY <4>1
    <3> QED
      BY ONLY <2>3, <3>1
  <2>5. \A i \in DOMAIN pc.ads : pc.ads[i] \in [hash : Hashes, by : SUBSET Peers]
    BY <2>2, <2>3, Zenon
  <2> QED
    BY <2>4, <2>5
<1>2. N \in Nat /\ \A i \in DOMAIN pc.ads : votes(i) \in Nat /\ votes(i) <= N
  BY <1>1, PeersFinite
<1>3. PICK i \in DOMAIN pc.ads : \A j \in DOMAIN pc.ads : votes(j) <= votes(i)
  <2> DEFINE S == {n \in Nat : \E k \in DOMAIN pc.ads : n = N - votes(k)}
  <2>1. \A k \in DOMAIN pc.ads : N - votes(k) \in S
    BY <1>2
  <2>2. PICK n \in S : \A y \in S : n <= y
    <3> HIDE DEF votes, N
    <3>1. S # {} /\ S \subseteq Nat
      BY <1>1, <2>1
    <3> QED
      BY <3>1, LeastNatural
  <2> HIDE DEF votes, N
  <2>3. PICK k \in DOMAIN pc.ads : n = N - votes(k)
    OBVIOUS
  <2>4. ASSUME NEW j \in DOMAIN pc.ads PROVE votes(j) <= votes(k)
    <3>1. N - votes(k) <= N - votes(j)
      BY <2>1, <2>2, <2>3
    <3>2. N \in Nat /\ votes(j) \in Nat /\ votes(k) \in Nat
      BY <1>2
    <3> QED
      BY ONLY <3>1, <3>2
  <2> QED
    BY <2>4
<1>4. PICK first \in {k \in DOMAIN pc.ads : votes(k) = votes(i)} :
             \A j \in {k \in DOMAIN pc.ads : votes(k) = votes(i)} : first <= j
  BY <1>1, LeastNatural
<1>5. Best(first)
  BY <1>2, <1>3, <1>4
<1>6. (CHOOSE k \in DOMAIN pc.ads : Best(k)) \in DOMAIN pc.ads
  BY <1>5
<1>7. Expected(pc) = pc.ads[CHOOSE k \in DOMAIN pc.ads : Best(k)].hash
  BY DEF Expected
<1> HIDE DEF Best
<1> QED
  BY <1>1, <1>6, <1>7

LEMMA ExpectedType ==
  ASSUME NEW pc \in PieceRecord
  PROVE  Expected(pc) \in Hash
<1>1. CASE pc.author # None
  BY <1>1 DEF Expected, PieceRecord
<1>2. CASE pc.author = None /\ pc.ads = << >>
  BY <1>2 DEF Expected, Hash
<1>3. CASE pc.author = None /\ pc.ads # << >>
  BY <1>3, ExpectedAd DEF Hash
<1> QED
  BY <1>1, <1>2, <1>3

-----------------------------------------------------------------------------
(* Derived events. *)

LEMMA DefDerived ==
  ASSUME NEW pc \in PieceRecord, NEW e \in DerivedDef(pc)
  PROVE  /\ e \in Event \ Bars
         /\ e.op = "DEF"
<1> DEFINE hashes == {pc.good[q] : q \in Verified(pc)}
           agreed == CHOOSE h \in hashes : TRUE
<1>1. PICK h \in Hashes, f \in {"author_seg", "swarm_attestation", "single_verified_delivery"} :
        e = Def(h, f)
  <2>1. CASE pc.author # None
    BY <2>1 DEF DerivedDef, PieceRecord, Hash
  <2>2. CASE pc.author = None /\ pc.attested # None
    BY <2>2 DEF DerivedDef, PieceRecord, Hash
  <2>3. CASE pc.author = None /\ pc.attested = None
    <3>1. Cardinality(hashes) = 1 /\ e = Def(agreed, "single_verified_delivery")
      BY <2>3 DEF DerivedDef
    <3>2. hashes # {}
      <4> HIDE DEF hashes
      <4> QED
        <5>1. Cardinality({}) = 0
          BY FS_EmptySet
        <5> QED
          BY <3>1, <5>1
    <3>3. \A h \in hashes : h \in Hashes
      BY DEF Verified, PieceRecord, Hash
    <3>4. agreed \in hashes
      BY <3>2
    <3> HIDE DEF agreed
    <3> QED
      BY <3>1, <3>3, <3>4
  <2> QED
    BY <2>1, <2>2, <2>3
<1>2. e \in Event
  <2>1. e \in Defs
    BY <1>1 DEF Def, Defs
  <2> QED
    BY <2>1 DEF Event
<1>3. e.op = "DEF"
  BY <1>1 DEF Def
<1>4. e \notin Bars
  BY <1>3 DEF Bars, Bar
<1> QED
  BY <1>2, <1>3, <1>4

LEMMA SynDerived ==
  ASSUME NEW pc \in PieceRecord, NEW e \in DerivedSyn(pc)
  PROVE  /\ e \in Event \ Bars
         /\ e.op = "SYN"
         /\ e.hash \in Hashes
         /\ Attests(pc, e.hash)
<1>1. PICK h \in Hashes : Attests(pc, h) /\ e = Syn(h, Verifiers(pc, h))
  BY DEF DerivedSyn
<1>2. Verifiers(pc, h) \in SUBSET Peers
  BY DEF Verifiers
<1>3. e \in Event
  <2>1. e \in Syns
    BY <1>1, <1>2 DEF Syn, Syns
  <2> QED
    BY <2>1 DEF Event
<1>4. e.op = "SYN" /\ e.hash = h
  BY <1>1 DEF Syn
<1>5. e \notin Bars
  BY <1>4 DEF Bars, Bar
<1> QED
  BY <1>1, <1>3, <1>4, <1>5

LEMMA LostDerived == Lost \in Event \ Bars /\ Lost.op = "REC"
<1>1. "peer" \notin DOMAIN Lost /\ Lost.op = "REC" /\ Lost \in Event
  BY DEF Lost, Event
<1>2. \A q \in Peers : "peer" \in DOMAIN Bar(q)
  BY DEF Bar
<1> QED
  BY <1>1, <1>2 DEF Bars

LEMMA DerivedType ==
  ASSUME NEW pc \in PieceRecord, NEW here \in BOOLEAN
  PROVE  Derived(pc, here) \subseteq Event \ Bars
BY DefDerived, SynDerived, LostDerived DEF Derived, DerivedLost

LEMMA ListedType ==
  ASSUME NEW T, NEW S \in SUBSET T
  PROVE  Listed(S) \in Seq(T)
BY DEF Listed

LEMMA FreshType ==
  ASSUME NEW pc \in PieceRecord, NEW here \in BOOLEAN, NEW ids
  PROVE  Fresh(pc, here, ids) \in Seq(Derived(pc, here))
<1>1. /\ Listed(DerivedDef(pc) \ ids) \in Seq(Derived(pc, here))
      /\ Listed(DerivedSyn(pc) \ ids) \in Seq(Derived(pc, here))
      /\ Listed(DerivedLost(pc, here) \ ids) \in Seq(Derived(pc, here))
  BY ListedType DEF Derived
<1> HIDE DEF Derived
<1> QED
  BY <1>1 DEF Fresh

-----------------------------------------------------------------------------
(* A tick. *)

LEMMA WithoutType ==
  ASSUME NEW entry \in [peers : SUBSET Peers, hash : Hash],
         entry.peers = {} <=> entry = NoRequest, NEW qs
  PROVE  /\ Without(entry, qs) \in [peers : SUBSET Peers, hash : Hash]
         /\ Without(entry, qs).peers = {} <=> Without(entry, qs) = NoRequest
         /\ Without(entry, qs).peers \subseteq entry.peers
BY DEF Without, NoRequest, Hash

LEMMA AdvertisersType ==
  ASSUME NEW pc \in PieceRecord
  PROVE  Advertisers(pc) \in SUBSET Peers /\ Verified(pc) \in SUBSET Peers
<1>1. pc.ads \in Seq([hash : Hashes, by : SUBSET Peers])
  BY DEF PieceRecord
<1>2. \A i \in DOMAIN pc.ads : pc.ads[i] \in [hash : Hashes, by : SUBSET Peers]
  <2>1. \A i \in 1 .. Len(pc.ads) : pc.ads[i] \in [hash : Hashes, by : SUBSET Peers]
    BY <1>1, ElementType
  <2>2. DOMAIN pc.ads = 1 .. Len(pc.ads)
    BY <1>1
  <2> QED
    BY <2>1, <2>2, Zenon
<1>3. \A i \in DOMAIN pc.ads : pc.ads[i].by \in SUBSET Peers
  BY <1>2
<1> QED
  BY <1>3 DEF Advertisers, Verified

\* What every tick keeps, from a state in the middle of a handler.
LEMMA TickKeeps ==
  ASSUME TypeOK,
         NEW pc \in PieceRecord, NEW here \in BOOLEAN, NEW n \in Fanouts,
         NEW left \in [peers : SUBSET Peers, hash : Hash],
         left.peers = {} <=> left = NoRequest,
         NEW open \in SUBSET [peer : Peers, hash : Hashes],
         NEW waits \in Seq(Event), NEW ids \in SUBSET (Event \ Bars),
         NEW picked \in SUBSET Peers,
         ~Sought(pc) => picked = {},
         TickWith(pc, here, left, open, waits, ids, n, picked)
  PROVE  /\ flight' \in [peers : SUBSET Peers, hash : Hash]
         /\ flight'.peers = {} <=> flight' = NoRequest
         /\ emitted' \in SUBSET (Event \ Bars)
         /\ queue' \in Seq(Event)
         /\ asked' \in SUBSET [peer : Peers, hash : Hashes]
<1> DEFINE new == IF Escalates(pc, here, left, n, picked) THEN {Author} ELSE picked
<1>1. new \in SUBSET Peers
  BY SwarmAssumption
<1>2. Expected(pc) \in Hash
  BY ExpectedType
<1>3. new # {} => Expected(pc) \in Hashes
  BY <1>2 DEF Escalates, Sought, Hash
<1>4. /\ flight' = IF new = {} THEN left
                   ELSE [peers |-> left.peers \union new, hash |-> Expected(pc)]
      /\ asked' = open \union {[peer |-> q, hash |-> Expected(pc)] : q \in new}
      /\ queue' = waits \o Fresh(pc, here, ids)
      /\ emitted' = ids \union Derived(pc, here)
  BY DEF TickWith
<1> HIDE DEF new
<1>5. flight' \in [peers : SUBSET Peers, hash : Hash]
  BY <1>1, <1>2, <1>4
<1>6. flight'.peers = {} <=> flight' = NoRequest
  BY <1>1, <1>4 DEF NoRequest
<1>7. asked' \in SUBSET [peer : Peers, hash : Hashes]
  BY <1>1, <1>3, <1>4
<1>8. emitted' \in SUBSET (Event \ Bars)
  BY <1>4, DerivedType
<1>9. Fresh(pc, here, ids) \in Seq(Event)
  <2>1. Derived(pc, here) \subseteq Event
    BY DerivedType
  <2> HIDE DEF Event
  <2>2. \A S, T : S \subseteq T => Seq(S) \subseteq Seq(T)
    OBVIOUS
  <2> QED
    BY <2>1, <2>2, FreshType
<1>10. queue' \in Seq(Event)
  BY <1>4, <1>9
<1> QED
  BY <1>5, <1>6, <1>7, <1>8, <1>10

LEMMA PicksType ==
  ASSUME NEW pc \in PieceRecord, NEW n,
         NEW entry, NEW picked \in Picks(pc, entry, n)
  PROVE  picked \in SUBSET Peers /\ (~Sought(pc) => picked = {})
<1>1. CASE ~Sought(pc)
  BY <1>1 DEF Picks
<1>2. CASE Sought(pc)
  <2>1. picked \in SUBSET Eligible(pc, entry)
    BY <1>2 DEF Picks
  <2> QED
    BY <1>2, <2>1, AdvertisersType DEF Eligible
<1> QED
  BY <1>1, <1>2

LEMMA TickType ==
  ASSUME TypeOK,
         NEW pc \in PieceRecord,
         NEW entry \in [peers : SUBSET Peers, hash : Hash],
         entry.peers = {} <=> entry = NoRequest,
         NEW open \in SUBSET [peer : Peers, hash : Hashes],
         NEW waits \in Seq(Event), NEW ids \in SUBSET (Event \ Bars),
         Tick(pc, entry, open, waits, ids)
  PROVE  /\ flight' \in [peers : SUBSET Peers, hash : Hash]
         /\ flight'.peers = {} <=> flight' = NoRequest
         /\ emitted' \in SUBSET (Event \ Bars)
         /\ queue' \in Seq(Event)
         /\ asked' \in SUBSET [peer : Peers, hash : Hashes]
<1>1. PICK late \in SUBSET entry.peers, here \in BOOLEAN, n \in Fanouts :
        \E picked \in Picks(pc, Without(entry, late), n) :
          TickWith(pc, here, Without(entry, late), open, waits, ids, n, picked)
  BY DEF Tick
<1> DEFINE left == Without(entry, late)
<1>2. PICK picked \in Picks(pc, left, n) :
        TickWith(pc, here, left, open, waits, ids, n, picked)
  BY <1>1
<1>3. /\ left \in [peers : SUBSET Peers, hash : Hash]
      /\ left.peers = {} <=> left = NoRequest
  BY WithoutType
<1> HIDE DEF left
<1>4. picked \in SUBSET Peers /\ (~Sought(pc) => picked = {})
  BY PicksType
<1> QED
  BY <1>2, <1>3, <1>4, TickKeeps

-----------------------------------------------------------------------------
(* Type correctness. *)

LEMMA EmptyPieceType == EmptyPiece \in PieceRecord
BY DEF EmptyPiece, PieceRecord, Hash

LEMMA SwarmInitTypeOK == SwarmInit => TypeOK
<1> SUFFICES ASSUME SwarmInit PROVE TypeOK
  OBVIOUS
<1>2. flight \in [peers : SUBSET Peers, hash : Hash] /\ (flight.peers = {} <=> flight = NoRequest)
  BY DEF SwarmInit, NoRequest, Hash
<1>3. folded \in [keys : SUBSET Event, declared : BOOLEAN]
  <2>1. folded = [keys |-> {}, declared |-> FALSE]
    BY DEF SwarmInit
  <2>2. {} \in SUBSET Event /\ FALSE \in BOOLEAN
    OBVIOUS
  <2> QED
    BY <2>1, <2>2
<1> QED
  BY <1>2, <1>3, EmptyPieceType DEF SwarmInit, TypeOK

\* What an event, a seal or an advertisement makes of a piece is a piece.
LEMMA AppliedType ==
  ASSUME NEW pc \in PieceRecord, NEW e \in Event
  PROVE  Applied(pc, e) \in PieceRecord
<1>6. \A b \in Bars : b.op = "REC"
  BY DEF Bars, Bar
<1>1. CASE e \in Arrivals
  <2>1. e.op = "CON" /\ e.peer \in Peers /\ e.hash \in Hashes /\ e.ok
    BY <1>1 DEF Con, Arrivals
  <2>2. Applied(pc, e) = [pc EXCEPT !.good[e.peer] = e.hash, !.bad = @ \ {e.peer}]
    BY <1>6, <2>1, LostDerived DEF Applied
  <2>3. [pc.good EXCEPT ![e.peer] = e.hash] \in [Peers -> Hash]
    BY <2>1 DEF PieceRecord, Hash
  <2> QED
    BY <2>2, <2>3 DEF PieceRecord
<1>7. CASE e \in Failures
  <2>1. e.op = "CON" /\ e.peer \in Peers /\ ~e.ok
    BY <1>7 DEF Con, Failures
  <2>2. Applied(pc, e) = [pc EXCEPT !.bad = @ \union {e.peer}]
    BY <1>6, <2>1, LostDerived DEF Applied
  <2> QED
    BY <2>1, <2>2 DEF PieceRecord
<1>2. CASE e \in Bars
  BY <1>2, <1>6 DEF Applied
<1>3. CASE e = Lost
  BY <1>3, LostDerived DEF Applied
<1>4. CASE e \in Defs
  <2>1. e.op = "DEF" /\ e.hash \in Hashes
    BY <1>4 DEF Def, Defs
  <2>2. Applied(pc, e) = [pc EXCEPT !.defined = e.hash]
    BY <1>6, <2>1, LostDerived DEF Applied
  <2> QED
    BY <2>1, <2>2 DEF PieceRecord, Hash
<1>5. CASE e \in Syns
  <2>1. e.op = "SYN" /\ e.hash \in Hashes
    BY <1>5 DEF Syn, Syns
  <2>2. Applied(pc, e) = [pc EXCEPT !.attested = e.hash]
    BY <1>6, <2>1, LostDerived DEF Applied
  <2> QED
    BY <2>1, <2>2 DEF PieceRecord, Hash
<1> QED
  BY <1>1, <1>2, <1>3, <1>4, <1>5, <1>7 DEF Event

LEMMA SignaledType ==
  ASSUME NEW pc \in PieceRecord, NEW q \in Peers, NEW h \in Hashes
  PROVE  Signaled(pc, q, h) \in PieceRecord
<1> DEFINE Ad == [hash : Hashes, by : SUBSET Peers]
           marked == [i \in DOMAIN pc.ads |->
                        IF pc.ads[i].hash = h
                        THEN [pc.ads[i] EXCEPT !.by = @ \union {q}] ELSE pc.ads[i]]
<1>1. pc.ads \in Seq(Ad)
  BY DEF PieceRecord
<1>2. CASE \E i \in DOMAIN pc.ads : pc.ads[i].hash = h
  <2>1. Signaled(pc, q, h) = [pc EXCEPT !.ads = marked]
    BY <1>2 DEF Signaled
  <2>2. \A i \in DOMAIN pc.ads : pc.ads[i] \in Ad
    <3> HIDE DEF Ad
    <3> QED
      BY <1>1, ElementType, Zenon
  <2>3. \A i \in DOMAIN pc.ads : marked[i] \in Ad
    BY <2>2
  <2>4. marked \in Seq(Ad)
    <3>1. DOMAIN pc.ads = 1 .. Len(pc.ads) /\ Len(pc.ads) \in Nat
      BY <1>1, ElementType
    <3>2. marked \in [DOMAIN pc.ads -> Ad]
      BY <2>3
    <3> HIDE DEF marked, Ad
    <3>3. marked \in [1 .. Len(pc.ads) -> Ad]
      BY <3>1, <3>2
    <3> QED
      BY <3>1, <3>3
  <2> QED
    BY <2>1, <2>4 DEF PieceRecord
<1>3. CASE ~\E i \in DOMAIN pc.ads : pc.ads[i].hash = h
  <2>1. Signaled(pc, q, h) = [pc EXCEPT !.ads = Append(pc.ads, [hash |-> h, by |-> {q}])]
    BY <1>3 DEF Signaled
  <2>2. Append(pc.ads, [hash |-> h, by |-> {q}]) \in Seq(Ad)
    BY <1>1
  <2> QED
    BY <2>1, <2>2 DEF PieceRecord
<1> QED
  BY <1>2, <1>3

LEMMA HeldType == TypeOK => \A q \in Peers : holds[q] \in Hash
BY SwarmAssumption DEF TypeOK, Hash

LEMMA ReportTypeOK ==
  ASSUME TypeOK, NEW pc \in PieceRecord, Report(pc)
  PROVE  TypeOK'
<1>1. /\ piece' = pc /\ UNCHANGED <<holds, folded>>
      /\ Tick(pc, flight, asked, queue, emitted)
  BY DEF Report
<1>2. /\ flight' \in [peers : SUBSET Peers, hash : Hash]
      /\ flight'.peers = {} <=> flight' = NoRequest
      /\ emitted' \in SUBSET (Event \ Bars)
      /\ queue' \in Seq(Event)
      /\ asked' \in SUBSET [peer : Peers, hash : Hashes]
  <2> HIDE DEF Event
  <2> QED
    BY <1>1, TickType DEF TypeOK
<1> QED
  BY <1>1, <1>2 DEF TypeOK

\* What a delivery makes the worker emit.
LEMMA VerdictType ==
  ASSUME TypeOK, NEW m \in asked
  PROVE  LET con == Con(m.peer, m.hash, Accepts(m)) IN
         /\ con \in Event \ Bars
         /\ Verdict(m, con) \in Seq(Event)
<1> DEFINE con == Con(m.peer, m.hash, Accepts(m))
<1>1. m.peer \in Peers /\ m.hash \in Hashes
  BY DEF TypeOK
<1>3. con \in Arrivals \union Failures
  <2>1. CASE Accepts(m)
    BY <1>1, <2>1 DEF Con, Arrivals
  <2>2. CASE ~Accepts(m)
    <3>1. Accepts(m) = FALSE
      BY <2>2, Zenon DEF Accepts
    <3>2. con = Con(m.peer, m.hash, FALSE)
      BY <3>1
    <3> HIDE DEF con
    <3> QED
      BY <1>1, <3>2 DEF Con, Failures
  <2> QED
    BY <2>1, <2>2
<1>4. con.op = "CON"
  BY DEF Con
<1>5. con \in Event \ Bars
  <2> HIDE DEF con
  <2>1. con \notin Bars
    BY <1>4 DEF Bars, Bar
  <2> QED
    BY <1>3, <2>1 DEF Event
<1>6. Bar(m.peer) \in Event
  BY <1>1 DEF Event, Bar, Bars
<1>7. Once(con, emitted) \in Seq(Event)
  <2> HIDE DEF con
  <2> QED
    BY <1>5 DEF Once
<1>8. Verdict(m, con) \in Seq(Event)
  <2> HIDE DEF con
  <2> QED
    BY <1>6, <1>7 DEF Verdict
<1> QED
  BY <1>5, <1>8

LEMMA SwarmNextTypeOK == TypeOK /\ [SwarmNext]_swarmVars => TypeOK'
<1> SUFFICES ASSUME TypeOK, [SwarmNext]_swarmVars
    PROVE  TypeOK'
  OBVIOUS
<1>0. /\ piece \in PieceRecord /\ queue \in Seq(Event)
      /\ emitted \in SUBSET (Event \ Bars) /\ asked \in SUBSET [peer : Peers, hash : Hashes]
      /\ flight \in [peers : SUBSET Peers, hash : Hash] /\ (flight.peers = {} <=> flight = NoRequest)
  BY DEF TypeOK
<1>n. /\ NoRequest \in [peers : SUBSET Peers, hash : Hash] /\ NoRequest.peers = {}
  BY DEF NoRequest, Hash
<1>1. CASE OtherReport
  <2>1. Tick(piece, flight, asked, queue, emitted) /\ UNCHANGED <<holds, piece, folded>>
    BY <1>1 DEF OtherReport
  <2> QED
    BY <1>0, <2>1, TickType DEF TypeOK
<1>2. CASE Seal
  <2> DEFINE pc == [piece EXCEPT !.author = holds[Author]]
  <2>1. Report(pc)
    BY <1>2 DEF Seal
  <2>2. pc \in PieceRecord
    BY <1>0, HeldType, SwarmAssumption DEF PieceRecord
  <2> HIDE DEF pc
  <2> QED
    BY <2>1, <2>2, ReportTypeOK
<1>3. CASE Instantiate
  <2>1. PICK q \in Verified(piece) :
          /\ piece' = [piece EXCEPT !.inst = piece.good[q]]
          /\ Tick([piece EXCEPT !.inst = piece.good[q]], NoRequest, asked, queue, emitted)
    BY <1>3 DEF Instantiate
  <2>2. piece.good[q] \in Hash
    BY <1>0 DEF Verified, PieceRecord
  <2>3. piece' \in PieceRecord
    BY <1>0, <2>1, <2>2 DEF PieceRecord
  <2>4. Tick(piece', NoRequest, asked, queue, emitted)
    BY <2>1
  <2>5. /\ flight' \in [peers : SUBSET Peers, hash : Hash]
        /\ flight'.peers = {} <=> flight' = NoRequest
        /\ emitted' \in SUBSET (Event \ Bars)
        /\ queue' \in Seq(Event)
        /\ asked' \in SUBSET [peer : Peers, hash : Hashes]
    BY <1>0, <1>n, <2>3, <2>4, TickType
  <2>6. UNCHANGED holds /\ folded' = [folded EXCEPT !.declared = TRUE]
    BY <1>3 DEF Instantiate
  <2> QED
    BY <2>3, <2>5, <2>6 DEF TypeOK
<1>4. ASSUME NEW q \in Peers, Advertise(q)
      PROVE  TypeOK'
  <2>1. holds[q] \in Hashes /\ Report(Signaled(piece, q, holds[q]))
    BY <1>4, HeldType DEF Advertise, Hash
  <2> QED
    BY <1>0, <2>1, SignaledType, ReportTypeOK
<1>6. ASSUME NEW m \in asked, Deliver(m)
      PROVE  TypeOK'
  <2> DEFINE con  == Con(m.peer, m.hash, Accepts(m))
             left == Without(flight, {m.peer})
             open == asked \ {m}
             told == queue \o Verdict(m, con)
             ids  == emitted \union {con}
  <2>1. con \in Event \ Bars /\ Verdict(m, con) \in Seq(Event)
    BY VerdictType
  <2>2. IF Accepts(m)
        THEN flight' = left /\ queue' = told /\ emitted' = ids /\ asked' = open
        ELSE Tick(piece, left, open, told, ids)
    BY <1>6 DEF Deliver
  <2>3. UNCHANGED <<holds, piece, folded>>
    BY <1>6 DEF Deliver
  <2> HIDE DEF con
  <2>4. /\ told \in Seq(Event) /\ ids \in SUBSET (Event \ Bars)
        /\ open \in SUBSET [peer : Peers, hash : Hashes]
    BY <1>0, <2>1
  <2>5. /\ left \in [peers : SUBSET Peers, hash : Hash]
        /\ left.peers = {} <=> left = NoRequest
    BY <1>0, WithoutType
  <2> HIDE DEF left, open, told, ids
  <2>6. /\ flight' \in [peers : SUBSET Peers, hash : Hash]
        /\ flight'.peers = {} <=> flight' = NoRequest
        /\ emitted' \in SUBSET (Event \ Bars)
        /\ queue' \in Seq(Event)
        /\ asked' \in SUBSET [peer : Peers, hash : Hashes]
    <3>1. CASE Accepts(m)
      BY <2>2, <2>4, <2>5, <3>1
    <3>2. CASE ~Accepts(m)
      BY <1>0, <2>2, <2>4, <2>5, <3>2, TickType
    <3> QED
      BY <3>1, <3>2
  <2> QED
    BY <2>3, <2>6 DEF TypeOK
<1>7. CASE DropEvent
  BY <1>7 DEF DropEvent, TypeOK
<1>8. CASE PromoteEvent
  <2>1. /\ Tick(piece, NoRequest, asked, queue, emitted)
        /\ UNCHANGED <<holds, piece>> /\ folded' = [folded EXCEPT !.declared = TRUE]
    BY <1>8 DEF PromoteEvent
  <2>2. /\ flight' \in [peers : SUBSET Peers, hash : Hash]
        /\ flight'.peers = {} <=> flight' = NoRequest
        /\ emitted' \in SUBSET (Event \ Bars)
        /\ queue' \in Seq(Event)
        /\ asked' \in SUBSET [peer : Peers, hash : Hashes]
    BY <1>0, <1>n, <2>1, TickType
  <2> QED
    BY <2>1, <2>2 DEF TypeOK
<1>9. CASE FoldEvent
  <2> DEFINE e == Head(queue)
  <2>1. queue # << >>
    BY <1>9 DEF FoldEvent
  <2>2. e \in Event /\ Tail(queue) \in Seq(Event)
    <3> HIDE DEF Event
    <3> QED
      BY <1>0, <2>1
  <2>3. /\ piece' = Applied(piece, e) /\ holds' = holds
        /\ Tick(Applied(piece, e), flight, asked, Tail(queue), emitted)
        /\ folded' = [folded EXCEPT !.keys = @ \union {e}]
    BY <1>9 DEF FoldEvent
  <2> HIDE DEF e
  <2>4. piece' \in PieceRecord
    BY <1>0, <2>2, <2>3, AppliedType
  <2>5. /\ flight' \in [peers : SUBSET Peers, hash : Hash]
        /\ flight'.peers = {} <=> flight' = NoRequest
        /\ emitted' \in SUBSET (Event \ Bars)
        /\ queue' \in Seq(Event)
        /\ asked' \in SUBSET [peer : Peers, hash : Hashes]
    <3>1. Tick(piece', flight, asked, Tail(queue), emitted)
      BY <2>3
    <3> QED
      BY <1>0, <2>2, <2>4, <3>1, TickType
  <2>7. folded' \in [keys : SUBSET Event, declared : BOOLEAN]
    BY <2>2, <2>3 DEF TypeOK
  <2> QED
    BY <2>3, <2>4, <2>5, <2>7 DEF TypeOK
<1>10. CASE UNCHANGED swarmVars
  BY <1>10 DEF swarmVars, TypeOK
<1> QED
  BY <1>1, <1>2, <1>3, <1>4, <1>6, <1>7, <1>8, <1>9, <1>10 DEF SwarmNext, HostStep

\* The projection, the requests in flight and the queue keep their types, for any peers,
\* whatever is delivered, refused, lost or repeated.
THEOREM SwarmTypeCorrect == SwarmSpec => []TypeOK
BY SwarmInitTypeOK, SwarmNextTypeOK, PTL DEF SwarmSpec

-----------------------------------------------------------------------------
(* What a step adds to the queue. *)

LEMMA SaidConcat ==
  ASSUME NEW s \in Seq(Event), NEW t \in Seq(Event), NEW e
  PROVE  Said(e, s \o t) <=> (Said(e, s) \/ Said(e, t))
<1> HIDE DEF Event
<1>1. Len(s \o t) = Len(s) + Len(t) /\ Len(s) \in Nat /\ Len(t) \in Nat
  OBVIOUS
<1>2. \A i \in 1 .. Len(s) : (s \o t)[i] = s[i]
  OBVIOUS
<1>3. \A i \in 1 .. Len(t) : (s \o t)[Len(s) + i] = t[i]
  OBVIOUS
<1>4. ASSUME Said(e, s \o t) PROVE Said(e, s) \/ Said(e, t)
  <2>1. PICK i \in 1 .. Len(s) + Len(t) : (s \o t)[i] = e
    BY <1>1, <1>4 DEF Said
  <2>2. CASE i <= Len(s)
    BY <1>1, <1>2, <2>1, <2>2 DEF Said
  <2>3. CASE i > Len(s)
    <3>1. i - Len(s) \in 1 .. Len(t) /\ Len(s) + (i - Len(s)) = i
      BY <1>1, <2>3
    <3>2. t[i - Len(s)] = e
      BY <1>3, <2>1, <3>1
    <3> QED
      BY <3>1, <3>2 DEF Said
  <2> QED
    BY <1>1, <2>2, <2>3
<1>5. ASSUME Said(e, s) PROVE Said(e, s \o t)
  BY <1>1, <1>2, <1>5 DEF Said
<1>6. ASSUME Said(e, t) PROVE Said(e, s \o t)
  <2>1. PICK i \in 1 .. Len(t) : t[i] = e
    BY <1>6 DEF Said
  <2>2. Len(s) + i \in 1 .. Len(s \o t)
    BY <1>1
  <2> QED
    BY <1>3, <2>1, <2>2 DEF Said
<1> QED
  BY <1>4, <1>5, <1>6

LEMMA SaidAppend ==
  ASSUME NEW s \in Seq(Event), NEW x \in Event, NEW e
  PROVE  Said(e, Append(s, x)) <=> (Said(e, s) \/ e = x)
<1> HIDE DEF Event
<1>1. Len(Append(s, x)) = Len(s) + 1 /\ Len(s) \in Nat
  OBVIOUS
<1>2. /\ \A i \in 1 .. Len(s) : Append(s, x)[i] = s[i]
      /\ Append(s, x)[Len(s) + 1] = x
  OBVIOUS
<1> QED
  BY <1>1, <1>2 DEF Said

LEMMA SaidTail ==
  ASSUME NEW s \in Seq(Event), s # << >>, NEW e
  PROVE  /\ Head(s) \in Event /\ Said(Head(s), s)
         /\ Tail(s) \in Seq(Event)
         /\ Said(e, s) <=> (e = Head(s) \/ Said(e, Tail(s)))
<1> HIDE DEF Event
<1>1. Len(s) \in Nat /\ Len(s) # 0 /\ Len(Tail(s)) = Len(s) - 1 /\ Tail(s) \in Seq(Event)
  OBVIOUS
<1>2. Head(s) = s[1] /\ \A i \in 1 .. Len(s) - 1 : Tail(s)[i] = s[i + 1]
  OBVIOUS
<1>3. Head(s) \in Event
  OBVIOUS
<1>4. Said(Head(s), s)
  BY <1>1, <1>2 DEF Said
<1>5. ASSUME Said(e, s), e # Head(s) PROVE Said(e, Tail(s))
  <2>1. PICK i \in 1 .. Len(s) : s[i] = e
    BY <1>5 DEF Said
  <2>2. i # 1
    BY <1>2, <1>5, <2>1
  <2>3. i - 1 \in 1 .. Len(s) - 1 /\ (i - 1) + 1 = i
    BY <1>1, <2>2
  <2>4. Tail(s)[i - 1] = e
    BY <1>2, <2>1, <2>3
  <2> QED
    BY <1>1, <2>3, <2>4 DEF Said
<1>6. ASSUME Said(e, Tail(s)) PROVE Said(e, s)
  <2>1. PICK i \in 1 .. Len(s) - 1 : Tail(s)[i] = e
    BY <1>1, <1>6 DEF Said
  <2>2. i + 1 \in 1 .. Len(s)
    BY <1>1
  <2> QED
    BY <1>2, <2>1, <2>2 DEF Said
<1> QED
  BY <1>1, <1>3, <1>4, <1>5, <1>6

\* A tick adds derived events behind those that wait, and nothing else.
LEMMA TickSays ==
  ASSUME NEW pc \in PieceRecord, NEW entry, NEW open,
         NEW waits \in Seq(Event), NEW ids,
         Tick(pc, entry, open, waits, ids)
  PROVE  \E here \in BOOLEAN :
           \A e : /\ Said(e, waits) => Said(e, queue')
                  /\ Said(e, queue') => Said(e, waits) \/ e \in Derived(pc, here)
<1>1. PICK late \in SUBSET entry.peers, here \in BOOLEAN, n \in Fanouts :
        \E picked \in Picks(pc, Without(entry, late), n) :
          TickWith(pc, here, Without(entry, late), open, waits, ids, n, picked)
  BY DEF Tick
<1>2. queue' = waits \o Fresh(pc, here, ids)
  BY <1>1 DEF TickWith
<1>3. Fresh(pc, here, ids) \in Seq(Derived(pc, here))
  BY FreshType
<1>4. Fresh(pc, here, ids) \in Seq(Event)
  <2>1. Derived(pc, here) \subseteq Event
    BY DerivedType
  <2> HIDE DEF Event, Derived
  <2>2. \A S, T : S \subseteq T => Seq(S) \subseteq Seq(T)
    OBVIOUS
  <2> QED
    BY <1>3, <2>1, <2>2
<1>5. \A e : Said(e, Fresh(pc, here, ids)) => e \in Derived(pc, here)
  <2> HIDE DEF Derived
  <2> QED
    BY <1>3, ElementType DEF Said
<1>6. \A e : Said(e, queue') <=> Said(e, waits) \/ Said(e, Fresh(pc, here, ids))
  BY <1>2, <1>4, SaidConcat
<1>7. \A e : /\ Said(e, waits) => Said(e, queue')
             /\ Said(e, queue') => Said(e, waits) \/ e \in Derived(pc, here)
  BY <1>5, <1>6
<1> QED
  BY <1>7

LEMMA DerivedKinds ==
  ASSUME NEW pc \in PieceRecord, NEW here \in BOOLEAN, NEW e \in Derived(pc, here)
  PROVE  /\ e \notin Arrivals /\ e \notin Failures /\ e \notin Bars
         /\ e \in Syns => e.hash \in Hashes /\ Attests(pc, e.hash)
<1>1. CASE e \in DerivedDef(pc)
  BY <1>1, DefDerived DEF Arrivals, Failures, Syns
<1>2. CASE e \in DerivedSyn(pc)
  BY <1>2, SynDerived DEF Arrivals, Failures
<1>3. CASE e = Lost
  BY <1>3, LostDerived DEF Arrivals, Failures, Syns
<1> QED
  BY <1>1, <1>2, <1>3 DEF Derived, DerivedLost

\* What a delivery adds: the verdict, and the peer's blacklisting if it is a bad one.
LEMMA VerdictSays ==
  ASSUME TypeOK, NEW m \in asked, NEW e
  PROVE  LET con == Con(m.peer, m.hash, Accepts(m)) IN
         /\ Said(e, Verdict(m, con)) => e = con \/ e = Bar(m.peer)
         /\ con.op = "CON" /\ Bar(m.peer).op = "REC"
<1> DEFINE con == Con(m.peer, m.hash, Accepts(m))
<1>1. m.peer \in Peers /\ m.hash \in Hashes
  BY DEF TypeOK
<1>2. con \in Event /\ con \notin Bars /\ con.peer = m.peer /\ con.op = "CON"
  BY VerdictType DEF Con
<1>3. Bar(m.peer) \in Bars /\ Bar(m.peer) \in Event
  BY <1>1 DEF Event, Bar, Bars
<1> HIDE DEF con
<1>8. \A x : Said(x, << >>) => FALSE
  BY DEF Said
<1>9. Once(con, emitted) \in Seq(Event) /\ (Said(e, Once(con, emitted)) => e = con)
  BY <1>2 DEF Once, Said
<1>10. Verdict(m, con) = IF Accepts(m) THEN Once(con, emitted)
                         ELSE Append(Once(con, emitted), Bar(m.peer))
  BY DEF Verdict
<1>11. Said(e, Verdict(m, con)) => e = con \/ e = Bar(m.peer)
  BY <1>3, <1>9, <1>10, SaidAppend
<1>12. Bar(m.peer).op = "REC"
  BY DEF Bar
<1> QED
  BY <1>2, <1>11, <1>12 DEF con

-----------------------------------------------------------------------------
(* Attestations stand on folded deliveries. *)

LEMMA DeliveredGrows ==
  ASSUME NEW keys, NEW more, keys \subseteq more
  PROVE  /\ \A h : Cardinality(DeliveredIn(keys, h)) <= Cardinality(DeliveredIn(more, h))
         /\ \A h : Cardinality(DeliveredIn(keys, h)) >= SynThreshold
                     => Cardinality(DeliveredIn(more, h)) >= SynThreshold
<1> SUFFICES ASSUME NEW h
    PROVE  /\ Cardinality(DeliveredIn(keys, h)) <= Cardinality(DeliveredIn(more, h))
           /\ Cardinality(DeliveredIn(keys, h)) >= SynThreshold
                => Cardinality(DeliveredIn(more, h)) >= SynThreshold
  OBVIOUS
<1>1. /\ DeliveredIn(keys, h) \in SUBSET Peers /\ DeliveredIn(more, h) \in SUBSET Peers
      /\ DeliveredIn(keys, h) \subseteq DeliveredIn(more, h)
  BY DEF DeliveredIn
<1>2. /\ IsFiniteSet(DeliveredIn(more, h))
      /\ Cardinality(DeliveredIn(keys, h)) \in Nat /\ Cardinality(DeliveredIn(more, h)) \in Nat
  BY <1>1, PeersFinite
<1>3. Cardinality(DeliveredIn(keys, h)) <= Cardinality(DeliveredIn(more, h))
  BY <1>1, <1>2, FS_Subset
<1>4. SynThreshold \in Nat
  BY SwarmAssumption
<1> QED
  BY <1>2, <1>3, <1>4

LEMMA CountedGrows ==
  ASSUME NEW keys, NEW more, keys \subseteq more, NEW pc, NEW e
  PROVE  /\ Counted(pc, keys) => Counted(pc, more)
         /\ Stands(e, keys) => Stands(e, more)
BY DeliveredGrows DEF Counted, Stands

LEMMA SwarmInitCount == SwarmInit => CountInv
<1> SUFFICES ASSUME SwarmInit PROVE CountInv
  OBVIOUS
<1>1. Verified(piece) = {} /\ piece.attested = None /\ \A e : ~Said(e, queue)
  BY DEF SwarmInit, EmptyPiece, Verified, Said
<1> QED
  BY <1>1, SwarmInitTypeOK DEF CountInv, Counted

\* A derived attestation counts deliveries that the projection takes for verified.
LEMMA DerivedStands ==
  ASSUME NEW pc \in PieceRecord, NEW keys, Counted(pc, keys),
         NEW here \in BOOLEAN, NEW e \in Derived(pc, here)
  PROVE  Stands(e, keys)
<1> SUFFICES ASSUME e \in Syns PROVE Cardinality(DeliveredIn(keys, e.hash)) >= SynThreshold
  BY DEF Stands
<1>1. e.hash \in Hashes /\ Cardinality(Verifiers(pc, e.hash)) >= SynThreshold
  BY DerivedKinds DEF Attests
<1>2. Verifiers(pc, e.hash) \subseteq DeliveredIn(keys, e.hash)
  BY <1>1, SwarmAssumption DEF Verifiers, DeliveredIn, Counted, Verified
<1>3. DeliveredIn(keys, e.hash) \in SUBSET Peers /\ Verifiers(pc, e.hash) \in SUBSET Peers
  BY DEF DeliveredIn, Verifiers
<1>4. /\ IsFiniteSet(DeliveredIn(keys, e.hash)) /\ Cardinality(DeliveredIn(keys, e.hash)) \in Nat
      /\ Cardinality(Verifiers(pc, e.hash)) \in Nat
  BY <1>3, PeersFinite
<1>5. Cardinality(Verifiers(pc, e.hash)) <= Cardinality(DeliveredIn(keys, e.hash))
  BY <1>2, <1>4, FS_Subset
<1>6. SynThreshold \in Nat
  BY SwarmAssumption
<1> QED
  BY <1>1, <1>4, <1>5, <1>6

\* A tick, from a projection and events that are counted.
LEMMA TickCount ==
  ASSUME NEW pc \in PieceRecord, NEW keys, Counted(pc, keys), NEW entry, NEW open, NEW ids,
         NEW waits \in Seq(Event), \A e \in Event : Said(e, waits) => Stands(e, keys),
         Tick(pc, entry, open, waits, ids),
         piece' = pc, folded'.keys = keys, TypeOK'
  PROVE  CountInv'
<1>1. PICK here \in BOOLEAN :
        \A e : /\ Said(e, waits) => Said(e, queue')
               /\ Said(e, queue') => Said(e, waits) \/ e \in Derived(pc, here)
  BY TickSays
<1>2. \A e \in Event : Said(e, queue') => Stands(e, keys)
  BY <1>1, DerivedStands
<1>3. Counted(piece', folded'.keys)
  OBVIOUS
<1>4. \A e \in Event : Said(e, queue') => Stands(e, folded'.keys)
  BY <1>2
<1> QED
  BY <1>3, <1>4 DEF CountInv

\* What an event that is folded does to the deliveries and to the attestation.
LEMMA AppliedSays ==
  ASSUME NEW pc \in PieceRecord, NEW e \in Event
  PROVE  LET new == Applied(pc, e) IN
         /\ new.author = pc.author
         /\ new.defined = IF e \in Defs THEN e.hash ELSE pc.defined
         /\ new.attested = IF e \in Syns THEN e.hash ELSE pc.attested
         /\ new.good = IF e \in Arrivals THEN [pc.good EXCEPT ![e.peer] = e.hash] ELSE pc.good
<1>1. CASE e \in Arrivals
  BY <1>1 DEF Applied, Arrivals, Defs, Syns, PieceRecord
<1>2. CASE e \in Failures
  BY <1>2 DEF Applied, Failures, Arrivals, Defs, Syns, PieceRecord
<1>3. CASE e \in Bars
  BY <1>3 DEF Applied, Bars, Arrivals, Defs, Syns, PieceRecord
<1>4. CASE e \in Defs
  BY <1>4 DEF Applied, Defs, Arrivals, Syns, PieceRecord
<1>5. CASE e \in Syns
  BY <1>5 DEF Applied, Defs, Arrivals, Syns, PieceRecord
<1>6. CASE e = Lost
  BY <1>6, LostDerived DEF Applied, Defs, Arrivals, Syns, PieceRecord
<1> QED
  BY <1>1, <1>2, <1>3, <1>4, <1>5, <1>6 DEF Event

\* A delivery that is folded counts from then on.
LEMMA AppliedCounted ==
  ASSUME NEW pc \in PieceRecord, NEW keys, Counted(pc, keys), NEW e \in Event, Stands(e, keys)
  PROVE  Counted(Applied(pc, e), keys \union {e})
<1> DEFINE new == Applied(pc, e)
           more == keys \union {e}
<1>1. /\ new.attested = IF e \in Syns THEN e.hash ELSE pc.attested
      /\ new.good = IF e \in Arrivals THEN [pc.good EXCEPT ![e.peer] = e.hash] ELSE pc.good
  BY AppliedSays
<1>2. Counted(pc, more) /\ Stands(e, more)
  BY CountedGrows
<1>3. e \in Arrivals => e = Con(e.peer, e.hash, TRUE) /\ e.peer \in Peers
  BY DEF Arrivals, Con
<1>4. e \in more /\ pc.good \in [Peers -> Hash]
  BY DEF PieceRecord
<1> HIDE DEF new, more
<1>5. ASSUME NEW q \in Verified(new)
      PROVE  Con(q, new.good[q], TRUE) \in more
  <2>1. CASE e \in Arrivals /\ q = e.peer
    <3>1. new.good[q] = e.hash
      BY <1>1, <1>3, <1>4, <2>1
    <3> QED
      BY <1>3, <1>4, <2>1, <3>1
  <2>2. CASE ~(e \in Arrivals /\ q = e.peer)
    <3>1. new.good[q] = pc.good[q] /\ q \in Peers /\ new.good[q] # None
      BY <1>1, <1>3, <1>4, <2>2 DEF Verified
    <3>2. q \in Verified(pc)
      BY <3>1 DEF Verified
    <3> QED
      BY <1>2, <3>1, <3>2 DEF Counted
  <2> QED
    BY <2>1, <2>2
<1>6. new.attested # None => Cardinality(DeliveredIn(more, new.attested)) >= SynThreshold
  BY <1>1, <1>2 DEF Counted, Stands
<1> QED
  BY <1>5, <1>6 DEF Counted, new, more

LEMMA SwarmNextCount == CountInv /\ [SwarmNext]_swarmVars => CountInv'
<1> SUFFICES ASSUME CountInv, [SwarmNext]_swarmVars
    PROVE  CountInv'
  OBVIOUS
<1>t. TypeOK /\ TypeOK' /\ Counted(piece, folded.keys)
  BY SwarmNextTypeOK DEF CountInv
<1>0. /\ piece \in PieceRecord /\ piece' \in PieceRecord /\ queue \in Seq(Event)
      /\ folded \in [keys : SUBSET Event, declared : BOOLEAN]
      /\ \A e \in Event : Said(e, queue) => Stands(e, folded.keys)
  BY <1>t DEF TypeOK, CountInv
\* A report that leaves the deliveries and the attestation alone.
<1>r. ASSUME NEW pc, piece' = pc, pc.good = piece.good, pc.attested = piece.attested,
             NEW entry, Tick(pc, entry, asked, queue, emitted), folded'.keys = folded.keys
      PROVE  CountInv'
  <2>1. Counted(pc, folded.keys)
    BY <1>t, <1>r DEF Counted, Verified
  <2> QED
    BY <1>t, <1>0, <1>r, <2>1, TickCount
<1>1. CASE OtherReport
  <2>1. /\ piece' = piece /\ folded' = folded
        /\ Tick(piece, flight, asked, queue, emitted)
    BY <1>1 DEF OtherReport
  <2> QED
    BY <2>1, <1>r
<1>2. CASE Seal
  <2> DEFINE pc == [piece EXCEPT !.author = holds[Author]]
  <2>1. piece' = pc /\ Tick(pc, flight, asked, queue, emitted) /\ folded' = folded
    BY <1>2 DEF Seal, Report
  <2>2. pc.good = piece.good /\ pc.attested = piece.attested
    BY <1>0 DEF PieceRecord
  <2> HIDE DEF pc
  <2> QED
    BY <2>1, <2>2, <1>r
<1>3. CASE Instantiate
  <2>1. PICK q \in Verified(piece) :
          /\ piece' = [piece EXCEPT !.inst = piece.good[q]]
          /\ Tick(piece', NoRequest, asked, queue, emitted)
    BY <1>3 DEF Instantiate
  <2>2. piece'.good = piece.good /\ piece'.attested = piece.attested
    BY <1>0, <2>1 DEF PieceRecord
  <2>3. folded'.keys = folded.keys
    BY <1>0, <1>3 DEF Instantiate
  <2> QED
    BY <2>1, <2>2, <2>3, <1>r
<1>4. ASSUME NEW q \in Peers, Advertise(q)
      PROVE  CountInv'
  <2> DEFINE pc == Signaled(piece, q, holds[q])
  <2>1. piece' = pc /\ Tick(pc, flight, asked, queue, emitted) /\ folded' = folded
    BY <1>4 DEF Advertise, Report
  <2>2. pc.good = piece.good /\ pc.attested = piece.attested
    BY <1>0 DEF Signaled, PieceRecord
  <2> HIDE DEF pc
  <2> QED
    BY <2>1, <2>2, <1>r
<1>6. ASSUME NEW m \in asked, Deliver(m)
      PROVE  CountInv'
  <2> DEFINE con  == Con(m.peer, m.hash, Accepts(m))
             told == queue \o Verdict(m, con)
  <2>1. UNCHANGED <<piece, folded>>
    BY <1>6 DEF Deliver
  <2>2. Verdict(m, con) \in Seq(Event) /\ told \in Seq(Event)
    BY <1>t, <1>0, VerdictType
  <2>3. \A e : Said(e, told) => Said(e, queue) \/ e = con \/ e = Bar(m.peer)
    BY <1>t, <1>0, <2>2, SaidConcat, VerdictSays
  <2>4. con.op = "CON" /\ Bar(m.peer).op = "REC"
    BY <1>t, VerdictSays
  <2>5. \A e : e.op \in {"CON", "REC"} => e \notin Syns
    BY DEF Syns
  <2> HIDE DEF told, con
  <2>6. \A e \in Event : Said(e, told) => Stands(e, folded.keys)
    BY <1>0, <2>3, <2>4, <2>5 DEF Stands
  <2>7. CASE Accepts(m)
    <3>1. queue' = told
      BY <1>6, <2>7 DEF Deliver, told, con
    <3> QED
      BY <1>t, <2>1, <2>6, <3>1 DEF CountInv
  <2>8. CASE ~Accepts(m)
    <3>1. Tick(piece, Without(flight, {m.peer}), asked \ {m}, told, emitted \union {con})
      BY <1>6, <2>8 DEF Deliver, told, con
    <3> QED
      BY <1>t, <1>0, <2>1, <2>2, <2>6, <3>1, TickCount
  <2> QED
    BY <2>7, <2>8
<1>7. CASE DropEvent
  <2>1. queue # << >> /\ queue' = Tail(queue) /\ UNCHANGED <<piece, folded>>
    BY <1>7 DEF DropEvent
  <2>2. \A e : Said(e, queue') => Said(e, queue)
    BY <1>0, <2>1, SaidTail
  <2> QED
    BY <1>t, <1>0, <2>1, <2>2 DEF CountInv
<1>8. CASE PromoteEvent
  <2>1. /\ piece' = piece /\ Tick(piece, NoRequest, asked, queue, emitted)
        /\ folded' = [folded EXCEPT !.declared = TRUE]
    BY <1>8 DEF PromoteEvent
  <2>2. folded'.keys = folded.keys
    BY <1>0, <2>1
  <2> QED
    BY <2>1, <2>2, <1>r
<1>9. CASE FoldEvent
  <2> DEFINE e  == Head(queue)
             pc == Applied(piece, e)
             more == folded.keys \union {e}
  <2>1. queue # << >>
    BY <1>9 DEF FoldEvent
  <2>2. /\ e \in Event /\ Said(e, queue) /\ Tail(queue) \in Seq(Event)
        /\ \A x : Said(x, Tail(queue)) => Said(x, queue)
    BY <1>0, <2>1, SaidTail
  <2>3. /\ piece' = pc /\ folded' = [folded EXCEPT !.keys = @ \union {e}]
        /\ Tick(pc, flight, asked, Tail(queue), emitted)
    BY <1>9 DEF FoldEvent
  <2>4. folded'.keys = more
    BY <1>0, <2>3
  <2> HIDE DEF e
  <2>5. Counted(pc, more)
    BY <1>t, <1>0, <2>2, AppliedCounted
  <2>6. \A x \in Event : Said(x, Tail(queue)) => Stands(x, more)
    BY <1>0, <2>2, CountedGrows
  <2>7. pc \in PieceRecord
    BY <1>0, <2>3
  <2> HIDE DEF pc, more
  <2> QED
    BY <1>t, <2>2, <2>3, <2>4, <2>5, <2>6, <2>7, TickCount
<1>10. CASE UNCHANGED swarmVars
  BY <1>t, <1>0, <1>10 DEF swarmVars, CountInv
<1> QED
  BY <1>1, <1>2, <1>3, <1>4, <1>6, <1>7, <1>8, <1>9, <1>10 DEF SwarmNext, HostStep

\* An attestation stands on the threshold of peers whose deliveries of the hash were
\* folded, for any peers, hashes and threshold, whatever answers are late or refused.
THEOREM AttestationsStand == SwarmSpec => []AttestedByMany
<1>1. CountInv => AttestedByMany
  BY DEF CountInv, Counted, DeliveredIn, AttestedByMany
<1> QED
  BY <1>1, SwarmInitCount, SwarmNextCount, PTL DEF SwarmSpec

-----------------------------------------------------------------------------
(* The fan-out. *)

FanoutInv == TypeOK /\ WithinFanout

LEMMA FewerPeers ==
  ASSUME NEW S \in SUBSET Peers, NEW T \in SUBSET S
  PROVE  Cardinality(T) <= Cardinality(S)
BY PeersFinite, FS_Subset

\* A tick that starts from requests within the fan-out ends with such.
LEMMA TickFanout ==
  ASSUME NEW pc \in PieceRecord,
         NEW entry \in [peers : SUBSET Peers, hash : Hash],
         entry.peers = {} <=> entry = NoRequest,
         NEW open, NEW waits, NEW ids,
         NEW max \in Fanouts, Cardinality(entry.peers) <= max,
         Tick(pc, entry, open, waits, ids)
  PROVE  WithinFanout'
<1>1. PICK late \in SUBSET entry.peers, here \in BOOLEAN, n \in Fanouts :
        \E picked \in Picks(pc, Without(entry, late), n) :
          TickWith(pc, here, Without(entry, late), open, waits, ids, n, picked)
  BY DEF Tick
<1> DEFINE left == Without(entry, late)
<1>2. PICK picked \in Picks(pc, left, n) :
        TickWith(pc, here, left, open, waits, ids, n, picked)
  BY <1>1
<1>3. left.peers \in SUBSET Peers /\ left.peers \subseteq entry.peers
  BY WithoutType
<1>4. /\ Cardinality(left.peers) \in Nat /\ Cardinality(entry.peers) \in Nat
      /\ IsFiniteSet(left.peers)
      /\ max \in Nat /\ n \in Nat /\ 1 <= n
  BY <1>3, PeersFinite, SwarmAssumption
<1>5. Cardinality(left.peers) <= max
  BY <1>3, <1>4, FewerPeers
<1> HIDE DEF left
<1> DEFINE new == IF Escalates(pc, here, left, n, picked) THEN {Author} ELSE picked
<1>6. flight'.peers = left.peers \union new
  BY <1>2 DEF TickWith
<1>7. CASE Escalates(pc, here, left, n, picked)
  <2>1. flight'.peers = left.peers \union {Author} /\ Cardinality(left.peers) < n
    BY <1>6, <1>7 DEF Escalates
  <2>2. Cardinality(left.peers \union {Author}) <= Cardinality(left.peers) + 1
    <3>1. Cardinality(left.peers \union {Author}) =
            IF Author \in left.peers THEN Cardinality(left.peers) ELSE Cardinality(left.peers) + 1
      BY <1>4, FS_AddElement
    <3> QED
      BY <1>4, <3>1
  <2>3. Cardinality(left.peers \union {Author}) \in Nat
    BY <1>3, PeersFinite, SwarmAssumption
  <2>4. Cardinality(flight'.peers) <= n
    BY <1>4, <2>1, <2>2, <2>3
  <2> QED
    BY <2>4 DEF WithinFanout
<1>8. CASE ~Escalates(pc, here, left, n, picked) /\ picked = {}
  <2>1. flight'.peers = left.peers
    BY <1>6, <1>8
  <2> QED
    BY <1>5, <2>1 DEF WithinFanout
<1>9. CASE ~Escalates(pc, here, left, n, picked) /\ picked # {}
  <2>1. flight'.peers = left.peers \union picked /\ picked \in SUBSET Peers
    BY <1>6, <1>9, PicksType
  <2>2. Cardinality(picked) + Cardinality(left.peers) <= n
    BY <1>9 DEF Picks
  <2>3. /\ IsFiniteSet(picked) /\ Cardinality(picked) \in Nat
        /\ Cardinality(left.peers \cap picked) \in Nat
    BY <2>1, PeersFinite
  <2>4. Cardinality(left.peers \union picked) =
          Cardinality(left.peers) + Cardinality(picked) - Cardinality(left.peers \cap picked)
    BY <1>4, <2>3, FS_Union
  <2>5. Cardinality(flight'.peers) <= n
    BY <1>4, <2>1, <2>2, <2>3, <2>4
  <2> QED
    BY <2>5 DEF WithinFanout
<1> QED
  BY <1>7, <1>8, <1>9

LEMMA SwarmNextFanout == FanoutInv /\ [SwarmNext]_swarmVars => FanoutInv'
<1> SUFFICES ASSUME FanoutInv, [SwarmNext]_swarmVars
    PROVE  FanoutInv'
  OBVIOUS
<1>t. TypeOK /\ TypeOK'
  BY SwarmNextTypeOK DEF FanoutInv
<1>0. /\ piece \in PieceRecord /\ piece' \in PieceRecord
      /\ flight \in [peers : SUBSET Peers, hash : Hash] /\ (flight.peers = {} <=> flight = NoRequest)
  BY <1>t DEF TypeOK
<1>m. PICK max \in Fanouts : Cardinality(flight.peers) <= max
  BY DEF FanoutInv, WithinFanout
<1>n. /\ NoRequest \in [peers : SUBSET Peers, hash : Hash] /\ NoRequest.peers = {}
      /\ Cardinality(NoRequest.peers) <= max
  BY FS_EmptySet, SwarmAssumption DEF NoRequest, Hash
<1>1. CASE OtherReport
  BY <1>t, <1>0, <1>m, <1>1, TickFanout DEF OtherReport, FanoutInv
<1>2. CASE Seal
  <2>1. Tick(piece', flight, asked, queue, emitted)
    BY <1>2 DEF Seal, Report
  <2> QED
    BY <1>t, <1>0, <1>m, <2>1, TickFanout DEF FanoutInv
<1>3. CASE Instantiate
  <2>1. Tick(piece', NoRequest, asked, queue, emitted)
    BY <1>3 DEF Instantiate
  <2> QED
    BY <1>t, <1>0, <1>n, <2>1, TickFanout DEF FanoutInv
<1>4. ASSUME NEW q \in Peers, Advertise(q)
      PROVE  FanoutInv'
  <2>1. Tick(piece', flight, asked, queue, emitted)
    BY <1>4 DEF Advertise, Report
  <2> QED
    BY <1>t, <1>0, <1>m, <2>1, TickFanout DEF FanoutInv
<1>6. ASSUME NEW m \in asked, Deliver(m)
      PROVE  FanoutInv'
  <2> DEFINE left == Without(flight, {m.peer})
             con  == Con(m.peer, m.hash, Accepts(m))
  <2>1. /\ left \in [peers : SUBSET Peers, hash : Hash]
        /\ left.peers = {} <=> left = NoRequest
        /\ left.peers \subseteq flight.peers
    BY <1>0, WithoutType
  <2>2. Cardinality(left.peers) <= max
    <3>1. /\ Cardinality(left.peers) <= Cardinality(flight.peers)
          /\ Cardinality(left.peers) \in Nat /\ Cardinality(flight.peers) \in Nat /\ max \in Nat
      BY <1>0, <2>1, FewerPeers, PeersFinite, SwarmAssumption
    <3> QED
      BY <1>m, <3>1
  <2>3. CASE Accepts(m)
    <3>1. flight' = left
      BY <1>6, <2>3 DEF Deliver
    <3> QED
      BY <1>t, <2>2, <3>1 DEF FanoutInv, WithinFanout
  <2>4. CASE ~Accepts(m)
    <3>1. Tick(piece, left, asked \ {m}, queue \o Verdict(m, con), emitted \union {con})
      BY <1>6, <2>4 DEF Deliver
    <3> HIDE DEF left, con
    <3> QED
      BY <1>t, <1>0, <2>1, <2>2, <3>1, TickFanout DEF FanoutInv
  <2> QED
    BY <2>3, <2>4
<1>7. CASE DropEvent
  BY <1>t, <1>7 DEF DropEvent, FanoutInv, WithinFanout
<1>8. CASE PromoteEvent
  BY <1>t, <1>0, <1>n, <1>8, TickFanout DEF PromoteEvent, FanoutInv
<1>9. CASE FoldEvent
  <2>1. Tick(piece', flight, asked, Tail(queue), emitted)
    BY <1>9 DEF FoldEvent
  <2> QED
    BY <1>t, <1>0, <1>m, <2>1, TickFanout DEF FanoutInv
<1>10. CASE UNCHANGED swarmVars
  BY <1>t, <1>10 DEF swarmVars, FanoutInv, WithinFanout
<1> QED
  BY <1>1, <1>2, <1>3, <1>4, <1>6, <1>7, <1>8, <1>9, <1>10 DEF SwarmNext, HostStep

\* The piece is never asked from more peers at a time than the largest fan-out, for any
\* peers and fan-outs, however requests, escalations and failures follow each other.
THEOREM FanoutHolds == SwarmSpec => []WithinFanout
<1>1. SwarmInit => FanoutInv
  <2> SUFFICES ASSUME SwarmInit PROVE WithinFanout
    BY SwarmInitTypeOK DEF FanoutInv
  <2>1. flight.peers = {} /\ Cardinality({}) = 0
    BY FS_EmptySet DEF SwarmInit, NoRequest
  <2>2. PICK n \in Fanouts : TRUE
    BY SwarmAssumption
  <2>3. n \in Nat
    BY SwarmAssumption
  <2> QED
    BY <2>1, <2>2, <2>3 DEF WithinFanout
<1>2. FanoutInv => WithinFanout
  BY DEF FanoutInv
<1> QED
  BY <1>1, <1>2, SwarmNextFanout, PTL DEF SwarmSpec

-----------------------------------------------------------------------------
(* The author's definition. *)

\* Definitions by the author's seal, and that no other waits behind one of them.
Seals == {e \in Defs : e.from = "author_seg"}
LastWord(s) ==
  \A i, j \in 1 .. Len(s) : i < j /\ s[i] \in Seals /\ s[j] \in Defs => s[j] \in Seals

\* The seals that wait and that are folded are of the author's hash.  Once one is folded,
\* it defines the piece and no other definition waits.
Sealed(pc, waits, keys) ==
  /\ \A e \in Seals : Said(e, waits) => e.hash = pc.author
  /\ LastWord(waits)
  /\ \A e \in Seals : e \in keys => e.hash = pc.author /\ pc.defined = pc.author
  /\ keys \cap Seals # {} => \A e \in Defs : Said(e, waits) => e \in Seals

SealInv ==
  /\ TypeOK
  /\ piece.author \in {None, holds[Author]}
  /\ Sealed(piece, queue, folded.keys)

LEMMA SealHash == \A e \in Seals : e \in Defs /\ e.hash \in Hashes /\ e.hash # None
BY SwarmAssumption DEF Seals, Defs

\* Nothing is sealed as long as the author is not known.
LEMMA UnsealedSays ==
  ASSUME NEW pc, NEW waits, NEW keys, Sealed(pc, waits, keys), pc.author = None
  PROVE  /\ \A e \in Seals : ~Said(e, waits) /\ e \notin keys
BY SealHash DEF Sealed

LEMMA ConcatLast ==
  ASSUME NEW s \in Seq(Event), NEW t \in Seq(Event), LastWord(s),
         \/ \A e \in Defs : Said(e, t) => e \in Seals
         \/ /\ \A e \in Seals : ~Said(e, s)
            /\ \A e \in Seals : ~Said(e, t)
  PROVE  LastWord(s \o t)
<1> DEFINE u == s \o t
<1> HIDE DEF Event
<1>1. Len(u) = Len(s) + Len(t) /\ Len(s) \in Nat /\ Len(t) \in Nat /\ u \in Seq(Event)
  OBVIOUS
<1>2. \A i \in 1 .. Len(u) : i <= Len(s) => i \in 1 .. Len(s) /\ u[i] = s[i]
  BY <1>1
<1>3. ASSUME NEW i \in 1 .. Len(u), ~(i <= Len(s)) PROVE Said(u[i], t)
  <2>1. i - Len(s) \in 1 .. Len(t) /\ u[i] = t[i - Len(s)]
    BY <1>1, <1>3
  <2> QED
    BY <2>1 DEF Said
<1>4. \A i \in 1 .. Len(u) : Said(u[i], s) \/ Said(u[i], t)
  BY <1>2, <1>3 DEF Said
<1> HIDE DEF u
<1>5. SUFFICES ASSUME NEW i \in 1 .. Len(u), NEW j \in 1 .. Len(u),
                      i < j, u[i] \in Seals, u[j] \in Defs
               PROVE  u[j] \in Seals
  BY DEF LastWord, u
<1>6. CASE j <= Len(s)
  <2>1. i <= Len(s)
    BY <1>1, <1>5, <1>6
  <2> QED
    BY <1>2, <1>5, <1>6, <2>1 DEF LastWord
<1>7. CASE ~(j <= Len(s))
  BY <1>3, <1>4, <1>5, <1>7
<1> QED
  BY <1>6, <1>7

LEMMA TailLast ==
  ASSUME NEW s \in Seq(Event), s # << >>, LastWord(s)
  PROVE  /\ LastWord(Tail(s))
         /\ Head(s) \in Seals => \A e \in Defs : Said(e, Tail(s)) => e \in Seals
<1> HIDE DEF Event
<1>1. /\ Len(s) \in Nat /\ Len(s) # 0 /\ Len(Tail(s)) = Len(s) - 1
      /\ Head(s) = s[1] /\ \A i \in 1 .. Len(s) - 1 : Tail(s)[i] = s[i + 1]
  OBVIOUS
<1>2. \A i \in 1 .. Len(s) - 1 : i + 1 \in 1 .. Len(s) /\ 1 < i + 1 /\ 1 \in 1 .. Len(s)
  BY <1>1
<1>3. \A i, j \in 1 .. Len(s) - 1 : i < j => i + 1 < j + 1
  OBVIOUS
<1>4. LastWord(Tail(s))
  <2> SUFFICES ASSUME NEW i \in 1 .. Len(s) - 1, NEW j \in 1 .. Len(s) - 1,
                      i < j, Tail(s)[i] \in Seals, Tail(s)[j] \in Defs
      PROVE  Tail(s)[j] \in Seals
    BY <1>1 DEF LastWord
  <2>1. Tail(s)[i] = s[i + 1] /\ Tail(s)[j] = s[j + 1]
    BY <1>1
  <2>2. i + 1 \in 1 .. Len(s) /\ j + 1 \in 1 .. Len(s) /\ i + 1 < j + 1
    BY <1>2, <1>3
  <2> QED
    BY <2>1, <2>2 DEF LastWord
<1>5. ASSUME Head(s) \in Seals, NEW e \in Defs, Said(e, Tail(s)) PROVE e \in Seals
  <2>1. PICK i \in 1 .. Len(s) - 1 : Tail(s)[i] = e
    BY <1>1, <1>5 DEF Said
  <2>2. s[i + 1] = e /\ s[1] \in Seals
    BY <1>1, <1>5, <2>1
  <2> QED
    BY <1>2, <1>5, <2>2 DEF LastWord
<1> QED
  BY <1>4, <1>5

\* What is derived is sealed if the author is known, and only then.
LEMMA DerivedSeals ==
  ASSUME NEW pc \in PieceRecord, NEW here \in BOOLEAN, NEW e \in Derived(pc, here), e \in Defs
  PROVE  IF pc.author # None THEN e \in Seals /\ e.hash = pc.author ELSE e \notin Seals
<1>1. e \in DerivedDef(pc)
  <2>1. e \notin DerivedSyn(pc)
    BY SynDerived DEF Defs
  <2>2. e # Lost
    BY LostDerived DEF Defs
  <2> QED
    BY <2>1, <2>2 DEF Derived, DerivedLost
<1>2. CASE pc.author # None
  <2>1. e = Def(pc.author, "author_seg")
    BY <1>1, <1>2 DEF DerivedDef
  <2>2. e.hash = pc.author /\ e.from = "author_seg"
    BY <2>1 DEF Def
  <2> QED
    BY <1>2, <2>2 DEF Seals
<1>3. CASE pc.author = None
  <2>1. \E h : e = Def(h, "swarm_attestation") \/ e = Def(h, "single_verified_delivery")
    BY <1>1, <1>3 DEF DerivedDef
  <2>2. e.from # "author_seg"
    BY <2>1 DEF Def
  <2> QED
    BY <1>3, <2>2 DEF Seals
<1> QED
  BY <1>2, <1>3

\* A tick adds a seal behind what waits if the author is known, and other definitions
\* only if nothing is sealed.
LEMMA TickSealed ==
  ASSUME NEW pc \in PieceRecord, NEW keys, NEW entry, NEW open, NEW ids,
         NEW waits \in Seq(Event), Sealed(pc, waits, keys),
         Tick(pc, entry, open, waits, ids)
  PROVE  Sealed(pc, queue', keys)
<1>1. PICK late \in SUBSET entry.peers, here \in BOOLEAN, n \in Fanouts :
        \E picked \in Picks(pc, Without(entry, late), n) :
          TickWith(pc, here, Without(entry, late), open, waits, ids, n, picked)
  BY DEF Tick
<1> DEFINE t == Fresh(pc, here, ids)
<1>2. queue' = waits \o t
  BY <1>1 DEF TickWith
<1>3. t \in Seq(Derived(pc, here))
  BY FreshType
<1>4. t \in Seq(Event)
  <2>1. Derived(pc, here) \subseteq Event
    BY DerivedType
  <2> HIDE DEF t, Event
  <2>2. \A S, T : S \subseteq T => Seq(S) \subseteq Seq(T)
    OBVIOUS
  <2> QED
    BY <1>3, <2>1, <2>2
<1>5. \A e : Said(e, t) => e \in Derived(pc, here)
  <2> HIDE DEF t
  <2> QED
    BY <1>3, ElementType DEF Said
<1> HIDE DEF t
<1>6. \A e : Said(e, queue') <=> Said(e, waits) \/ Said(e, t)
  BY <1>2, <1>4, SaidConcat
<1>7. CASE pc.author # None
  <2>1. \A e \in Defs : Said(e, t) => e \in Seals /\ e.hash = pc.author
    BY <1>5, <1>7, DerivedSeals
  <2>2. LastWord(queue')
    BY <1>2, <1>4, <2>1, ConcatLast DEF Sealed
  <2>3. \A e \in Seals : e \in Defs
    BY SealHash
  <2> QED
    BY <1>6, <2>1, <2>2, <2>3 DEF Sealed
<1>8. CASE pc.author = None
  <2>1. \A e \in Seals : ~Said(e, waits) /\ e \notin keys
    BY <1>8, UnsealedSays
  <2>2. \A e \in Seals : ~Said(e, t)
    BY <1>5, <1>8, DerivedSeals, SealHash
  <2>3. LastWord(queue')
    BY <1>2, <1>4, <2>1, <2>2, ConcatLast DEF Sealed
  <2> QED
    BY <1>6, <2>1, <2>2, <2>3 DEF Sealed
<1> QED
  BY <1>7, <1>8

\* A report about a piece whose author and definition it leaves alone.
LEMMA QuietSealed ==
  ASSUME NEW pc, NEW waits, NEW keys, NEW new, Sealed(pc, waits, keys),
         new.author = pc.author, new.defined = pc.defined
  PROVE  Sealed(new, waits, keys)
BY DEF Sealed

\* The author's seal, reported for the first time or again.
LEMMA SealSealed ==
  ASSUME NEW pc, NEW waits, NEW keys, NEW new, Sealed(pc, waits, keys),
         pc.author \in {None, new.author}, new.defined = pc.defined
  PROVE  Sealed(new, waits, keys)
<1>1. CASE pc.author = new.author
  BY <1>1, QuietSealed
<1>2. CASE pc.author = None
  BY <1>2, UnsealedSays DEF Sealed
<1> QED
  BY <1>1, <1>2

\* A delivery adds no definition.
LEMMA DeliverSealed ==
  ASSUME SealInv, NEW m \in asked
  PROVE  LET told == queue \o Verdict(m, Con(m.peer, m.hash, Accepts(m))) IN
         told \in Seq(Event) /\ Sealed(piece, told, folded.keys)
<1> DEFINE con == Con(m.peer, m.hash, Accepts(m))
           t == Verdict(m, con)
<1>0. TypeOK /\ queue \in Seq(Event)
  BY DEF SealInv, TypeOK
<1>1. t \in Seq(Event) /\ con.op = "CON" /\ Bar(m.peer).op = "REC"
      /\ \A e : Said(e, t) => e = con \/ e = Bar(m.peer)
  BY <1>0, VerdictType, VerdictSays
<1> HIDE DEF t, con
<1>2. \A e \in Defs : e.op = "DEF"
  BY DEF Defs
<1>3. \A e \in Defs : ~Said(e, t)
  BY <1>1, <1>2
<1>4. \A e : Said(e, queue \o t) <=> Said(e, queue) \/ Said(e, t)
  BY <1>0, <1>1, SaidConcat
<1>5. LastWord(queue \o t)
  BY <1>0, <1>1, <1>3, ConcatLast DEF SealInv, Sealed
<1>6. queue \o t \in Seq(Event)
  <2> HIDE DEF Event
  <2> QED
    BY <1>0, <1>1
<1>7. \A e \in Seals : e \in Defs
  BY SealHash
<1>8. Sealed(piece, queue \o t, folded.keys)
  BY <1>3, <1>4, <1>5, <1>7 DEF SealInv, Sealed
<1> QED
  BY <1>6, <1>8 DEF t, con

\* The first event that waits is folded.
LEMMA FoldSealed ==
  ASSUME SealInv, queue # << >>
  PROVE  Sealed(Applied(piece, Head(queue)), Tail(queue), folded.keys \union {Head(queue)})
<1> DEFINE e == Head(queue)
           pc == Applied(piece, e)
           waits == Tail(queue)
           keys == folded.keys
<1>0. /\ piece \in PieceRecord /\ queue \in Seq(Event)
      /\ Sealed(piece, queue, keys)
  BY DEF SealInv, TypeOK
<1>1. e \in Event /\ Said(e, queue) /\ \A x : Said(x, waits) => Said(x, queue)
  BY <1>0, SaidTail
<1>2. pc.author = piece.author /\ pc.defined = IF e \in Defs THEN e.hash ELSE piece.defined
  BY <1>0, <1>1, AppliedSays
<1>3. LastWord(waits) /\ (e \in Seals => \A x \in Defs : Said(x, waits) => x \in Seals)
  BY <1>0, TailLast DEF Sealed
<1>4. \A x \in Seals : x \in Defs
  BY SealHash
<1> HIDE DEF e, pc, waits, keys
<1>5. \A x \in Seals : Said(x, waits) => x.hash = pc.author
  BY <1>0, <1>1, <1>2 DEF Sealed
<1>6. CASE e \in Seals
  <2>1. e.hash = piece.author /\ pc.defined = piece.author
    BY <1>0, <1>1, <1>2, <1>4, <1>6 DEF Sealed
  <2>2. \A x \in Seals : x \in keys \union {e} => x.hash = pc.author /\ pc.defined = pc.author
    BY <1>0, <1>2, <2>1 DEF Sealed
  <2> QED
    BY <1>3, <1>5, <1>6, <2>2 DEF Sealed, e, pc, waits, keys
<1>7. CASE e \in Defs /\ e \notin Seals
  <2>1. keys \cap Seals = {}
    BY <1>0, <1>1, <1>7 DEF Sealed
  <2>2. (keys \union {e}) \cap Seals = {}
    BY <1>7, <2>1
  <2> QED
    BY <1>3, <1>5, <2>2 DEF Sealed, e, pc, waits, keys
<1>8. CASE e \notin Defs
  <2>1. (keys \union {e}) \cap Seals = keys \cap Seals /\ pc.defined = piece.defined
    BY <1>2, <1>4, <1>8
  <2>2. \A x \in Seals : x \in keys \union {e} => x.hash = pc.author /\ pc.defined = pc.author
    BY <1>0, <1>2, <2>1 DEF Sealed
  <2>3. (keys \union {e}) \cap Seals # {} => \A x \in Defs : Said(x, waits) => x \in Seals
    BY <1>0, <1>1, <2>1 DEF Sealed
  <2> QED
    BY <1>3, <1>5, <2>2, <2>3 DEF Sealed, e, pc, waits, keys
<1> QED
  BY <1>6, <1>7, <1>8

LEMMA SwarmNextSeal == SealInv /\ [SwarmNext]_swarmVars => SealInv'
<1> SUFFICES ASSUME SealInv, [SwarmNext]_swarmVars
    PROVE  SealInv'
  OBVIOUS
<1>t. TypeOK /\ TypeOK' /\ Sealed(piece, queue, folded.keys) /\ piece.author \in {None, holds[Author]}
  BY SwarmNextTypeOK DEF SealInv
<1>0. /\ piece \in PieceRecord /\ piece' \in PieceRecord /\ queue \in Seq(Event)
      /\ folded \in [keys : SUBSET Event, declared : BOOLEAN]
  BY <1>t DEF TypeOK
\* A step that ends in a tick.
<1>r. ASSUME NEW keys, NEW entry, NEW open, NEW waits \in Seq(Event), NEW ids,
             Sealed(piece', waits, keys), Tick(piece', entry, open, waits, ids),
             folded'.keys = keys, holds' = holds, piece'.author \in {None, holds[Author]}
      PROVE  SealInv'
  <2>1. Sealed(piece', queue', keys)
    BY <1>0, <1>r, TickSealed
  <2> QED
    BY <1>t, <1>r, <2>1 DEF SealInv
<1>1. CASE OtherReport
  <2>1. /\ piece' = piece /\ folded' = folded /\ holds' = holds
        /\ Tick(piece, flight, asked, queue, emitted)
    BY <1>1 DEF OtherReport
  <2> QED
    BY <1>t, <1>0, <1>r, <2>1
<1>2. CASE Seal
  <2>1. /\ piece' = [piece EXCEPT !.author = holds[Author]]
        /\ Tick(piece', flight, asked, queue, emitted) /\ folded' = folded /\ holds' = holds
    BY <1>2 DEF Seal, Report
  <2>2. piece'.author = holds[Author] /\ piece'.defined = piece.defined
    BY <1>0, <2>1 DEF PieceRecord
  <2>3. Sealed(piece', queue, folded.keys)
    BY <1>t, <2>2, SealSealed
  <2> QED
    BY <1>0, <1>r, <2>1, <2>2, <2>3
<1>3. CASE Instantiate
  <2>1. PICK q \in Verified(piece) :
          /\ piece' = [piece EXCEPT !.inst = piece.good[q]]
          /\ Tick(piece', NoRequest, asked, queue, emitted)
    BY <1>3 DEF Instantiate
  <2>2. piece'.author = piece.author /\ piece'.defined = piece.defined
    BY <1>0, <2>1 DEF PieceRecord
  <2>3. folded'.keys = folded.keys /\ holds' = holds
    BY <1>0, <1>3 DEF Instantiate
  <2>4. Sealed(piece', queue, folded.keys)
    BY <1>t, <2>2, QuietSealed
  <2> QED
    BY <1>t, <1>0, <1>r, <2>1, <2>2, <2>3, <2>4
<1>4. ASSUME NEW q \in Peers, Advertise(q)
      PROVE  SealInv'
  <2>1. /\ piece' = Signaled(piece, q, holds[q])
        /\ Tick(piece', flight, asked, queue, emitted) /\ folded' = folded /\ holds' = holds
    BY <1>4 DEF Advertise, Report
  <2>2. piece'.author = piece.author /\ piece'.defined = piece.defined
    BY <1>0, <2>1 DEF Signaled, PieceRecord
  <2>3. Sealed(piece', queue, folded.keys)
    BY <1>t, <2>2, QuietSealed
  <2> QED
    BY <1>t, <1>0, <1>r, <2>1, <2>2, <2>3
<1>6. ASSUME NEW m \in asked, Deliver(m)
      PROVE  SealInv'
  <2> DEFINE con  == Con(m.peer, m.hash, Accepts(m))
             told == queue \o Verdict(m, con)
  <2>1. UNCHANGED <<holds, piece, folded>>
    BY <1>6 DEF Deliver
  <2>2. told \in Seq(Event) /\ Sealed(piece, told, folded.keys)
    BY DeliverSealed
  <2>3. CASE Accepts(m)
    <3>1. queue' = told
      BY <1>6, <2>3 DEF Deliver
    <3> HIDE DEF told
    <3> QED
      BY <1>t, <2>1, <2>2, <3>1 DEF SealInv
  <2>4. CASE ~Accepts(m)
    <3>1. Tick(piece, Without(flight, {m.peer}), asked \ {m}, told, emitted \union {con})
      BY <1>6, <2>4 DEF Deliver
    <3> HIDE DEF told, con
    <3> QED
      BY <1>t, <1>r, <2>1, <2>2, <3>1
  <2> QED
    BY <2>3, <2>4
<1>7. CASE DropEvent
  <2>1. queue # << >> /\ queue' = Tail(queue) /\ UNCHANGED <<holds, piece, folded>>
    BY <1>7 DEF DropEvent
  <2>2. \A e : Said(e, queue') => Said(e, queue)
    BY <1>0, <2>1, SaidTail
  <2>3. LastWord(queue')
    BY <1>t, <1>0, <2>1, TailLast DEF Sealed
  <2>4. Sealed(piece, queue', folded.keys)
    BY <1>t, <2>2, <2>3 DEF Sealed
  <2> QED
    BY <1>t, <2>1, <2>4 DEF SealInv
<1>8. CASE PromoteEvent
  <2>1. /\ piece' = piece /\ holds' = holds /\ Tick(piece, NoRequest, asked, queue, emitted)
        /\ folded' = [folded EXCEPT !.declared = TRUE]
    BY <1>8 DEF PromoteEvent
  <2>2. folded'.keys = folded.keys
    BY <1>0, <2>1
  <2> QED
    BY <1>t, <1>0, <1>r, <2>1, <2>2
<1>9. CASE FoldEvent
  <2> DEFINE e == Head(queue)
             more == folded.keys \union {e}
  <2>1. queue # << >>
    BY <1>9 DEF FoldEvent
  <2>2. Sealed(Applied(piece, e), Tail(queue), more)
    BY <2>1, FoldSealed
  <2>3. /\ piece' = Applied(piece, e) /\ folded' = [folded EXCEPT !.keys = @ \union {e}]
        /\ Tick(piece', flight, asked, Tail(queue), emitted) /\ holds' = holds
    BY <1>9 DEF FoldEvent
  <2>4. folded'.keys = more
    BY <1>0, <2>3
  <2>5. e \in Event /\ Tail(queue) \in Seq(Event)
    BY <1>0, <2>1, SaidTail
  <2> HIDE DEF e, more
  <2>6. piece'.author = piece.author
    BY <1>0, <2>3, <2>5, AppliedSays
  <2>7. Sealed(piece', Tail(queue), more)
    BY <2>2, <2>3
  <2> QED
    BY <1>t, <1>r, <2>3, <2>4, <2>5, <2>6, <2>7
<1>10. CASE UNCHANGED swarmVars
  BY <1>t, <1>10 DEF swarmVars, SealInv
<1> QED
  BY <1>1, <1>2, <1>3, <1>4, <1>6, <1>7, <1>8, <1>9, <1>10 DEF SwarmNext, HostStep

LEMMA SwarmInitSeal == SwarmInit => SealInv
<1> SUFFICES ASSUME SwarmInit PROVE SealInv
  OBVIOUS
<1>1. /\ piece.author = None /\ folded.keys = {} /\ queue = << >>
      /\ \A e : ~Said(e, queue)
  BY DEF SwarmInit, EmptyPiece, Said
<1>2. LastWord(queue)
  BY <1>1 DEF LastWord
<1> QED
  BY <1>1, <1>2, SwarmInitTypeOK DEF SealInv, Sealed

\* A definition by the author's seal stands once it is folded, for any peers, holdings
\* and threshold, whatever deliveries were under way when the seal came: no other
\* definition waits behind it, and none is derived while the author is known.
THEOREM SealOutlasts == SwarmSpec => []SealStands
<1>1. SealInv => SealStands
  <2> SUFFICES ASSUME SealInv, Def(piece.author, "author_seg") \in folded.keys
      PROVE  piece.defined = piece.author
    BY DEF SealStands
  <2> DEFINE e == Def(piece.author, "author_seg")
  <2>1. e \in Event /\ e.op = "DEF" /\ e.from = "author_seg"
    BY DEF SealInv, TypeOK, Def
  <2> HIDE DEF e
  <2>2. e \in Defs
    BY <2>1, LostDerived DEF Event, Arrivals, Failures, Bars, Syns
  <2>3. e \in Seals /\ e \in folded.keys
    BY <2>1, <2>2 DEF Seals, e
  <2> QED
    BY <2>3 DEF SealInv, Sealed
<1> QED
  BY <1>1, SwarmInitSeal, SwarmNextSeal, PTL DEF SwarmSpec
=============================================================================
