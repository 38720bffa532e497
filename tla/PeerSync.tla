------------------------------- MODULE PeerSync -------------------------------
(***************************************************************************)
(* How the devices of a space fill each other's gaps with to-device        *)
(* messages (app/src/matrix/peer-sync.ts): hello, offer, request, events.  *)
(*                                                                         *)
(* A device folds its user's edits, numbers them in its own log and sends  *)
(* each to its peers.  Now and then it announces its seq and a fingerprint *)
(* of its rows; a peer that has a higher seq or another fingerprint offers *)
(* its events, and is asked for those after a seq, or for all of them.     *)
(* What arrives is folded by the bulk path, which skips what it knows and  *)
(* gives up a batch whose INS meets a target that another INS has made.    *)
(*                                                                         *)
(* Each device is that of another user, and a message is lost when nobody  *)
(* listens for it.  Messages are handled one at a time (handlerChain).     *)
(***************************************************************************)
EXTENDS Integers, FiniteSets, Functions

CONSTANTS
  Devices, Targets,
  Edits,           \* what users do: [id, op, target], the op INS or DEF
  BatchSize,       \* BATCH_SIZE: events in a message
  MaxSeq, MaxNet   \* bounds: seqs a device may use, messages on their way at an announcement

Synthetic(d, t) == [id |-> d, op |-> "INS", target |-> t]
Event == Edits \union {Synthetic(d, t) : d \in Devices, t \in Targets}

ASSUME PeerAssumption ==
  /\ IsFiniteSet(Event)
  /\ Edits \subseteq [id : {e.id : e \in Edits} \ Devices, op : {"INS", "DEF"}, target : Targets]
  /\ BatchSize \in Nat \ {0} /\ MaxSeq \in Nat /\ MaxNet \in Nat

VARIABLES
  store,     \* of each device: the seq counter, and the log as the seq of each event in it
  net,       \* messages on their way
  due        \* what a device has been offered in full, by whom (history)

peerVars == <<store, net, due>>

-----------------------------------------------------------------------------
(* Stores. *)

\* What a log holds, and what a message of events carries.
IsEntries(f) == DOMAIN f \subseteq Event /\ \A e \in DOMAIN f : f[e] \in Nat \ {0}

Entry(e, s) == [x \in {e} |-> s]

EmptyStore == [seq |-> 0, log |-> << >>]

\* checkExists, and the declared INS of the helix position.
Exists(st, t) == \E e \in DOMAIN st.log : e.op = "INS" /\ e.target = t

\* storeFingerprint: the last_seq of every row.  The rows' hash is never set.
LastSeq(st, t) ==
  LET seqs == {st.log[e] : e \in {x \in DOMAIN st.log : x.target = t}} \union {0}
  IN CHOOSE s \in seqs : \A r \in seqs : r <= s
storeFingerprint(st) == [t \in Targets |-> LastSeq(st, t)]

\* readLogSince.
readLogSince(st, s) == Restrict(st.log, {e \in DOMAIN st.log : st.log[e] > s})

\* Mutant: places are counted from zero.
RankFromZero(w, e) == Cardinality({f \in DOMAIN w : w[f] < w[e]})

\* The place of an event among entries.
Rank(w, e) == Cardinality({f \in DOMAIN w : w[f] <= w[e]})

\* Mutant: an event that is known is folded again.
KnownToNobody(st, e) == FALSE

\* The idempotency check.
Known(st, e) == e \in DOMAIN st.log

\* Mutant: a target may be instantiated again.
ClashesNever(st, e) == FALSE

\* An INS of a target that another INS has made: the fold throws.
Clashes(st, e) == ~Known(st, e) /\ e.op = "INS" /\ Exists(st, e.target)

\* Mutant: seqs are reserved for the events that are folded, and taken by all.
ReservedNew(st, w) == st.seq + Cardinality({e \in DOMAIN w : ~Known(st, e) /\ ~Clashes(st, e)})

\* SeqReservoir: a seq for every event of the wave, folded or not.
Reserved(st, w) == st.seq + Cardinality(DOMAIN w)

\* A wave of entries, folded in their order.
FoldWave(st, w) ==
  LET new == {e \in DOMAIN w : ~Known(st, e) /\ ~Clashes(st, e)} IN
  [seq |-> Reserved(st, w),
   log |-> [e \in DOMAIN st.log \union new |->
              IF e \in new THEN st.seq + Rank(w, e) ELSE st.log[e]]]

\* The first seq of a target among entries.
First(w, t) ==
  LET seqs == {w[e] : e \in {x \in DOMAIN w : x.target = t}}
  IN CHOOSE s \in seqs : \A r \in seqs : s <= r

\* Mutant: the synthetic INS comes after the events that need it.
ExpandedLate(st, d, w) ==
  LET made == {Synthetic(d, e.target) : e \in {x \in DOMAIN w : ~Exists(st, x.target)}} IN
  [e \in DOMAIN w \union made |->
     IF e \in made THEN 2 * First(w, e.target) + 1 ELSE 2 * w[e]]

\* The pre-pass of a wave of DEF: an INS in front of the first event of every target
\* that has none.
Expanded(st, d, w) ==
  LET made == {Synthetic(d, e.target) : e \in {x \in DOMAIN w : ~Exists(st, x.target)}} IN
  [e \in DOMAIN w \union made |->
     IF e \in made THEN 2 * First(w, e.target) - 1 ELSE 2 * w[e]]

Those(w, op) == Restrict(w, {e \in DOMAIN w : e.op = op})
Rejects(st, w) == \E e \in DOMAIN w : Clashes(st, e)

\* processEventsBulk: the INS first, then the DEF, unless an INS has thrown.
Imported(st, d, w) ==
  LET made == FoldWave(st, Those(w, "INS")) IN
  IF Rejects(st, w) THEN made ELSE FoldWave(made, Expanded(made, d, Those(w, "DEF")))

-----------------------------------------------------------------------------
(* Messages. *)

Hello(d, p, st)      == [kind |-> "hello", from |-> d, to |-> p,
                         seq |-> st.seq, print |-> storeFingerprint(st)]
Offer(d, p, has, ok) == [kind |-> "offer", from |-> d, to |-> p, has |-> has, match |-> ok]
Request(d, p, s)     == [kind |-> "request", from |-> d, to |-> p, need |-> s]
Events(d, p, w)      == [kind |-> "events", from |-> d, to |-> p, batch |-> w]

Peers(d) == Devices \ {d}

\* sendEventsToPeer: in batches, in the order of the log.
InBatches(w) ==
  {Restrict(w, {f \in DOMAIN w : (Rank(w, f) - 1) \div BatchSize = (Rank(w, e) - 1) \div BatchSize}) :
     e \in DOMAIN w}

IsMessage(m) ==
  /\ m.from \in Devices /\ m.to \in Devices /\ m.from # m.to
  /\ m.kind \in {"hello", "offer", "request", "events"}
  /\ m.kind = "hello" => m.seq \in Nat /\ DOMAIN m.print = Targets
  /\ m.kind = "offer" => m.has \in BOOLEAN /\ m.match \in BOOLEAN
  /\ m.kind = "request" => m.need \in Nat
  /\ m.kind = "events" => IsEntries(m.batch)

TypeOK ==
  /\ DOMAIN store = Devices
  /\ \A d \in Devices : store[d].seq \in Nat /\ IsEntries(store[d].log)
  /\ \A m \in net : IsMessage(m)
  /\ due \in [Devices \X Devices -> SUBSET Event]

PeerInit ==
  /\ store = [d \in Devices |-> EmptyStore]
  /\ net = {}
  /\ due = [dp \in Devices \X Devices |-> {}]

-----------------------------------------------------------------------------
(* The actions of a device. *)

\* dispatch: the edit, and the INS that it may need, are folded and sent to all peers.
Dispatch(d, e) ==
  LET st   == store[d]
      wave == IF e.op = "DEF" THEN Expanded(st, d, Entry(e, 1)) ELSE Entry(e, 1)
      new  == FoldWave(st, wave) IN
  /\ \A p \in Devices : ~Known(store[p], e)
  /\ ~Clashes(st, e)
  /\ new.seq <= MaxSeq
  /\ store' = [store EXCEPT ![d] = new]
  /\ net' = net \union {Events(d, p, Entry(x, new.log[x])) : p \in Peers(d), x \in DOMAIN wave}
  /\ UNCHANGED due

\* announceToPeers, from start or the heartbeat.
Announce(d) ==
  /\ Cardinality(net) < MaxNet
  /\ net' = net \union {Hello(d, p, store[d]) : p \in Peers(d)}
  /\ UNCHANGED <<store, due>>

\* has_events_you_need.
Offers(st, seq, match) == st.seq > seq \/ (~match /\ st.seq > 0)

\* handleHello.
HandleHello(m) ==
  LET st    == store[m.to]
      match == storeFingerprint(st) = m.print IN
  /\ m.kind = "hello"
  /\ net' = (net \ {m}) \union {Offer(m.to, m.from, Offers(st, m.seq, match), match)}
  /\ due' = IF match \/ st.seq = 0 THEN due
            ELSE [due EXCEPT ![<<m.from, m.to>>] = DOMAIN st.log]
  /\ UNCHANGED store

\* Mutant: the events after the device's own seq, whatever the fingerprints.
NeedOfOwn(st, match) == st.seq

\* need_from.
NeedFrom(st, match) == IF match THEN st.seq ELSE 0

\* handleOffer, by way of Matrix.
HandleOffer(m) ==
  /\ m.kind = "offer"
  /\ net' = (net \ {m}) \union
              (IF m.has THEN {Request(m.to, m.from, NeedFrom(store[m.to], m.match))} ELSE {})
  /\ UNCHANGED <<store, due>>

\* sendEventsToPeer.
HandleRequest(m) ==
  /\ m.kind = "request"
  /\ net' = (net \ {m}) \union
              {Events(m.to, m.from, w) : w \in InBatches(readLogSince(store[m.to], m.need))}
  /\ UNCHANGED <<store, due>>

\* processIncomingPeerEvents, with batchImport as bulkApply.
HandleEvents(m) ==
  LET new == Imported(store[m.to], m.to, m.batch) IN
  /\ m.kind = "events" /\ new.seq <= MaxSeq
  /\ store' = [store EXCEPT ![m.to] = new]
  /\ net' = net \ {m}
  /\ UNCHANGED due

\* Nobody listens: the space is closed, or the page is reloaded.
Lose(m) ==
  /\ net' = net \ {m}
  /\ due' = [dp \in Devices \X Devices |->
               IF m.kind # "hello" /\ {m.from, m.to} = {dp[1], dp[2]} THEN {} ELSE due[dp]]
  /\ UNCHANGED store

PeerNext ==
  \/ \E d \in Devices : Announce(d)
  \/ \E d \in Devices, e \in Edits : Dispatch(d, e)
  \/ \E m \in net : HandleHello(m)
  \/ \E m \in net : HandleOffer(m)
  \/ \E m \in net : HandleRequest(m)
  \/ \E m \in net : HandleEvents(m)
  \/ \E m \in net : Lose(m)

PeerSpec == PeerInit /\ [][PeerNext]_peerVars

-----------------------------------------------------------------------------
(* Properties. *)

\* A log holds one INS for a target, also when two devices have made one each.
InstantiatedOnce ==
  \A d \in Devices : \A e, f \in DOMAIN store[d].log :
    e.op = "INS" /\ f.op = "INS" /\ e.target = f.target => e = f

\* No seq is given twice, and none is ahead of the counter, whatever a batch repeats of
\* what is known already or was rejected in the middle.
SeqsDistinct ==
  \A d \in Devices : LET log == store[d].log IN
    /\ \A e, f \in DOMAIN log : log[e] = log[f] => e = f
    /\ \A e \in DOMAIN log : log[e] <= store[d].seq

\* Every event comes after the INS of its target, in whatever order peers sent them.
ConstitutedFirst ==
  \A d \in Devices : LET log == store[d].log IN
    \A e \in DOMAIN log : \E f \in DOMAIN log :
      f.op = "INS" /\ f.target = e.target /\ log[f] <= log[e]

\* An event that comes again, from whomever, does not change its place in a log.
EntriesStand ==
  [][\A d \in Devices : \A e \in DOMAIN store[d].log :
       e \in DOMAIN store'[d].log /\ store'[d].log[e] = store[d].log[e]]_peerVars

Between(d, p) == {m \in net : m.kind # "hello" /\ {m.from, m.to} = {d, p}}
ClashWith(d, events) == \E e \in events : Clashes(store[d], e)

\* Once a device whose fingerprint differed has been answered, and nothing of the answer
\* was lost, it holds every edit that its peer held then.
ExchangeDelivers ==
  \A d, p \in Devices :
    Between(d, p) = {} => due[<<d, p>>] \cap Edits \subseteq DOMAIN store[d].log

\* It holds all that its peer held, unless the two have each made a target, be it after
\* the answer was offered.
GapFilled ==
  \A d, p \in Devices :
    Between(d, p) = {} =>
      \/ due[<<d, p>>] \subseteq DOMAIN store[d].log
      \/ ClashWith(d, DOMAIN store[p].log)
=============================================================================
