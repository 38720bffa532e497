---------------------------- MODULE PeerSyncProofs ----------------------------
(***************************************************************************)
(* Theorems about PeerSync, for any devices, targets and edits, any batch  *)
(* size, whatever is lost, late, repeated or cut into batches.  SyncInv    *)
(* says what every log and every batch is like, FillInv that what was      *)
(* offered in full has come, or is on its way, or is held up for good by a *)
(* target that both devices have made.                                     *)
(***************************************************************************)
EXTENDS PeerSync, WellFoundedInduction, FiniteSetTheorems, TLAPS

\* Numbers have a least one among them.
LEMMA LeastNatural ==
  ASSUME NEW S \in SUBSET Nat, S # {}
  PROVE  \E x \in S : \A y \in S : x <= y
<1> DEFINE R == OpToRel(<, Nat)
<1>1. \A x, y \in Nat : x < y => <<x, y>> \in R
  BY Zenon DEF OpToRel
<1> HIDE DEF R
<1>2. PICK x \in S : \A y \in S : <<y, x>> \notin R
  <2>1. IsWellFoundedOn(R, Nat)
    BY NatLessThanWellFounded DEF R
  <2> QED
    BY <2>1, WFMin
<1>3. \A y \in S : ~(y < x)
  BY <1>1, <1>2
<1> QED
  BY <1>3

\* Entries that a log may hold: no seq is given twice, no target made twice.
Injective(w) == \A e, f \in DOMAIN w : w[e] = w[f] => e = f
OneINS(w) ==
  \A e, f \in DOMAIN w : e.op = "INS" /\ f.op = "INS" /\ e.target = f.target => e = f
Sound(w) == IsEntries(w) /\ Injective(w) /\ OneINS(w)

Bounded(st) == \A e \in DOMAIN st.log : st.log[e] <= st.seq

\* Every event of a log comes after the INS of its target.
Constituted(st) ==
  \A e \in DOMAIN st.log : \E f \in DOMAIN st.log :
    f.op = "INS" /\ f.target = e.target /\ st.log[f] <= st.log[e]

SoundStore(st) == st.seq \in Nat /\ Sound(st.log) /\ Bounded(st) /\ Constituted(st)

\* Every target of the entries is made in the store, or by the entries in time.
Prepared(st, w) ==
  \A e \in DOMAIN w :
    \/ Exists(st, e.target)
    \/ \E f \in DOMAIN w : f.op = "INS" /\ f.target = e.target /\ w[f] <= w[e]

\* What is in a log stays there, at its place.
Kept(old, new) ==
  \A e \in DOMAIN old.log : e \in DOMAIN new.log /\ new.log[e] = old.log[e]

\* The logs are sound, and so is what the messages bring.
SyncInv ==
  /\ DOMAIN store = Devices
  /\ \A d \in Devices : SoundStore(store[d])
  /\ \A m \in net : IsMessage(m) /\ (m.kind = "events" => Sound(m.batch))
  /\ due \in [Devices \X Devices -> SUBSET Event]

-----------------------------------------------------------------------------
(* Places among entries. *)

LEMMA EventFields ==
  /\ \A e \in Event : e.op \in {"INS", "DEF"} /\ e.target \in Targets
  /\ \A d, t : Synthetic(d, t).op = "INS" /\ Synthetic(d, t).target = t
  /\ \A d \in Devices, t \in Targets : Synthetic(d, t) \in Event
  /\ Edits \subseteq Event
<1>1. \A d, t : Synthetic(d, t).op = "INS" /\ Synthetic(d, t).target = t
  BY DEF Synthetic
<1>2. \A e \in Edits : e.op \in {"INS", "DEF"} /\ e.target \in Targets
  BY PeerAssumption
<1>3. \A e \in Event : e \in Edits \/ \E d \in Devices, t \in Targets : e = Synthetic(d, t)
  BY DEF Event
<1>4. ASSUME NEW d \in Devices, NEW t \in Targets
      PROVE  Synthetic(d, t) \in Event
  <2>1. Synthetic(d, t) \in {Synthetic(x, y) : x \in Devices, y \in Targets}
    OBVIOUS
  <2> QED
    BY <2>1 DEF Event
<1>5. Edits \subseteq Event
  BY DEF Event
<1> QED
  BY <1>1, <1>2, <1>3, <1>4, <1>5

LEMMA RankFacts ==
  ASSUME NEW w, IsEntries(w)
  PROVE  /\ Cardinality(DOMAIN w) \in Nat
         /\ \A e \in DOMAIN w : Rank(w, e) \in 1 .. Cardinality(DOMAIN w)
         /\ \A e, f \in DOMAIN w : w[e] <= w[f] => Rank(w, e) <= Rank(w, f)
         /\ \A e, f \in DOMAIN w : w[e] < w[f] => Rank(w, e) < Rank(w, f)
<1> DEFINE UpTo(e) == {f \in DOMAIN w : w[f] <= w[e]}
<1>1. IsFiniteSet(DOMAIN w) /\ \A e \in DOMAIN w : w[e] \in Nat \ {0}
  BY PeerAssumption, FS_Subset DEF IsEntries
<1>2. ASSUME NEW S, S \subseteq DOMAIN w, NEW T, T \subseteq S
      PROVE  /\ IsFiniteSet(S) /\ Cardinality(S) \in Nat /\ Cardinality(T) \in Nat
             /\ Cardinality(T) <= Cardinality(S)
             /\ Cardinality(T) = Cardinality(S) => T = S
  <2>1. IsFiniteSet(S)
    BY <1>1, <1>2, FS_Subset
  <2>2. /\ IsFiniteSet(T) /\ Cardinality(T) <= Cardinality(S)
        /\ Cardinality(T) = Cardinality(S) => T = S
    BY <2>1, <1>2, FS_Subset
  <2> QED
    BY <2>1, <2>2, FS_CardinalityType
<1>3. \A e \in DOMAIN w : Rank(w, e) = Cardinality(UpTo(e))
  BY DEF Rank
<1>4. \A e \in DOMAIN w : UpTo(e) \subseteq DOMAIN w /\ e \in UpTo(e)
  BY <1>1
<1>5. \A e, f \in DOMAIN w : w[e] <= w[f] => UpTo(e) \subseteq UpTo(f)
  BY <1>1
<1>6. \A e, f \in DOMAIN w : w[e] < w[f] => f \notin UpTo(e)
  BY <1>1
<1> HIDE DEF UpTo
<1>7. Cardinality(DOMAIN w) \in Nat
  BY <1>2
<1>8. ASSUME NEW e \in DOMAIN w
      PROVE  Rank(w, e) \in 1 .. Cardinality(DOMAIN w)
  <2>1. Cardinality(UpTo(e)) \in Nat /\ Cardinality(UpTo(e)) <= Cardinality(DOMAIN w)
    BY <1>2, <1>4
  <2>2. Cardinality(UpTo(e)) # 0
    BY <1>2, <1>4, FS_EmptySet
  <2> QED
    BY <1>3, <1>7, <2>1, <2>2
<1>9. ASSUME NEW e \in DOMAIN w, NEW f \in DOMAIN w, w[e] <= w[f]
      PROVE  Rank(w, e) <= Rank(w, f)
  BY <1>2, <1>3, <1>4, <1>5, <1>9
<1>10. ASSUME NEW e \in DOMAIN w, NEW f \in DOMAIN w, w[e] < w[f]
       PROVE  Rank(w, e) < Rank(w, f)
  <2>1. UpTo(e) \subseteq UpTo(f) /\ UpTo(e) # UpTo(f)
    BY <1>1, <1>4, <1>5, <1>6, <1>10
  <2>2. Cardinality(UpTo(e)) \in Nat /\ Cardinality(UpTo(f)) \in Nat
    BY <1>2, <1>4
  <2>3. /\ Cardinality(UpTo(e)) <= Cardinality(UpTo(f))
        /\ Cardinality(UpTo(e)) # Cardinality(UpTo(f))
    BY <1>2, <1>4, <2>1
  <2> QED
    BY <1>3, <2>2, <2>3
<1> QED
  BY <1>7, <1>8, <1>9, <1>10

\* A target that has entries has a first one.
LEMMA FirstFacts ==
  ASSUME NEW w, IsEntries(w), NEW e \in DOMAIN w
  PROVE  /\ \E f \in DOMAIN w : f.target = e.target /\ First(w, e.target) = w[f]
         /\ First(w, e.target) <= w[e]
<1> DEFINE seqs == {w[x] : x \in {y \in DOMAIN w : y.target = e.target}}
<1>1. seqs \subseteq Nat /\ w[e] \in seqs
  BY DEF IsEntries
<1>2. \E s \in seqs : \A r \in seqs : s <= r
  BY <1>1, LeastNatural
<1>3. First(w, e.target) = CHOOSE s \in seqs : \A r \in seqs : s <= r
  BY DEF First
<1>4. First(w, e.target) \in seqs /\ \A r \in seqs : First(w, e.target) <= r
  <2> HIDE DEF seqs
  <2> QED
    BY <1>2, <1>3
<1> QED
  BY <1>1, <1>4

-----------------------------------------------------------------------------
(* What the fold keeps. *)

LEMMA FoldWaveKeeps ==
  ASSUME NEW st, NEW w, SoundStore(st), Sound(w), Prepared(st, w)
  PROVE  SoundStore(FoldWave(st, w)) /\ Kept(st, FoldWave(st, w))
<1> DEFINE new == {e \in DOMAIN w : ~Known(st, e) /\ ~Clashes(st, e)}
           n == Cardinality(DOMAIN w)
           out == FoldWave(st, w)
<1>1. /\ out.seq = st.seq + n
      /\ DOMAIN out.log = DOMAIN st.log \union new
      /\ \A e \in new : out.log[e] = st.seq + Rank(w, e)
      /\ \A e \in DOMAIN st.log : e \notin new /\ out.log[e] = st.log[e]
  BY DEF FoldWave, Reserved, Known
<1>2. /\ st.seq \in Nat
      /\ DOMAIN st.log \subseteq Event
      /\ \A e \in DOMAIN st.log : st.log[e] \in Nat \ {0} /\ st.log[e] <= st.seq
      /\ Injective(st.log) /\ OneINS(st.log)
  BY DEF SoundStore, Sound, IsEntries, Bounded
<1>3. /\ DOMAIN w \subseteq Event /\ Injective(w) /\ OneINS(w)
      /\ \A e \in DOMAIN w : w[e] \in Nat \ {0}
  BY DEF Sound, IsEntries
<1>4. /\ n \in Nat
      /\ \A e \in DOMAIN w : Rank(w, e) \in 1 .. n
      /\ \A e, f \in DOMAIN w : w[e] <= w[f] => Rank(w, e) <= Rank(w, f)
      /\ \A e, f \in DOMAIN w : w[e] < w[f] => Rank(w, e) < Rank(w, f)
  BY RankFacts DEF Sound
<1>5. new \subseteq DOMAIN w
  OBVIOUS
<1>6. \A e \in new : e.op = "INS" => ~Exists(st, e.target)
  BY DEF Clashes
<1>7. \A e \in DOMAIN w : e.op = "INS" /\ ~Exists(st, e.target) => e \in new
  BY DEF Clashes, Known, Exists
<1> HIDE DEF out, n, new
<1>8. out.seq \in Nat /\ Bounded(out)
  BY <1>1, <1>2, <1>4, <1>5 DEF Bounded
<1>9. IsEntries(out.log)
  BY <1>1, <1>2, <1>3, <1>4, <1>5 DEF IsEntries
<1>10. \A e, f \in new : Rank(w, e) = Rank(w, f) => e = f
  BY <1>3, <1>4, <1>5 DEF Injective
<1>11. Injective(out.log)
  BY <1>1, <1>2, <1>4, <1>5, <1>10 DEF Injective
<1>12. OneINS(out.log)
  BY <1>1, <1>2, <1>3, <1>5, <1>6 DEF OneINS, Exists
<1>13. ASSUME NEW e \in DOMAIN out.log
       PROVE  \E f \in DOMAIN out.log :
                f.op = "INS" /\ f.target = e.target /\ out.log[f] <= out.log[e]
  <2>1. CASE e \in DOMAIN st.log
    <3>1. PICK f \in DOMAIN st.log : /\ f.op = "INS" /\ f.target = e.target
                                     /\ st.log[f] <= st.log[e]
      BY <2>1 DEF SoundStore, Constituted
    <3> QED
      BY <1>1, <2>1, <3>1
  <2>2. CASE e \in new /\ Exists(st, e.target)
    <3>1. PICK f \in DOMAIN st.log : f.op = "INS" /\ f.target = e.target
      BY <2>2 DEF Exists
    <3>2. out.log[f] <= out.log[e]
      BY <1>1, <1>2, <1>4, <1>5, <2>2, <3>1
    <3> QED
      BY <1>1, <3>1, <3>2
  <2>3. CASE e \in new /\ ~Exists(st, e.target)
    <3>1. PICK f \in DOMAIN w : f.op = "INS" /\ f.target = e.target /\ w[f] <= w[e]
      BY <1>5, <2>3 DEF Prepared
    <3>2. f \in new
      BY <1>7, <2>3, <3>1
    <3>3. out.log[f] <= out.log[e]
      BY <1>1, <1>2, <1>4, <1>5, <2>3, <3>1, <3>2
    <3> QED
      BY <1>1, <3>1, <3>2, <3>3
  <2> QED
    BY <1>1, <2>1, <2>2, <2>3
<1>14. Constituted(out) /\ Kept(st, out)
  BY <1>1, <1>13 DEF Constituted, Kept
<1> QED
  BY <1>8, <1>9, <1>11, <1>12, <1>14 DEF SoundStore, Sound, out

LEMMA ExpandedSound ==
  ASSUME NEW st, NEW d \in Devices, NEW w, Sound(w), \A e \in DOMAIN w : e.op # "INS"
  PROVE  Sound(Expanded(st, d, w)) /\ Prepared(st, Expanded(st, d, w))
<1> DEFINE missing == {x \in DOMAIN w : ~Exists(st, x.target)}
           made == {Synthetic(d, e.target) : e \in missing}
           out == Expanded(st, d, w)
<1>1. /\ DOMAIN out = DOMAIN w \union made
      /\ \A e \in made : out[e] = 2 * First(w, e.target) - 1
      /\ \A e \in DOMAIN w : e \notin made => out[e] = 2 * w[e]
  BY DEF Expanded
<1>2. /\ DOMAIN w \subseteq Event /\ Injective(w) /\ IsEntries(w)
      /\ \A e \in DOMAIN w : w[e] \in Nat \ {0} /\ e.target \in Targets
  BY EventFields DEF Sound, IsEntries
<1>3. \A e \in made : /\ e.op = "INS" /\ e \in Event /\ e = Synthetic(d, e.target)
                      /\ \E x \in missing : x.target = e.target
  BY <1>2, EventFields
<1>4. \A e \in made : \E f \in DOMAIN w : f.target = e.target /\ First(w, e.target) = w[f]
  BY <1>2, <1>3, FirstFacts
<1>5. \A e \in DOMAIN w : e \notin made
  BY <1>3
<1>6. \A e \in missing : Synthetic(d, e.target) \in made
  OBVIOUS
<1> HIDE DEF made, missing, out
<1>7. IsEntries(out)
  BY <1>1, <1>2, <1>3, <1>4, <1>5 DEF IsEntries
<1>8. Injective(out)
  <2> SUFFICES ASSUME NEW e \in DOMAIN out, NEW f \in DOMAIN out, out[e] = out[f]
               PROVE  e = f
    BY DEF Injective
  <2>1. CASE e \in made /\ f \in made
    <3>1. First(w, e.target) = First(w, f.target)
      BY <1>1, <1>2, <1>4, <2>1
    <3>2. e.target = f.target
      BY <1>2, <1>4, <2>1, <3>1 DEF Injective
    <3> QED
      BY <1>3, <2>1, <3>2
  <2>2. CASE e \in DOMAIN w /\ f \in DOMAIN w
    BY <1>1, <1>2, <1>5, <2>2 DEF Injective
  <2>3. ASSUME NEW x \in made, NEW y \in DOMAIN w
        PROVE  out[x] # out[y]
    <3>1. out[y] = 2 * w[y] /\ w[y] \in Nat
      BY <1>1, <1>2, <1>5
    <3>2. PICK z \in DOMAIN w : First(w, x.target) = w[z]
      BY <1>4
    <3>3. out[x] = 2 * w[z] - 1 /\ w[z] \in Nat
      BY <1>1, <1>2, <3>2
    <3> QED
      BY <3>1, <3>3
  <2> QED
    BY <1>1, <2>1, <2>2, <2>3
<1>9. OneINS(out)
  BY <1>1, <1>3 DEF OneINS
<1>10. Prepared(st, out)
  <2> SUFFICES ASSUME NEW e \in DOMAIN out, ~Exists(st, e.target)
               PROVE  \E f \in DOMAIN out :
                        f.op = "INS" /\ f.target = e.target /\ out[f] <= out[e]
    BY DEF Prepared
  <2>1. CASE e \in made
    BY <1>1, <1>2, <1>3, <1>4, <2>1
  <2>2. CASE e \in DOMAIN w
    <3> DEFINE f == Synthetic(d, e.target)
    <3>1. f \in made
      BY <1>6, <2>2 DEF missing
    <3>2. f.op = "INS" /\ f.target = e.target
      BY EventFields
    <3>3. First(w, e.target) <= w[e]
      BY <1>2, <2>2, FirstFacts
    <3> HIDE DEF f
    <3>4. First(w, e.target) \in Nat /\ w[e] \in Nat
      BY <1>2, <1>4, <2>2, <3>1, <3>2
    <3>5. out[f] = 2 * First(w, e.target) - 1 /\ out[e] = 2 * w[e]
      BY <1>1, <1>5, <2>2, <3>1, <3>2
    <3> QED
      BY <1>1, <3>1, <3>2, <3>3, <3>4, <3>5
  <2> QED
    BY <1>1, <2>1, <2>2
<1> QED
  BY <1>7, <1>8, <1>9, <1>10 DEF Sound, out

LEMMA RestrictSound ==
  ASSUME NEW w, Sound(w), NEW S, S \subseteq DOMAIN w
  PROVE  Sound(Restrict(w, S)) /\ DOMAIN Restrict(w, S) = S
BY DEF Restrict, Sound, IsEntries, Injective, OneINS

LEMMA EntrySound ==
  ASSUME NEW e \in Event, NEW s \in Nat \ {0}
  PROVE  Sound(Entry(e, s)) /\ DOMAIN Entry(e, s) = {e} /\ Entry(e, s)[e] = s
BY DEF Entry, Sound, IsEntries, Injective, OneINS

\* The bulk path, also when it stops after an INS that has thrown.
LEMMA ImportedKeeps ==
  ASSUME NEW st, NEW d \in Devices, NEW w, SoundStore(st), Sound(w)
  PROVE  SoundStore(Imported(st, d, w)) /\ Kept(st, Imported(st, d, w))
<1> DEFINE ins == Those(w, "INS")
           defs == Those(w, "DEF")
           made == FoldWave(st, ins)
<1>1. /\ Sound(ins) /\ \A e \in DOMAIN ins : e.op = "INS"
      /\ Sound(defs) /\ \A e \in DOMAIN defs : e.op # "INS"
  BY RestrictSound DEF Those
<1>2. Prepared(st, ins)
  BY <1>1 DEF Prepared, Sound, IsEntries
<1> HIDE DEF ins, defs
<1>3. SoundStore(made) /\ Kept(st, made)
  BY <1>1, <1>2, FoldWaveKeeps
<1> HIDE DEF made
<1>4. Sound(Expanded(made, d, defs)) /\ Prepared(made, Expanded(made, d, defs))
  BY <1>1, ExpandedSound
<1>5. /\ SoundStore(FoldWave(made, Expanded(made, d, defs)))
      /\ Kept(made, FoldWave(made, Expanded(made, d, defs)))
  BY <1>3, <1>4, FoldWaveKeeps
<1>6. Imported(st, d, w) \in {made, FoldWave(made, Expanded(made, d, defs))}
  BY DEF Imported, made, ins, defs
<1> QED
  BY <1>3, <1>5, <1>6 DEF Kept

-----------------------------------------------------------------------------
(* What the actions keep. *)

LEMMA SyncInit == PeerInit => SyncInv
BY DEF PeerInit, SyncInv, SoundStore, Sound, IsEntries, Injective, OneINS, Bounded,
       Constituted, EmptyStore

\* What a message may be.
LEMMA MessageTypes ==
  ASSUME NEW d \in Devices, NEW p \in Devices, d # p
  PROVE  /\ \A st : st.seq \in Nat => IsMessage(Hello(d, p, st)) /\ Hello(d, p, st).kind = "hello"
         /\ \A has, ok \in BOOLEAN : IsMessage(Offer(d, p, has, ok)) /\ Offer(d, p, has, ok).kind = "offer"
         /\ \A s \in Nat : IsMessage(Request(d, p, s)) /\ Request(d, p, s).kind = "request"
         /\ \A w : Sound(w) => IsMessage(Events(d, p, w)) /\ Events(d, p, w).batch = w
BY DEF IsMessage, Hello, Offer, Request, Events, storeFingerprint, Sound

\* The wave of a user's edit: the edit and the INS that it may need are folded.
LEMMA WaveFolded ==
  ASSUME NEW d \in Devices, NEW e \in Edits, NEW st, SoundStore(st), ~Clashes(st, e)
  PROVE  LET wave == IF e.op = "DEF" THEN Expanded(st, d, Entry(e, 1)) ELSE Entry(e, 1) IN
         /\ Sound(wave) /\ Prepared(st, wave)
         /\ \A x \in DOMAIN wave : x \in Event /\ x \in DOMAIN FoldWave(st, wave).log
<1> DEFINE one == Entry(e, 1)
           wave == IF e.op = "DEF" THEN Expanded(st, d, one) ELSE one
<1>1. e \in Event /\ e.op \in {"INS", "DEF"}
  BY EventFields
<1>2. Sound(one) /\ DOMAIN one = {e}
  BY <1>1, EntrySound, 1 \in Nat \ {0}
<1> HIDE DEF one
<1>3. Sound(wave) /\ Prepared(st, wave)
  <2>1. CASE e.op = "DEF"
    BY <1>2, <2>1, ExpandedSound
  <2>2. CASE e.op = "INS"
    BY <1>2, <2>2 DEF Prepared, Sound, IsEntries
  <2> QED
    BY <1>1, <2>1, <2>2
<1>4. ASSUME NEW x \in DOMAIN wave
      PROVE  ~Clashes(st, x)
  <2>1. CASE x = e
    BY <2>1
  <2>2. CASE x # e
    <3>1. x = Synthetic(d, e.target) /\ ~Exists(st, e.target)
      BY <1>2, <2>2 DEF Expanded
    <3> QED
      BY <3>1, EventFields DEF Clashes
  <2> QED
    BY <2>1, <2>2
<1> HIDE DEF wave
<1>5. \A x \in DOMAIN wave : x \in Event /\ x \in DOMAIN FoldWave(st, wave).log
  BY <1>3, <1>4 DEF FoldWave, Known, Sound, IsEntries
<1> QED
  BY <1>3, <1>5 DEF wave, one

LEMMA DispatchKeeps ==
  ASSUME NEW d \in Devices, NEW e \in Edits, SyncInv, Dispatch(d, e)
  PROVE  SyncInv' /\ \A x \in Devices : Kept(store[x], store'[x])
<1> DEFINE st == store[d]
           wave == IF e.op = "DEF" THEN Expanded(st, d, Entry(e, 1)) ELSE Entry(e, 1)
           new == FoldWave(st, wave)
<1>1. /\ store' = [store EXCEPT ![d] = new]
      /\ net' = net \union {Events(d, p, Entry(x, new.log[x])) : p \in Peers(d), x \in DOMAIN wave}
      /\ due' = due /\ ~Clashes(st, e)
  BY DEF Dispatch
<1>2. SoundStore(st)
  BY DEF SyncInv
<1>3. /\ Sound(wave) /\ Prepared(st, wave)
      /\ \A x \in DOMAIN wave : x \in Event /\ x \in DOMAIN new.log
  BY <1>1, <1>2, WaveFolded
<1>4. SoundStore(new) /\ Kept(st, new)
  BY <1>2, <1>3, FoldWaveKeeps
<1> HIDE DEF st, wave, new
<1>5. \A x \in DOMAIN wave : Sound(Entry(x, new.log[x]))
  BY <1>3, <1>4, EntrySound DEF SoundStore, Sound, IsEntries
<1>6. \A m \in net' : IsMessage(m) /\ (m.kind = "events" => Sound(m.batch))
  <2> SUFFICES ASSUME NEW p \in Peers(d), NEW x \in DOMAIN wave
               PROVE  LET m == Events(d, p, Entry(x, new.log[x]))
                      IN IsMessage(m) /\ Sound(m.batch)
    BY <1>1 DEF SyncInv
  <2> QED
    BY <1>5, MessageTypes DEF Peers
<1>7. /\ DOMAIN store' = Devices
      /\ \A x \in Devices : store'[x] = IF x = d THEN new ELSE store[x]
  BY <1>1 DEF SyncInv
<1>8. \A x \in Devices : SoundStore(store'[x]) /\ Kept(store[x], store'[x])
  BY <1>4, <1>7 DEF SyncInv, Kept, st
<1> QED
  BY <1>1, <1>6, <1>7, <1>8 DEF SyncInv

LEMMA HandleEventsKeeps ==
  ASSUME NEW m \in net, SyncInv, HandleEvents(m)
  PROVE  SyncInv' /\ \A x \in Devices : Kept(store[x], store'[x])
<1> DEFINE new == Imported(store[m.to], m.to, m.batch)
<1>1. /\ m.kind = "events" /\ store' = [store EXCEPT ![m.to] = new]
      /\ net' = net \ {m} /\ due' = due
  BY DEF HandleEvents
<1>2. m.to \in Devices /\ Sound(m.batch) /\ SoundStore(store[m.to])
  BY <1>1 DEF SyncInv, IsMessage
<1>3. SoundStore(new) /\ Kept(store[m.to], new)
  BY <1>2, ImportedKeeps
<1> HIDE DEF new
<1>4. /\ DOMAIN store' = Devices
      /\ \A x \in Devices : store'[x] = IF x = m.to THEN new ELSE store[x]
  BY <1>1 DEF SyncInv
<1>5. \A x \in Devices : SoundStore(store'[x]) /\ Kept(store[x], store'[x])
  BY <1>3, <1>4 DEF SyncInv, Kept
<1> QED
  BY <1>1, <1>4, <1>5 DEF SyncInv

LEMMA OthersKeep ==
  ASSUME SyncInv,
         \/ \E d \in Devices : Announce(d)
         \/ \E m \in net : HandleHello(m) \/ HandleOffer(m) \/ HandleRequest(m) \/ Lose(m)
  PROVE  SyncInv' /\ store' = store
<1> USE DEF SyncInv
<1>1. ASSUME store' = store, due' \in [Devices \X Devices -> SUBSET Event],
             \A m \in net' : m \in net \/ (IsMessage(m) /\ (m.kind = "events" => Sound(m.batch)))
      PROVE  SyncInv' /\ store' = store
  BY <1>1
<1>2. CASE \E d \in Devices : Announce(d)
  <2>1. PICK d \in Devices : Announce(d)
    BY <1>2
  <2>2. \A m \in net' : m \in net \/ (IsMessage(m) /\ m.kind = "hello")
    BY <2>1, MessageTypes DEF Announce, Peers, SoundStore
  <2> QED
    BY <1>1, <2>1, <2>2 DEF Announce
<1>3. ASSUME NEW m \in net, HandleHello(m) PROVE SyncInv' /\ store' = store
  <2>1. m.to \in Devices /\ m.from \in Devices /\ m.from # m.to
    BY DEF IsMessage
  <2>2. \A x \in net' : x \in net \/ (IsMessage(x) /\ x.kind = "offer")
    <3> DEFINE match == storeFingerprint(store[m.to]) = m.print
               has == Offers(store[m.to], m.seq, match)
    <3>1. match \in BOOLEAN /\ has \in BOOLEAN
      BY Zenon DEF Offers
    <3>2. net' = (net \ {m}) \union {Offer(m.to, m.from, has, match)}
      BY <1>3, Zenon DEF HandleHello
    <3> HIDE DEF match, has
    <3>3. IsMessage(Offer(m.to, m.from, has, match)) /\ Offer(m.to, m.from, has, match).kind = "offer"
      BY <2>1, <3>1, MessageTypes
    <3> QED
      BY <3>2, <3>3
  <2>3. due' \in [Devices \X Devices -> SUBSET Event]
    <3>1. DOMAIN store[m.to].log \in SUBSET Event
      BY <2>1 DEF SoundStore, Sound, IsEntries
    <3> QED
      BY <1>3, <2>1, <3>1 DEF HandleHello
  <2> QED
    BY <1>1, <1>3, <2>2, <2>3 DEF HandleHello
<1>4. ASSUME NEW m \in net, HandleOffer(m) PROVE SyncInv' /\ store' = store
  <2>1. m.to \in Devices /\ m.from \in Devices /\ m.from # m.to
    BY DEF IsMessage
  <2>2. NeedFrom(store[m.to], m.match) \in Nat
    BY <2>1 DEF NeedFrom, SoundStore
  <2>3. \A x \in net' : x \in net \/ (IsMessage(x) /\ x.kind = "request")
    BY <1>4, <2>1, <2>2, MessageTypes DEF HandleOffer
  <2> QED
    BY <1>1, <1>4, <2>3 DEF HandleOffer
<1>5. ASSUME NEW m \in net, HandleRequest(m) PROVE SyncInv' /\ store' = store
  <2> DEFINE w == readLogSince(store[m.to], m.need)
  <2>1. m.to \in Devices /\ m.from \in Devices /\ m.from # m.to
    BY DEF IsMessage
  <2>2. Sound(w)
    BY <2>1, RestrictSound DEF readLogSince, SoundStore
  <2>3. ASSUME NEW b \in InBatches(w) PROVE Sound(b)
    <3>1. PICK e \in DOMAIN w :
            b = Restrict(w, {f \in DOMAIN w : (Rank(w, f) - 1) \div BatchSize
                                               = (Rank(w, e) - 1) \div BatchSize})
      BY DEF InBatches
    <3> DEFINE S == {f \in DOMAIN w : (Rank(w, f) - 1) \div BatchSize
                                       = (Rank(w, e) - 1) \div BatchSize}
    <3>2. b = Restrict(w, S) /\ S \subseteq DOMAIN w
      BY <3>1
    <3> HIDE DEF S, w
    <3> QED
      BY <2>2, <3>2, RestrictSound
  <2>4. net' = (net \ {m}) \union {Events(m.to, m.from, b) : b \in InBatches(w)}
    BY <1>5 DEF HandleRequest
  <2> HIDE DEF w
  <2>5. \A b \in InBatches(w) : /\ IsMessage(Events(m.to, m.from, b))
                                /\ Sound(Events(m.to, m.from, b).batch)
    BY <2>1, <2>3, MessageTypes
  <2>6. \A x \in net' : x \in net \/ (IsMessage(x) /\ Sound(x.batch))
    BY <2>4, <2>5
  <2> QED
    BY <1>1, <1>5, <2>6 DEF HandleRequest
<1>6. ASSUME NEW m \in net, Lose(m) PROVE SyncInv' /\ store' = store
  <2>1. due' \in [Devices \X Devices -> SUBSET Event]
    BY <1>6 DEF Lose
  <2> QED
    BY <1>1, <1>6, <2>1 DEF Lose
<1> QED
  BY <1>2, <1>3, <1>4, <1>5, <1>6

LEMMA SyncStep ==
  ASSUME SyncInv, [PeerNext]_peerVars
  PROVE  SyncInv' /\ \A d \in Devices : Kept(store[d], store'[d])
<1>1. CASE \E d \in Devices, e \in Edits : Dispatch(d, e)
  BY <1>1, DispatchKeeps
<1>2. CASE \E m \in net : HandleEvents(m)
  BY <1>2, HandleEventsKeeps
<1>3. CASE \/ \E d \in Devices : Announce(d)
           \/ \E m \in net : HandleHello(m) \/ HandleOffer(m) \/ HandleRequest(m) \/ Lose(m)
  BY <1>3, OthersKeep DEF Kept
<1>4. CASE UNCHANGED peerVars
  BY <1>4 DEF peerVars, SyncInv, Kept
<1> QED
  BY <1>1, <1>2, <1>3, <1>4 DEF PeerNext

-----------------------------------------------------------------------------
(* What has been offered in full arrives, or waits, or is held up for good. *)

\* A target that both have made: every batch that holds the INS stops there.
Blocked(d, p) == ClashWith(d, DOMAIN store[p].log)

\* A message that brings the event of p's log to d, or will lead to one that does.
Brings(m, d, p, e) ==
  \/ m.kind = "offer" /\ m.from = p /\ m.to = d /\ m.has /\ ~m.match
  \/ m.kind = "request" /\ m.from = d /\ m.to = p /\ m.need = 0
  \/ m.kind = "events" /\ m.from = p /\ m.to = d /\ e \in DOMAIN m.batch
Pending(d, p, e) == \E m \in net : Brings(m, d, p, e)

Settled(d, p, e) == e \in DOMAIN store[d].log \/ Blocked(d, p) \/ Pending(d, p, e)

\* Messages bring what their sender holds, and so does every offer in full.
Carried == \A m \in net : m.kind = "events" => DOMAIN m.batch \subseteq DOMAIN store[m.from].log
OfferHeld == \A d, p \in Devices : due[<<d, p>>] \subseteq DOMAIN store[p].log
OfferSettled == \A d, p \in Devices : \A e \in due[<<d, p>>] : Settled(d, p, e)

FillInv == SyncInv /\ Carried /\ OfferHeld /\ OfferSettled

\* Logs only grow, and what clashes clashes for good.
Grows(old, new) ==
  /\ DOMAIN old.log \subseteq DOMAIN new.log
  /\ \A e : Clashes(old, e) => Clashes(new, e)

LEMMA FoldGrows ==
  ASSUME NEW st, NEW w
  PROVE  /\ Grows(st, FoldWave(st, w))
         /\ \A e \in DOMAIN w : ~Clashes(st, e) => e \in DOMAIN FoldWave(st, w).log
<1> DEFINE new == {e \in DOMAIN w : ~Known(st, e) /\ ~Clashes(st, e)}
           out == FoldWave(st, w)
<1>1. DOMAIN out.log = DOMAIN st.log \union new
  BY DEF FoldWave
<1> HIDE DEF out
<1>2. ASSUME NEW e, Clashes(st, e) PROVE Clashes(out, e)
  BY <1>1, <1>2 DEF Clashes, Known, Exists
<1>3. ASSUME NEW e \in DOMAIN w, ~Clashes(st, e) PROVE e \in DOMAIN out.log
  BY <1>1, <1>3 DEF Known
<1> QED
  BY <1>1, <1>2, <1>3 DEF Grows, out

\* The bulk path folds all of a batch, or a log clashes with the batch.
LEMMA ImportedGrows ==
  ASSUME NEW st, NEW d, NEW w, IsEntries(w)
  PROVE  /\ Grows(st, Imported(st, d, w))
         /\ Rejects(st, w) \/ DOMAIN w \subseteq DOMAIN Imported(st, d, w).log
<1> DEFINE made == FoldWave(st, Those(w, "INS"))
           defs == Expanded(made, d, Those(w, "DEF"))
           done == FoldWave(made, defs)
<1>1. Imported(st, d, w) = IF Rejects(st, w) THEN made ELSE done
  BY DEF Imported
<1>2. /\ DOMAIN Those(w, "INS") = {e \in DOMAIN w : e.op = "INS"}
      /\ {e \in DOMAIN w : e.op = "DEF"} \subseteq DOMAIN defs
  BY DEF Those, Restrict, Expanded
<1>3. \A e \in DOMAIN w : e.op \in {"INS", "DEF"}
  BY EventFields DEF IsEntries
<1>4. /\ Grows(st, made)
      /\ \A e \in DOMAIN Those(w, "INS") : ~Clashes(st, e) => e \in DOMAIN made.log
  BY FoldGrows
<1> HIDE DEF made
<1>5. /\ Grows(made, done)
      /\ \A e \in DOMAIN defs : ~Clashes(made, e) => e \in DOMAIN done.log
  BY FoldGrows
<1> HIDE DEF defs, done
<1>6. Grows(st, done)
  BY <1>4, <1>5 DEF Grows
<1>7. ASSUME ~Rejects(st, w), NEW e \in DOMAIN w
      PROVE  e \in DOMAIN done.log
  <2>1. CASE e.op = "INS"
    <3>1. e \in DOMAIN made.log
      BY <1>2, <1>4, <1>7, <2>1 DEF Rejects
    <3> QED
      BY <1>5, <3>1 DEF Grows
  <2>2. CASE e.op = "DEF"
    BY <1>2, <1>5, <2>2 DEF Clashes
  <2> QED
    BY <1>3, <2>1, <2>2
<1> QED
  BY <1>1, <1>4, <1>6, <1>7

LEMMA StoresGrow ==
  ASSUME SyncInv, [PeerNext]_peerVars
  PROVE  \A d \in Devices : Grows(store[d], store'[d])
<1>1. \A st : Grows(st, st)
  BY DEF Grows
<1>2. ASSUME NEW d \in Devices, NEW e \in Edits, Dispatch(d, e)
      PROVE  \A x \in Devices : Grows(store[x], store'[x])
  <2>1. PICK w : store' = [store EXCEPT ![d] = FoldWave(store[d], w)]
    BY <1>2 DEF Dispatch
  <2> QED
    BY <1>1, <2>1, FoldGrows DEF SyncInv
<1>3. ASSUME NEW m \in net, HandleEvents(m)
      PROVE  \A x \in Devices : Grows(store[x], store'[x])
  <2>1. m.kind = "events" /\ IsEntries(m.batch)
    BY <1>3 DEF HandleEvents, SyncInv, IsMessage
  <2>2. store' = [store EXCEPT ![m.to] = Imported(store[m.to], m.to, m.batch)]
    BY <1>3 DEF HandleEvents
  <2> QED
    BY <1>1, <2>1, <2>2, ImportedGrows DEF SyncInv
<1>4. CASE \/ \E d \in Devices : Announce(d)
           \/ \E m \in net : HandleHello(m) \/ HandleOffer(m) \/ HandleRequest(m) \/ Lose(m)
  BY <1>1, <1>4, OthersKeep
<1>5. CASE UNCHANGED peerVars
  BY <1>1, <1>5 DEF peerVars
<1> QED
  BY <1>2, <1>3, <1>4, <1>5 DEF PeerNext

\* It is enough that new messages bring what is held, and that what waits goes on.
LEMMA FillKept ==
  ASSUME FillInv, [PeerNext]_peerVars,
         \A m \in net' : m \in net \/ (m.kind = "events" => DOMAIN m.batch \subseteq DOMAIN store'[m.from].log),
         \A d, p \in Devices : due'[<<d, p>>] \subseteq due[<<d, p>>],
         \A d, p \in Devices : \A e \in due'[<<d, p>>] :
           \A m \in net : Brings(m, d, p, e) => Settled(d, p, e)'
  PROVE  FillInv'
<1>1. SyncInv /\ SyncInv' /\ \A d \in Devices : Grows(store[d], store'[d])
  BY SyncStep, StoresGrow DEF FillInv
<1>2. Carried'
  <2> SUFFICES ASSUME NEW m \in net, m.kind = "events"
               PROVE  DOMAIN m.batch \subseteq DOMAIN store'[m.from].log
    BY DEF Carried
  <2>1. m.from \in Devices
    BY <1>1 DEF SyncInv, IsMessage
  <2> QED
    BY <1>1, <2>1 DEF FillInv, Carried, Grows
<1>3. OfferHeld'
  BY <1>1 DEF FillInv, OfferHeld, Grows
<1>4. ASSUME NEW d \in Devices, NEW p \in Devices, NEW e \in due'[<<d, p>>]
      PROVE  Settled(d, p, e)'
  <2>1. Settled(d, p, e)
    BY DEF FillInv, OfferSettled
  <2>2. CASE e \in DOMAIN store[d].log
    BY <1>1, <2>2 DEF Grows, Settled
  <2>3. CASE Blocked(d, p)
    BY <1>1, <2>3 DEF Grows, Settled, Blocked, ClashWith
  <2>4. CASE Pending(d, p, e)
    BY <2>4 DEF Pending
  <2> QED
    BY <2>1, <2>2, <2>3, <2>4 DEF Settled
<1> QED
  BY <1>1, <1>2, <1>3, <1>4 DEF FillInv, OfferSettled

\* Messages that are only added leave what waits on its way.
LEMMA AddingFills ==
  ASSUME FillInv, [PeerNext]_peerVars, net \subseteq net', due' = due,
         \A m \in net' : m \in net \/ (m.kind = "events" => DOMAIN m.batch \subseteq DOMAIN store'[m.from].log)
  PROVE  FillInv'
<1>1. ASSUME NEW d \in Devices, NEW p \in Devices, NEW e, NEW m \in net, Brings(m, d, p, e)
      PROVE  Settled(d, p, e)'
  BY <1>1 DEF Settled, Pending, Brings
<1> QED
  BY <1>1, FillKept

LEMMA DispatchFills ==
  ASSUME FillInv, NEW d \in Devices, NEW e \in Edits, Dispatch(d, e)
  PROVE  FillInv'
<1> DEFINE st == store[d]
           wave == IF e.op = "DEF" THEN Expanded(st, d, Entry(e, 1)) ELSE Entry(e, 1)
           new == FoldWave(st, wave)
<1>1. /\ store' = [store EXCEPT ![d] = new]
      /\ net' = net \union {Events(d, p, Entry(x, new.log[x])) : p \in Peers(d), x \in DOMAIN wave}
      /\ due' = due /\ ~Clashes(st, e)
  BY DEF Dispatch
<1>2. SoundStore(st)
  BY DEF FillInv, SyncInv
<1>3. \A x \in DOMAIN wave : x \in DOMAIN new.log
  BY <1>1, <1>2, WaveFolded
<1>4. store'[d] = new
  BY <1>1 DEF FillInv, SyncInv
<1> HIDE DEF st, wave, new
<1>5. \A x, s : DOMAIN Entry(x, s) = {x}
  BY DEF Entry
<1>6. \A m \in net' : m \in net \/ (m.kind = "events" => DOMAIN m.batch \subseteq DOMAIN store'[m.from].log)
  <2> SUFFICES ASSUME NEW p \in Peers(d), NEW x \in DOMAIN wave
               PROVE  LET m == Events(d, p, Entry(x, new.log[x]))
                      IN DOMAIN m.batch \subseteq DOMAIN store'[m.from].log
    <3> DEFINE sent == {Events(d, p, Entry(x, new.log[x])) : p \in Peers(d), x \in DOMAIN wave}
    <3>1. ASSUME NEW m \in sent
          PROVE  DOMAIN m.batch \subseteq DOMAIN store'[m.from].log
      OBVIOUS
    <3>2. net' = net \union sent
      BY <1>1
    <3> HIDE DEF sent
    <3> QED
      BY <3>1, <3>2
  <2>1. LET m == Events(d, p, Entry(x, new.log[x]))
        IN m.from = d /\ DOMAIN m.batch = {x}
    BY <1>5 DEF Events
  <2> QED
    BY <1>3, <1>4, <2>1
<1>7. PeerNext
  BY DEF PeerNext
<1> QED
  BY <1>1, <1>6, <1>7, AddingFills

\* A device whose fingerprint differs is offered all that the peer holds.
LEMMA HelloFills ==
  ASSUME FillInv, NEW m \in net, HandleHello(m)
  PROVE  FillInv'
<1> DEFINE d == m.from
           p == m.to
           match == storeFingerprint(store[p]) = m.print
           has == Offers(store[p], m.seq, match)
           answer == Offer(p, d, has, match)
<1>1. /\ m.kind = "hello" /\ store' = store
      /\ net' = (net \ {m}) \union {answer}
      /\ due' = IF match \/ store[p].seq = 0 THEN due
                ELSE [due EXCEPT ![<<d, p>>] = DOMAIN store[p].log]
  BY Zenon DEF HandleHello
<1>2. d \in Devices /\ p \in Devices /\ m.seq \in Nat /\ store[p].seq \in Nat
  BY <1>1 DEF FillInv, SyncInv, IsMessage, SoundStore
<1>3. ~match /\ store[p].seq # 0 => has
  BY <1>2 DEF Offers
<1>4. /\ answer.kind = "offer" /\ answer.from = p /\ answer.to = d
      /\ answer.has = has /\ answer.match = match
  BY DEF Offer
<1>5. SyncInv'
  BY OthersKeep DEF FillInv
<1> HIDE DEF match, has, answer, d, p
<1>6. \A x, y, e : \A n \in net : Brings(n, x, y, e) => n # m
  BY <1>1 DEF Brings
<1>7. \A x, y, e : Pending(x, y, e) => Pending(x, y, e)'
  BY <1>1, <1>6 DEF Pending
<1>8. \A x, y, e : Blocked(x, y) => Blocked(x, y)'
  BY <1>1 DEF Blocked, ClashWith
<1>9. \A x, y, e : Settled(x, y, e) => Settled(x, y, e)'
  BY <1>1, <1>7, <1>8 DEF Settled
<1>10. \/ due' = due
       \/ /\ \A e : Settled(d, p, e)'
          /\ due' = [due EXCEPT ![<<d, p>>] = DOMAIN store[p].log]
  <2>1. CASE match \/ store[p].seq = 0
    BY <1>1, <2>1
  <2>2. CASE ~match /\ store[p].seq # 0
    <3>1. \A e : Brings(answer, d, p, e)
      BY <1>3, <1>4, <2>2 DEF Brings
    <3>2. \A e : Settled(d, p, e)'
      BY <1>1, <3>1 DEF Settled, Pending
    <3> QED
      BY <1>1, <2>2, <3>2
  <2> QED
    BY <2>1, <2>2
<1>11. OfferHeld' /\ OfferSettled'
  <2>1. CASE due' = due
    BY <1>1, <1>9, <2>1 DEF FillInv, OfferHeld, OfferSettled
  <2>2. CASE /\ \A e : Settled(d, p, e)'
             /\ due' = [due EXCEPT ![<<d, p>>] = DOMAIN store[p].log]
    <3>1. \A x, y \in Devices : \/ x = d /\ y = p /\ due'[<<x, y>>] = DOMAIN store[p].log
                                \/ due'[<<x, y>>] = due[<<x, y>>]
      BY <1>2, <2>2 DEF FillInv, SyncInv
    <3>2. OfferHeld'
      BY <1>1, <3>1 DEF FillInv, OfferHeld
    <3>3. OfferSettled'
      BY <1>9, <2>2, <3>1 DEF FillInv, OfferSettled
    <3> QED
      BY <3>2, <3>3
  <2> QED
    BY <1>10, <2>1, <2>2
<1>12. Carried'
  BY <1>1, <1>4 DEF FillInv, Carried
<1> QED
  BY <1>5, <1>11, <1>12 DEF FillInv

\* Its fingerprint differed, so it asks for everything.
LEMMA OfferFills ==
  ASSUME FillInv, NEW m \in net, HandleOffer(m)
  PROVE  FillInv'
<1> DEFINE asked == IF m.has THEN {Request(m.to, m.from, NeedFrom(store[m.to], m.match))} ELSE {}
<1>1. /\ m.kind = "offer" /\ store' = store /\ due' = due
      /\ net' = (net \ {m}) \union asked
  BY DEF HandleOffer
<1>2. \A r \in asked : r.kind = "request"
  BY DEF Request
<1>3. ASSUME m.has, ~m.match
      PROVE  \E r \in asked : /\ r.kind = "request" /\ r.from = m.to /\ r.to = m.from
                              /\ r.need = 0
  BY <1>3 DEF Request, NeedFrom
<1> HIDE DEF asked
<1>4. ASSUME NEW d \in Devices, NEW p \in Devices, NEW e, NEW n \in net, Brings(n, d, p, e)
      PROVE  Settled(d, p, e)'
  <2>1. CASE n # m
    BY <1>1, <1>4, <2>1 DEF Settled, Pending
  <2>2. CASE n = m
    <3>1. m.has /\ ~m.match /\ m.from = p /\ m.to = d
      BY <1>1, <1>4, <2>2 DEF Brings
    <3>2. PICK r \in asked : Brings(r, d, p, e)
      BY <1>3, <3>1 DEF Brings
    <3> QED
      BY <1>1, <3>2 DEF Settled, Pending
  <2> QED
    BY <2>1, <2>2
<1>5. \A r \in net' : r \in net \/ (r.kind = "events" => DOMAIN r.batch \subseteq DOMAIN store'[r.from].log)
  BY <1>1, <1>2
<1>6. [PeerNext]_peerVars
  BY DEF PeerNext
<1> QED
  BY <1>1, <1>4, <1>5, <1>6, FillKept

\* Every event of the log is in one of the batches.
LEMMA BatchesCover ==
  ASSUME NEW w
  PROVE  /\ \A b \in InBatches(w) : DOMAIN b \subseteq DOMAIN w
         /\ \A e \in DOMAIN w : \E b \in InBatches(w) : e \in DOMAIN b
<1> DEFINE part(e) == {f \in DOMAIN w : (Rank(w, f) - 1) \div BatchSize
                                          = (Rank(w, e) - 1) \div BatchSize}
<1>1. InBatches(w) = {Restrict(w, part(e)) : e \in DOMAIN w}
  BY DEF InBatches
<1>2. \A e \in DOMAIN w : part(e) \subseteq DOMAIN w /\ e \in part(e)
  OBVIOUS
<1>3. \A S : DOMAIN Restrict(w, S) = S
  BY DEF Restrict
<1> HIDE DEF part
<1> QED
  BY <1>1, <1>2, <1>3

LEMMA RequestFills ==
  ASSUME FillInv, NEW m \in net, HandleRequest(m)
  PROVE  FillInv'
<1> DEFINE st == store[m.to]
           w == readLogSince(st, m.need)
<1>1. /\ m.kind = "request" /\ store' = store /\ due' = due
      /\ net' = (net \ {m}) \union {Events(m.to, m.from, b) : b \in InBatches(w)}
  BY DEF HandleRequest
<1>2. m.to \in Devices /\ SoundStore(st)
  BY DEF FillInv, SyncInv, IsMessage
<1>3. /\ DOMAIN w = {e \in DOMAIN st.log : st.log[e] > m.need}
      /\ DOMAIN w \subseteq DOMAIN st.log
  BY DEF readLogSince, Restrict
<1>4. m.need = 0 => DOMAIN w = DOMAIN st.log
  BY <1>2, <1>3 DEF SoundStore, Sound, IsEntries
<1> HIDE DEF w, st
<1>5. \A b \in InBatches(w) : DOMAIN b \subseteq DOMAIN w
  BY BatchesCover
<1>6. \A e \in DOMAIN w : \E b \in InBatches(w) : e \in DOMAIN b
  BY BatchesCover
<1>7. ASSUME NEW d \in Devices, NEW p \in Devices, NEW e \in due'[<<d, p>>],
             NEW n \in net, Brings(n, d, p, e)
      PROVE  Settled(d, p, e)'
  <2>1. CASE n # m
    BY <1>1, <1>7, <2>1 DEF Settled, Pending
  <2>2. CASE n = m
    <3>1. m.need = 0 /\ m.from = d /\ m.to = p
      BY <1>1, <1>7, <2>2 DEF Brings
    <3>2. e \in DOMAIN w
      BY <1>1, <1>4, <3>1 DEF FillInv, OfferHeld, st
    <3>3. PICK b \in InBatches(w) : e \in DOMAIN b
      BY <1>6, <3>2
    <3>4. Events(p, d, b) \in net'
      BY <1>1, <3>1
    <3>5. Brings(Events(p, d, b), d, p, e)
      BY <3>3 DEF Brings, Events
    <3> QED
      BY <3>4, <3>5 DEF Settled, Pending
  <2> QED
    BY <2>1, <2>2
<1>8. \A n \in net' : n \in net \/ (n.kind = "events" => DOMAIN n.batch \subseteq DOMAIN store'[n.from].log)
  <2> SUFFICES ASSUME NEW b \in InBatches(w)
               PROVE  LET n == Events(m.to, m.from, b) IN DOMAIN n.batch \subseteq DOMAIN store'[n.from].log
    BY <1>1
  <2> QED
    BY <1>1, <1>3, <1>5 DEF Events, st
<1>9. [PeerNext]_peerVars
  BY DEF PeerNext
<1> QED
  BY <1>1, <1>7, <1>8, <1>9, FillKept

\* A batch is folded, or stops at a target that both have made.
LEMMA EventsFills ==
  ASSUME FillInv, NEW m \in net, HandleEvents(m)
  PROVE  FillInv'
<1> DEFINE st == store[m.to]
           new == Imported(st, m.to, m.batch)
<1>1. /\ m.kind = "events" /\ store' = [store EXCEPT ![m.to] = new]
      /\ net' = net \ {m} /\ due' = due
  BY DEF HandleEvents
<1>2. m.to \in Devices /\ m.from \in Devices /\ IsEntries(m.batch)
  BY <1>1 DEF FillInv, SyncInv, IsMessage
<1>3. Rejects(st, m.batch) \/ DOMAIN m.batch \subseteq DOMAIN new.log
  BY <1>2, ImportedGrows
<1>4. store'[m.to] = new
  BY <1>1, <1>2 DEF FillInv, SyncInv
<1> HIDE DEF new
<1>5. PeerNext
  BY DEF PeerNext
<1>6. \A d \in Devices : Grows(store[d], store'[d])
  BY <1>5, StoresGrow DEF FillInv
<1>7. ASSUME NEW d \in Devices, NEW p \in Devices, NEW e, NEW n \in net, Brings(n, d, p, e)
      PROVE  Settled(d, p, e)'
  <2>1. CASE n # m
    BY <1>1, <1>7, <2>1 DEF Settled, Pending
  <2>2. CASE n = m
    <3>1. m.from = p /\ m.to = d /\ e \in DOMAIN m.batch
      BY <1>1, <1>7, <2>2 DEF Brings
    <3>2. CASE Rejects(st, m.batch)
      <4>1. PICK f \in DOMAIN m.batch : Clashes(store[d], f)
        BY <3>1, <3>2 DEF Rejects
      <4>2. f \in DOMAIN store'[p].log
        BY <1>1, <1>6, <3>1 DEF FillInv, Carried, Grows
      <4>3. Clashes(store'[d], f)
        BY <1>6, <4>1 DEF Grows
      <4> QED
        BY <4>2, <4>3 DEF Settled, Blocked, ClashWith
    <3>3. CASE DOMAIN m.batch \subseteq DOMAIN new.log
      BY <1>4, <3>1, <3>3 DEF Settled
    <3> QED
      BY <1>3, <3>2, <3>3
  <2> QED
    BY <2>1, <2>2
<1> QED
  BY <1>1, <1>5, <1>7, FillKept

\* What is lost is no longer due.
LEMMA LoseFills ==
  ASSUME FillInv, NEW m \in net, Lose(m)
  PROVE  FillInv'
<1>1. /\ net' = net \ {m} /\ store' = store
      /\ due' = [dp \in Devices \X Devices |->
                   IF m.kind # "hello" /\ {m.from, m.to} = {dp[1], dp[2]} THEN {} ELSE due[dp]]
  BY DEF Lose
<1>2. \A d, p \in Devices :
        due'[<<d, p>>] = IF m.kind # "hello" /\ {m.from, m.to} = {d, p} THEN {} ELSE due[<<d, p>>]
  BY <1>1
<1>3. ASSUME NEW d \in Devices, NEW p \in Devices, NEW e \in due'[<<d, p>>],
             NEW n \in net, Brings(n, d, p, e)
      PROVE  Settled(d, p, e)'
  <2>1. n.kind # "hello" /\ {n.from, n.to} = {d, p}
    BY <1>3 DEF Brings
  <2>2. n # m
    BY <1>2, <1>3, <2>1
  <2> QED
    BY <1>1, <1>3, <2>2 DEF Settled, Pending
<1>4. [PeerNext]_peerVars
  BY DEF PeerNext
<1>5. \A d, p \in Devices : due'[<<d, p>>] \subseteq due[<<d, p>>]
  BY <1>2
<1>6. \A n \in net' : n \in net
  BY <1>1
<1> QED
  BY <1>3, <1>4, <1>5, <1>6, FillKept

LEMMA FillInitial == PeerInit => FillInv
<1> SUFFICES ASSUME PeerInit PROVE FillInv
  OBVIOUS
<1>1. net = {} /\ \A d, p \in Devices : due[<<d, p>>] = {}
  BY DEF PeerInit
<1> QED
  BY <1>1, SyncInit DEF FillInv, Carried, OfferHeld, OfferSettled

LEMMA FillStep == FillInv /\ [PeerNext]_peerVars => FillInv'
<1> SUFFICES ASSUME FillInv, [PeerNext]_peerVars PROVE FillInv'
  OBVIOUS
<1>1. CASE \E d \in Devices : Announce(d)
  <2>1. PICK d \in Devices : Announce(d)
    BY <1>1
  <2>2. \A m \in net' : m \in net \/ m.kind = "hello"
    BY <2>1 DEF Announce, Hello
  <2> QED
    BY <2>1, <2>2, AddingFills DEF Announce
<1>2. CASE \E d \in Devices, e \in Edits : Dispatch(d, e)
  BY <1>2, DispatchFills
<1>3. CASE \E m \in net : HandleHello(m)
  BY <1>3, HelloFills
<1>4. CASE \E m \in net : HandleOffer(m)
  BY <1>4, OfferFills
<1>5. CASE \E m \in net : HandleRequest(m)
  BY <1>5, RequestFills
<1>6. CASE \E m \in net : HandleEvents(m)
  BY <1>6, EventsFills
<1>7. CASE \E m \in net : Lose(m)
  BY <1>7, LoseFills
<1>8. CASE UNCHANGED peerVars
  BY <1>8, AddingFills DEF peerVars
<1> QED
  BY <1>1, <1>2, <1>3, <1>4, <1>5, <1>6, <1>7, <1>8 DEF PeerNext

-----------------------------------------------------------------------------
(* Theorems. *)

LEMMA SyncInvariant == PeerSpec => []SyncInv
BY SyncInit, SyncStep, PTL DEF PeerSpec

\* Type correctness: the seqs of peer-sync.ts and of the fold stay numbers, and
\* messages carry what their handlers read.
THEOREM PeerTypeCorrect == PeerSpec => []TypeOK
<1>1. SyncInv => TypeOK
  BY DEF SyncInv, TypeOK, SoundStore, Sound
<1> QED
  BY <1>1, SyncInvariant, PTL

\* Two devices may each make a target (checkAndPromote), and each may send its INS to
\* the other, in any batch: no log ever holds both.
THEOREM OneInstantiation == PeerSpec => []InstantiatedOnce
<1>1. SyncInv => InstantiatedOnce
  BY DEF SyncInv, InstantiatedOnce, SoundStore, Sound, OneINS
<1> QED
  BY <1>1, SyncInvariant, PTL

\* SeqReservoir, with batches that hold known events or stop in the middle.
THEOREM SeqsStayDistinct == PeerSpec => []SeqsDistinct
<1>1. SyncInv => SeqsDistinct
  BY DEF SyncInv, SeqsDistinct, SoundStore, Sound, Injective, Bounded
<1> QED
  BY <1>1, SyncInvariant, PTL

\* The pre-pass of processEventsBulk: an INS first, in whatever order peers sent them.
THEOREM TargetsConstitutedFirst == PeerSpec => []ConstitutedFirst
<1>1. SyncInv => ConstitutedFirst
  BY DEF SyncInv, ConstitutedFirst, SoundStore, Constituted
<1> QED
  BY <1>1, SyncInvariant, PTL

\* The idempotency check: an event that is sent again does not move in a log.
THEOREM EntriesStandStill == PeerSpec => EntriesStand
<1>1. SyncInv /\ [PeerNext]_peerVars
        => [\A d \in Devices : \A e \in DOMAIN store[d].log :
              e \in DOMAIN store'[d].log /\ store'[d].log[e] = store[d].log[e]]_peerVars
  BY SyncStep DEF Kept
<1> QED
  BY <1>1, SyncInvariant, PTL DEF PeerSpec, EntriesStand

\* The exchange of peer-sync.ts fills the gaps: a device whose fingerprint differed and
\* that was answered, with nothing lost, holds what the peer held then, whatever else was
\* sent, late or repeated meanwhile, or the two have each made a target (handleOffer asks
\* from zero, sendEventsToPeer leaves no event of the log out of its batches).
THEOREM GapsGetFilled == PeerSpec => []GapFilled
<1>1. ASSUME FillInv, NEW d \in Devices, NEW p \in Devices, Between(d, p) = {}
      PROVE  due[<<d, p>>] \subseteq DOMAIN store[d].log \/ ClashWith(d, DOMAIN store[p].log)
  <2>1. \A e, m : Brings(m, d, p, e) => m.kind # "hello" /\ {m.from, m.to} = {d, p}
    BY DEF Brings
  <2>2. \A e : ~Pending(d, p, e)
    BY <1>1, <2>1 DEF Between, Pending
  <2> QED
    BY <1>1, <2>2 DEF FillInv, OfferSettled, Settled, Blocked
<1>2. FillInv => GapFilled
  BY <1>1 DEF GapFilled
<1> QED
  BY <1>2, FillInitial, FillStep, PTL DEF PeerSpec
=============================================================================
