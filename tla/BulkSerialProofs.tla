-------------------------- MODULE BulkSerialProofs --------------------------
(***************************************************************************)
(* An import leaves what the serial fold of its events leaves (theorem     *)
(* ImportsAreSerial), for any targets, shards and batches.                 *)
(*                                                                         *)
(* What a store shows of a target is determined by the target's ledger,    *)
(* the events that the log has on it, each once.  The import and the       *)
(* serial fold, wave by wave, log the same events on every target in the   *)
(* same order, though the targets take turns otherwise.                    *)
(***************************************************************************)
EXTENDS BulkFoldProofs

-----------------------------------------------------------------------------
(* Ledgers: the events that a log has on one target, each once. *)

Noted(l, x, t) ==
  IF x.ev.on # t \/ (x.ev.id # 0 /\ x.ev \in ToSet(l)) THEN l ELSE Append(l, x.ev)
NoteAll(l, xs, t) == FoldLeft(LAMBDA acc, x : Noted(acc, x, t), l, xs)
Ledger(log, t)    == NoteAll(<< >>, log, t)

\* A ledger, as the entries are noted one by one.
Noting(a, l, xs, t) ==
  /\ a[0] = l /\ a[Len(xs)] = NoteAll(l, xs, t)
  /\ \A i \in 1 .. Len(xs) : a[i] = Noted(a[i - 1], xs[i], t)

\* What is noted stays in the ledger, and one entry adds its event.
LEMMA NotedOne ==
  ASSUME NEW l \in Seq(Event), NEW x \in Planned, NEW t
  PROVE  /\ Noted(l, x, t) \in Seq(Event)
         /\ ToSet(Noted(l, x, t)) = ToSet(l) \union (IF x.ev.on = t THEN {x.ev} ELSE {})
<1>1. x.ev \in Event
  BY DEF Planned
<1>2. Append(l, x.ev) \in Seq(Event) /\ ToSet(Append(l, x.ev)) = ToSet(l) \union {x.ev}
  BY <1>1, Appended
<1> QED
  BY <1>1, <1>2 DEF Noted

\* The ledgers on the way.
LEMMA NotingRuns ==
  ASSUME NEW l \in Seq(Event), NEW xs \in Seq(Planned), NEW t
  PROVE  \E a \in [0 .. Len(xs) -> Seq(Event)] : Noting(a, l, xs, t)
<1> DEFINE F == [p \in (Seq(Event)) \X (Planned) |-> Noted(p[1], p[2], t)]
           D == DOMAIN xs
<1>0. D = 1 .. Len(xs) /\ Len(xs) \in Nat /\ \A i \in 1 .. Len(xs) : xs[i] \in Planned
  OBVIOUS
<1>1. ASSUME NEW u \in Seq(Event), NEW x \in Planned PROVE (Noted(u, x, t)) \in Seq(Event)
  BY NotedOne
<1>2. \A u \in Seq(Event), x \in Planned : F[<<u, x>>] = Noted(u, x, t)
  OBVIOUS
<1>3. \A u \in Seq(Event), x \in Planned : F[<<u, x>>] \in Seq(Event)
  <2> HIDE DEF F
  <2> QED
    BY <1>1, <1>2
<1>4. l \in Seq(Event)
  OBVIOUS
<1>5. PICK h : Steps(F, l, xs, h)
  BY FoldExists
<1>6. \A S \in SUBSET D : h[S] \in Seq(Event)
  <2> HIDE DEF F
  <2> QED
    BY <1>3, <1>4, <1>5, FoldStays, Zenon
<1>7. h = [S \in SUBSET D |->
             IF S = {} THEN l ELSE Noted(h[S \ {Max(S)}], xs[Max(S)], t)]
  <2>1. ASSUME NEW S \in SUBSET D, S # {}
        PROVE  F[<<h[S \ {Max(S)}], xs[Max(S)]>>] =
                 Noted(h[S \ {Max(S)}], xs[Max(S)], t)
    <3>1. Max(S) \in S
      BY <1>0, <2>1, MaxIsGreatest
    <3>2. h[S \ {Max(S)}] \in Seq(Event) /\ xs[Max(S)] \in Planned
      BY <1>0, <1>6, <3>1
    <3> HIDE DEF F
    <3> QED
      BY <1>2, <3>2
  <2> HIDE DEF F
  <2> QED
    BY <1>5, <2>1, Zenon DEF Steps
<1>8. PICK g : /\ g = [S \in SUBSET D |->
                        IF S = {} THEN l ELSE Noted(g[S \ {Max(S)}], xs[Max(S)], t)]
               /\ NoteAll(l, xs, t) = g[D]
  <2> HIDE DEF F
  <2> QED
    BY <1>7 DEF FoldLeft, MapThenFoldSet, NoteAll
<1> DEFINE a == [i \in 0 .. Len(xs) |-> g[1 .. i]]
<1>9. a[0] = l
  <2>1. 1 .. 0 = {} /\ {} \in SUBSET D
    OBVIOUS
  <2>2. g[{}] = l
    BY <1>8, <2>1, Zenon
  <2> QED
    BY <2>1, <2>2
<1>10. ASSUME NEW i \in 1 .. Len(xs) PROVE a[i] = Noted(a[i - 1], xs[i], t)
  <2>1. /\ 1 .. i \in SUBSET D /\ 1 .. i # {} /\ Max(1 .. i) = i
        /\ (1 .. i) \ {i} = 1 .. i - 1
    BY <1>0, Segments
  <2>2. g[1 .. i] = Noted(g[1 .. i - 1], xs[i], t)
    BY <1>8, <2>1, Zenon
  <2>3. i - 1 \in 0 .. Len(xs) /\ i \in 0 .. Len(xs)
    OBVIOUS
  <2> QED
    BY <2>2, <2>3, Zenon
<1>11. \A i \in 0 .. Len(xs) : a[i] \in Seq(Event)
  <2> DEFINE A == {i \in 0 .. Len(xs) : a[i] \in Seq(Event)}
  <2>1. 0 \in A
    <3>1. 0 \in 0 .. Len(xs)
      OBVIOUS
    <3> QED
      BY <1>4, <1>9, <3>1, Zenon
  <2>2. ASSUME NEW i \in 0 .. Len(xs) - 1, i \in A PROVE i + 1 \in A
    <3>1. /\ i + 1 \in 1 .. Len(xs) /\ (i + 1) - 1 = i /\ i + 1 \in 0 .. Len(xs)
          /\ a[i] \in Seq(Event) /\ xs[i + 1] \in Planned
      BY <1>0, <2>2
    <3> HIDE DEF a
    <3>2. a[i + 1] = Noted(a[i], xs[i + 1], t)
      BY <1>10, <3>1
    <3>3. a[i + 1] \in Seq(Event)
      BY <1>1, <3>1, <3>2
    <3> QED
      BY <3>1, <3>3
  <2> HIDE DEF A
  <2>3. \A i \in 0 .. Len(xs) : i \in A
    BY <1>0, <2>1, <2>2, UpTo, Zenon
  <2> QED
    BY <2>3 DEF A
<1>12. a \in [0 .. Len(xs) -> Seq(Event)]
  BY <1>11
<1>13. a[Len(xs)] = NoteAll(l, xs, t)
  BY <1>0, <1>8
<1> HIDE DEF a
<1> QED
  BY <1>9, <1>10, <1>12, <1>13 DEF Noting

Ends(a, l, xs, t)  == a[Len(xs)] = NoteAll(l, xs, t) /\ NoteAll(l, xs, t) \in Seq(Event)
Along(a, l, xs, t) == a[0] = l /\ \A i \in 1 .. Len(xs) : a[i] = Noted(a[i - 1], xs[i], t)

\* A run that starts with l and notes xs ends in NoteAll.
LEMMA NotingEnds ==
  ASSUME NEW l \in Seq(Event), NEW xs \in Seq(Planned), NEW t, NEW a, Along(a, l, xs, t)
  PROVE  Ends(a, l, xs, t)
<1>1. PICK b \in [0 .. Len(xs) -> Seq(Event)] : Noting(b, l, xs, t)
  BY NotingRuns
<1>2. Len(xs) \in Nat
  OBVIOUS
<1> DEFINE A == {i \in 0 .. Len(xs) : a[i] = b[i]}
<1>3. 0 \in A
  BY <1>1, <1>2 DEF Noting, Along
<1>4. ASSUME NEW i \in 0 .. Len(xs) - 1, i \in A PROVE i + 1 \in A
  <2>1. i + 1 \in 1 .. Len(xs) /\ (i + 1) - 1 = i /\ a[i] = b[i] /\ i + 1 \in 0 .. Len(xs)
    BY <1>2, <1>4
  <2>2. a[i + 1] = Noted(a[i], xs[i + 1], t) /\ b[i + 1] = Noted(b[i], xs[i + 1], t)
    BY <1>1, <2>1 DEF Noting, Along
  <2> QED
    BY <2>1, <2>2
<1> HIDE DEF A
<1>5. Len(xs) \in A
  BY <1>2, <1>3, <1>4, AtTheEnd, Zenon
<1>6. a[Len(xs)] = b[Len(xs)]
  BY <1>5 DEF A
<1>7. b[Len(xs)] = NoteAll(l, xs, t) /\ b[Len(xs)] \in Seq(Event)
  <2>1. Len(xs) \in 0 .. Len(xs)
    BY <1>2
  <2> QED
    BY <1>1, <2>1 DEF Noting
<1> QED
  BY <1>6, <1>7 DEF Ends

\* Noting two sequences one behind the other.
LEMMA NoteJoined ==
  ASSUME NEW l \in Seq(Event), NEW xs \in Seq(Planned), NEW ys \in Seq(Planned), NEW t
  PROVE  NoteAll(l, xs \o ys, t) = NoteAll(NoteAll(l, xs, t), ys, t)
<1> DEFINE n == Len(xs)
           m == Len(ys)
           k == NoteAll(l, xs, t)
<1>1. PICK a \in [0 .. n -> Seq(Event)] : Noting(a, l, xs, t)
  BY NotingRuns
<1>2. n \in Nat /\ m \in Nat
  OBVIOUS
<1>3. a[0] = l /\ a[n] = k /\ \A i \in 1 .. n : a[i] = Noted(a[i - 1], xs[i], t)
  BY <1>1 DEF Noting
<1>4. k \in Seq(Event)
  <2>1. n \in 0 .. n
    BY <1>2
  <2> QED
    BY <1>1, <1>3, <2>1
<1> HIDE DEF k
<1>5. PICK b \in [0 .. m -> Seq(Event)] : Noting(b, k, ys, t)
  BY <1>4, NotingRuns
<1>6. b[0] = k /\ b[m] = NoteAll(k, ys, t) /\ \A i \in 1 .. m : b[i] = Noted(b[i - 1], ys[i], t)
  BY <1>5 DEF Noting
<1> DEFINE z == xs \o ys
           c == [i \in 0 .. n + m |-> IF i <= n THEN a[i] ELSE b[i - n]]
<1>7. /\ z \in Seq(Planned) /\ Len(z) = n + m /\ \A i \in 1 .. n : z[i] = xs[i]
      /\ \A i \in 1 .. m : z[n + i] = ys[i]
  BY JoinedElements
<1> HIDE DEF n, m, z
<1>8. c[0] = l
  BY <1>2, <1>3
<1>9. ASSUME NEW i \in 1 .. n + m PROVE c[i] = Noted(c[i - 1], z[i], t)
  <2>1. i - 1 \in 0 .. n + m /\ i \in 0 .. n + m /\ i - 1 <= n + m
    BY <1>2
  <2>2. CASE i <= n
    <3>1. i \in 1 .. n /\ i - 1 <= n
      BY <1>2, <2>2
    <3>2. c[i] = a[i] /\ c[i - 1] = a[i - 1]
      BY <2>1, <2>2, <3>1
    <3> QED
      BY <1>3, <1>7, <3>1, <3>2
  <2>3. CASE i > n
    <3> DEFINE j == i - n
    <3>1. j \in 1 .. m /\ n + j = i /\ ~(i <= n)
      BY <1>2, <2>3
    <3>2. c[i] = b[j]
      BY <2>1, <3>1
    <3>3. c[i - 1] = b[j - 1]
      <4>1. CASE j = 1
        <5>1. i - 1 = n /\ i - 1 <= n /\ j - 1 = 0
          BY <1>2, <4>1
        <5>2. c[i - 1] = a[n]
          BY <2>1, <5>1
        <5> QED
          BY <1>3, <1>6, <5>1, <5>2
      <4>2. CASE j # 1
        <5>1. ~(i - 1 <= n) /\ (i - 1) - n = j - 1
          BY <1>2, <3>1, <4>2
        <5> HIDE DEF j
        <5> QED
          BY <2>1, <5>1
      <4> QED
        BY <4>1, <4>2
    <3>4. z[i] = ys[j] /\ b[j] = Noted(b[j - 1], ys[j], t)
      BY <1>6, <1>7, <3>1
    <3> QED
      BY <3>2, <3>3, <3>4
  <2> QED
    BY <1>2, <2>2, <2>3
<1>10. c[n + m] = b[m]
  <2>1. CASE m = 0
    BY <1>2, <1>3, <1>6, <2>1
  <2>2. CASE m # 0
    <3>1. ~(n + m <= n) /\ (n + m) - n = m /\ n + m \in 0 .. n + m
      BY <1>2, <2>2
    <3> QED
      BY <3>1
  <2> QED
    BY <2>1, <2>2
<1> HIDE DEF c
<1>11. c[Len(z)] = NoteAll(l, z, t)
  <2>1. Along(c, l, z, t)
    BY <1>7, <1>8, <1>9 DEF Along
  <2>2. z \in Seq(Planned)
    BY <1>7
  <2>3. Ends(c, l, z, t)
    BY <2>1, <2>2, NotingEnds
  <2> QED
    BY <2>3 DEF Ends
<1> QED
  BY <1>6, <1>7, <1>10, <1>11 DEF z, k

\* Noting nothing, and one entry.
LEMMA NoteNone ==
  ASSUME NEW l \in Seq(Event), NEW t
  PROVE  NoteAll(l, << >>, t) = l
<1> DEFINE a == [i \in {0} |-> l]
           s == << >>
<1>1. a[Len(s)] = NoteAll(l, s, t)
  <2>1. s \in Seq(Planned) /\ Len(s) = 0 /\ a[0] = l
    OBVIOUS
  <2> HIDE DEF a, s
  <2>2. \A i \in 1 .. Len(s) : a[i] = Noted(a[i - 1], s[i], t)
    BY <2>1
  <2>3. Along(a, l, s, t)
    BY <2>1, <2>2 DEF Along
  <2>4. Ends(a, l, s, t)
    BY <2>1, <2>3, NotingEnds
  <2> QED
    BY <2>4 DEF Ends
<1> QED
  BY <1>1

\* One entry is noted as it is alone.
LEMMA NoteOnly ==
  ASSUME NEW l \in Seq(Event), NEW x \in Planned, NEW t
  PROVE  NoteAll(l, <<x>>, t) = Noted(l, x, t)
<1> DEFINE a == [i \in {0, 1} |-> IF i = 0 THEN l ELSE Noted(l, x, t)]
           s == <<x>>
<1>1. a[Len(s)] = NoteAll(l, s, t)
  <2>1. s \in Seq(Planned) /\ Len(s) = 1 /\ s[1] = x /\ a[0] = l /\ a[1] = Noted(l, x, t)
    OBVIOUS
  <2> HIDE DEF a, s
  <2>2. \A i \in 1 .. Len(s) : a[i] = Noted(a[i - 1], s[i], t)
    BY <2>1
  <2>3. Along(a, l, s, t)
    BY <2>1, <2>2 DEF Along
  <2>4. Ends(a, l, s, t)
    BY <2>1, <2>3, NotingEnds
  <2> QED
    BY <2>4 DEF Ends
<1> QED
  BY <1>1

\* One entry more, at the end or in front.
LEMMA NoteEnds ==
  ASSUME NEW l \in Seq(Event), NEW xs \in Seq(Planned), NEW x \in Planned, NEW t
  PROVE  /\ NoteAll(l, xs, t) \in Seq(Event)
         /\ NoteAll(l, Append(xs, x), t) = Noted(NoteAll(l, xs, t), x, t)
         /\ xs # << >> => NoteAll(l, xs, t) = NoteAll(Noted(l, Head(xs), t), Tail(xs), t)
<1>1. NoteAll(l, xs, t) \in Seq(Event)
  <2>1. PICK a \in [0 .. Len(xs) -> Seq(Event)] : Noting(a, l, xs, t)
    BY NotingRuns
  <2> QED
    BY <2>1 DEF Noting
<1>2. Append(xs, x) = xs \o <<x>> /\ <<x>> \in Seq(Planned)
  OBVIOUS
<1>3. NoteAll(l, Append(xs, x), t) = Noted(NoteAll(l, xs, t), x, t)
  <2> DEFINE k == NoteAll(l, xs, t)
             y == <<x>>
  <2>1. NoteAll(l, xs \o y, t) = NoteAll(k, y, t)
    <3>1. y \in Seq(Planned)
      BY <1>2
    <3> HIDE DEF y, k
    <3>2. NoteAll(l, xs \o y, t) = NoteAll(NoteAll(l, xs, t), y, t)
      BY <3>1, NoteJoined
    <3> QED
      BY <3>2 DEF k
  <2>2. k \in Seq(Event)
    BY <1>1
  <2> HIDE DEF k
  <2>3. NoteAll(k, y, t) = Noted(k, x, t)
    BY <2>2, NoteOnly
  <2> QED
    BY <1>2, <2>1, <2>3 DEF k
<1>4. ASSUME xs # << >> PROVE NoteAll(l, xs, t) = NoteAll(Noted(l, Head(xs), t), Tail(xs), t)
  <2> DEFINE h == <<Head(xs)>>
  <2>1. h \in Seq(Planned) /\ Tail(xs) \in Seq(Planned) /\ xs = h \o Tail(xs) /\ Head(xs) \in Planned
    BY <1>4
  <2>2. NoteAll(l, h, t) = Noted(l, Head(xs), t)
    BY <2>1, NoteOnly
  <2> DEFINE y == Tail(xs)
  <2>3. h \in Seq(Planned) /\ y \in Seq(Planned)
    BY <2>1
  <2> HIDE DEF h, y
  <2>4. NoteAll(l, h \o y, t) = NoteAll(NoteAll(l, h, t), y, t)
    BY <2>3, NoteJoined
  <2> QED
    BY <2>1, <2>2, <2>4 DEF y
<1> QED
  BY <1>1, <1>3, <1>4

\* The events of a ledger.
LEMMA NoteElements ==
  ASSUME NEW l \in Seq(Event), NEW xs \in Seq(Planned), NEW t
  PROVE  ToSet(NoteAll(l, xs, t)) = ToSet(l) \union {x.ev : x \in {y \in ToSet(xs) : y.ev.on = t}}
<1>1. PICK a \in [0 .. Len(xs) -> Seq(Event)] : Noting(a, l, xs, t)
  BY NotingRuns
<1>2. /\ Len(xs) \in Nat /\ ToSet(xs) = {xs[i] : i \in 1 .. Len(xs)}
      /\ \A i \in 1 .. Len(xs) : xs[i] \in Planned
  BY ElementsOf
<1> DEFINE S(i) == {xs[j].ev : j \in {m \in 1 .. i : xs[m].ev.on = t}}
           A == {i \in 0 .. Len(xs) : ToSet(a[i]) = ToSet(l) \union S(i)}
<1>3. 0 \in A
  BY <1>1, <1>2 DEF Noting
<1>4. ASSUME NEW i \in 0 .. Len(xs) - 1, i \in A PROVE i + 1 \in A
  <2>1. i + 1 \in 1 .. Len(xs) /\ (i + 1) - 1 = i /\ i + 1 \in 0 .. Len(xs) /\ i \in 0 .. Len(xs)
    BY <1>2
  <2> DEFINE x == xs[i + 1]
  <2>2. a[i + 1] = Noted(a[i], x, t) /\ a[i] \in Seq(Event) /\ x \in Planned
    BY <1>1, <1>2, <2>1 DEF Noting
  <2>3. ToSet(a[i + 1]) = ToSet(a[i]) \union (IF x.ev.on = t THEN {x.ev} ELSE {})
    BY <2>2, NotedOne
  <2>4. S(i + 1) = S(i) \union (IF x.ev.on = t THEN {x.ev} ELSE {})
    <3>1. 1 .. i + 1 = (1 .. i) \union {i + 1}
      BY <2>1
    <3> QED
      BY <3>1
  <2>5. ToSet(a[i]) = ToSet(l) \union S(i)
    BY <1>4
  <2> HIDE DEF x, S
  <2> QED
    BY <2>1, <2>3, <2>4, <2>5
<1> HIDE DEF A
<1>5. Len(xs) \in A
  BY <1>2, <1>3, <1>4, AtTheEnd, Zenon
<1>6. S(Len(xs)) = {x.ev : x \in {y \in ToSet(xs) : y.ev.on = t}}
  BY <1>2
<1>7. a[Len(xs)] = NoteAll(l, xs, t)
  BY <1>1 DEF Noting
<1>8. ToSet(a[Len(xs)]) = ToSet(l) \union S(Len(xs))
  BY <1>5 DEF A
<1> HIDE DEF S
<1> QED
  BY <1>6, <1>7, <1>8

\* Entries of other targets add nothing.
LEMMA NoteOfOthers ==
  ASSUME NEW l \in Seq(Event), NEW xs \in Seq(Planned), NEW t, \A x \in ToSet(xs) : x.ev.on # t
  PROVE  NoteAll(l, xs, t) = l
<1> DEFINE a == [i \in 0 .. Len(xs) |-> l]
<1>1. Len(xs) \in Nat /\ ToSet(xs) = {xs[i] : i \in 1 .. Len(xs)}
  BY ElementsOf
<1>2. ASSUME NEW i \in 1 .. Len(xs) PROVE a[i] = Noted(a[i - 1], xs[i], t)
  <2>1. i - 1 \in 0 .. Len(xs) /\ i \in 0 .. Len(xs) /\ xs[i].ev.on # t
    BY <1>1
  <2>2. Noted(l, xs[i], t) = l
    BY <2>1 DEF Noted
  <2> QED
    BY <2>1, <2>2
<1>3. a[0] = l /\ a[Len(xs)] = l
  BY <1>1
<1> HIDE DEF a
<1>4. a[Len(xs)] = NoteAll(l, xs, t)
  <2>1. Along(a, l, xs, t)
    BY <1>2, <1>3 DEF Along
  <2>2. Ends(a, l, xs, t)
    BY <2>1, NotingEnds
  <2> QED
    BY <2>2 DEF Ends
<1> QED
  BY <1>3, <1>4

\* Only the entries of the target count.
LEMMA NoteOfTarget ==
  ASSUME NEW l \in Seq(Event), NEW xs \in Seq(Planned), NEW t
  PROVE  NoteAll(l, OfTarget(xs, t), t) = NoteAll(l, xs, t)
<1> DEFINE P == {x \in ToSet(xs) : x.ev.on = t}
<1>1. PICK a \in [0 .. Len(xs) -> Seq(Event)] : Noting(a, l, xs, t)
  BY NotingRuns
<1>2. PICK b \in [0 .. Len(xs) -> Seq(Planned)] : Filling(b, xs, P)
  BY BucketFold
<1>3. Len(xs) \in Nat /\ ToSet(xs) = {xs[i] : i \in 1 .. Len(xs)}
  BY ElementsOf
<1> DEFINE A == {i \in 0 .. Len(xs) : NoteAll(l, b[i], t) = a[i]}
<1>4. 0 \in A
  <2>1. a[0] = l /\ b[0] = << >> /\ 0 \in 0 .. Len(xs)
    BY <1>1, <1>2, <1>3 DEF Noting, Filling
  <2>2. NoteAll(l, b[0], t) = l
    BY <2>1, NoteNone
  <2> QED
    BY <2>1, <2>2
<1>5. ASSUME NEW i \in 0 .. Len(xs) - 1, i \in A PROVE i + 1 \in A
  <2> DEFINE x == xs[i + 1]
  <2>1. /\ i + 1 \in 1 .. Len(xs) /\ (i + 1) - 1 = i /\ i + 1 \in 0 .. Len(xs) /\ i \in 0 .. Len(xs)
        /\ x \in Planned /\ x \in ToSet(xs) /\ b[i] \in Seq(Planned)
    <3>1. i + 1 \in 1 .. Len(xs) /\ (i + 1) - 1 = i /\ i + 1 \in 0 .. Len(xs) /\ i \in 0 .. Len(xs)
      BY <1>3
    <3>2. b[i] \in Seq(Planned)
      BY <1>2, <3>1
    <3>3. x \in Planned /\ x \in ToSet(xs)
      BY <1>3, <3>1
    <3> QED
      BY <3>1, <3>2, <3>3
  <2>2. a[i + 1] = Noted(a[i], x, t)
    BY <1>1, <2>1 DEF Noting
  <2>3. b[i + 1] = IF x \in P THEN Append(b[i], x) ELSE b[i]
    BY <1>2, <2>1 DEF Filling
  <2>4. NoteAll(l, b[i], t) = a[i]
    BY <1>5
  <2>5. CASE x.ev.on = t
    <3>1. NoteAll(l, Append(b[i], x), t) = Noted(NoteAll(l, b[i], t), x, t)
      BY <2>1, NoteEnds
    <3> QED
      BY <2>1, <2>2, <2>3, <2>4, <2>5, <3>1
  <2>6. CASE x.ev.on # t
    BY <2>1, <2>2, <2>3, <2>4, <2>6 DEF Noted
  <2> QED
    BY <2>5, <2>6
<1> HIDE DEF A
<1>6. Len(xs) \in A
  BY <1>3, <1>4, <1>5, AtTheEnd, Zenon
<1> QED
  BY <1>1, <1>2, <1>6 DEF A, Noting, Filling, OfTarget

-----------------------------------------------------------------------------
(* A row but for its metrics depends on the ledger of its target alone. *)

\* Twins show the same of a target: its row but for its metrics, the edges that leave it, its
\* helix position.
Out(s, t) == {d \in Targets : <<t, d>> \in s.edges}
SameButMetrics(a, b) ==
  a.on = b.on /\ a.base = b.base /\ a.def = b.def /\ a.edges = b.edges /\ a.fold = b.fold
Twin(s, r, t) == /\ SameButMetrics(s.rows[t], r.rows[t]) /\ Out(s, t) = Out(r, t)
                 /\ (t \in s.helix <=> t \in r.helix)

\* Twins of twins are twins.
LEMMA TwinIsEquivalence ==
  /\ \A s, t : Twin(s, s, t)
  /\ \A s, r, t : Twin(s, r, t) => Twin(r, s, t)
  /\ \A s, r, q, t : Twin(s, r, t) /\ Twin(r, q, t) => Twin(s, q, t)
BY DEF Twin, SameButMetrics

\* What an operation puts, but for the metrics, it takes from the row and from the
\* edges that leave the target.
LEMMA PutTwins ==
  ASSUME NEW o \in RowOp, NEW e \in Event, NEW a \in Row, NEW b \in Row, SameButMetrics(a, b),
         NEW E \in SUBSET (Targets \X Targets), NEW F \in SUBSET (Targets \X Targets),
         \A d \in Targets : <<e.on, d>> \in E <=> <<e.on, d>> \in F
  PROVE  /\ SameButMetrics(Put(o, e, a, a, E), Put(o, e, b, b, F))
         /\ o.do = "metrics" => SameButMetrics(a, Put(o, e, a, a, E))
         /\ Skips(o, e, a) <=> Skips(o, e, b)
<1>1. CASE o.do = "metrics"
  BY <1>1 DEF Put, Row, SameButMetrics, Skips
<1>2. CASE o.do = "cache"
  BY <1>2 DEF Put, Row, SameButMetrics, Skips
<1>3. CASE o.do \notin {"metrics", "cache"} /\ e.op = "DEF"
  BY <1>3 DEF Put, Row, SameButMetrics, Skips
<1>4. CASE o.do \notin {"metrics", "cache"} /\ e.op = "CON"
  BY <1>4 DEF Put, Row, SameButMetrics, Skips
<1>5. CASE o.do \notin {"metrics", "cache"} /\ e.op \notin {"DEF", "CON"}
  BY <1>5 DEF Put, Row, SameButMetrics, Skips
<1> QED
  BY <1>1, <1>2, <1>3, <1>4, <1>5

\* An operation of an event on the rows of twins.
LEMMA RowOpTwins ==
  ASSUME NEW s \in Store, NEW r \in Store, NEW e \in Event, NEW o \in OpsOf(e), Twin(s, r, e.on)
  PROVE  Twin(DoRowOp(s, o, e), DoRowOp(r, o, e), e.on)
<1> DEFINE S == DoRowOp(s, o, e)
           R == DoRowOp(r, o, e)
           t == e.on
<1>1. o \in RowOp /\ t \in Targets
  BY DEF OpsOf, Event
<1>2. /\ S.edges = s.edges /\ (t # o.row => S.rows[t] = s.rows[t])
      /\ S.rows[o.row] = IF o.do = "declare" \/ Skips(o, e, s.rows[o.row])
                         THEN s.rows[o.row] ELSE Put(o, e, s.rows[o.row], s.rows[o.row], s.edges)
      /\ S.helix = IF o.do = "declare" /\ e.op = "INS" THEN s.helix \union {e.on} ELSE s.helix
  BY <1>1, RowOpEffect
<1>3. /\ R.edges = r.edges /\ (t # o.row => R.rows[t] = r.rows[t])
      /\ R.rows[o.row] = IF o.do = "declare" \/ Skips(o, e, r.rows[o.row])
                         THEN r.rows[o.row] ELSE Put(o, e, r.rows[o.row], r.rows[o.row], r.edges)
      /\ R.helix = IF o.do = "declare" /\ e.op = "INS" THEN r.helix \union {e.on} ELSE r.helix
  BY <1>1, RowOpEffect
<1> HIDE DEF S, R
<1>4. Out(S, t) = Out(R, t) /\ (t \in S.helix <=> t \in R.helix)
  BY <1>2, <1>3 DEF Twin, Out
<1>5. SameButMetrics(S.rows[t], R.rows[t])
  <2>1. CASE t # o.row
    BY <1>2, <1>3, <2>1 DEF Twin
  <2>2. CASE t = o.row
    <3>1. /\ s.rows[t] \in Row /\ r.rows[t] \in Row /\ SameButMetrics(s.rows[t], r.rows[t])
          /\ s.edges \in SUBSET (Targets \X Targets) /\ r.edges \in SUBSET (Targets \X Targets)
          /\ \A d \in Targets : <<t, d>> \in s.edges <=> <<t, d>> \in r.edges
      BY <1>1 DEF Twin, Out, Store
    <3>2. /\ SameButMetrics(Put(o, e, s.rows[t], s.rows[t], s.edges), Put(o, e, r.rows[t], r.rows[t], r.edges))
          /\ Skips(o, e, s.rows[t]) <=> Skips(o, e, r.rows[t])
      <4> DEFINE a == s.rows[t]
                 b == r.rows[t]
                 E == s.edges
                 F == r.edges
      <4>1. /\ a \in Row /\ b \in Row /\ SameButMetrics(a, b)
            /\ E \in SUBSET (Targets \X Targets) /\ F \in SUBSET (Targets \X Targets)
            /\ \A d \in Targets : <<e.on, d>> \in E <=> <<e.on, d>> \in F
        BY <3>1
      <4> HIDE DEF a, b, E, F
      <4>2. SameButMetrics(Put(o, e, a, a, E), Put(o, e, b, b, F)) /\ (Skips(o, e, a) <=> Skips(o, e, b))
        BY <1>1, <4>1, PutTwins
      <4> QED
        BY <4>2 DEF a, b, E, F
    <3> QED
      BY <1>2, <1>3, <2>2, <3>1, <3>2
  <2> QED
    BY <2>1, <2>2
<1> QED
  BY <1>4, <1>5 DEF Twin, S, R

\* An operation of an event on another target.
LEMMA RowOpOfOther ==
  ASSUME NEW s \in Store, NEW e \in Event, NEW o \in OpsOf(e), NEW t \in Targets, t # e.on
  PROVE  Twin(s, DoRowOp(s, o, e), t)
<1> DEFINE S == DoRowOp(s, o, e)
<1>1. o \in RowOp /\ (t = o.row => o.do = "metrics")
  BY DEF OpsOf
<1>2. /\ S.edges = s.edges /\ (t # o.row => S.rows[t] = s.rows[t])
      /\ S.rows[o.row] = IF o.do = "declare" \/ Skips(o, e, s.rows[o.row])
                         THEN s.rows[o.row] ELSE Put(o, e, s.rows[o.row], s.rows[o.row], s.edges)
      /\ S.helix = IF o.do = "declare" /\ e.op = "INS" THEN s.helix \union {e.on} ELSE s.helix
  BY <1>1, RowOpEffect
<1> HIDE DEF S
<1>3. s.rows[t] \in Row /\ s.edges \in SUBSET (Targets \X Targets)
  BY DEF Store
<1>4. SameButMetrics(s.rows[t], s.rows[t])
  BY DEF SameButMetrics
<1>5. o.do = "metrics" => SameButMetrics(s.rows[t], Put(o, e, s.rows[t], s.rows[t], s.edges))
  BY <1>1, <1>3, <1>4, PutTwins
<1>6. SameButMetrics(s.rows[t], S.rows[t])
  BY <1>1, <1>2, <1>4, <1>5
<1> QED
  BY <1>2, <1>6 DEF Twin, Out, S

\* The operations of an event, one behind the other.
LEMMA RowsDoneTwins ==
  ASSUME NEW s \in Store, NEW r \in Store, NEW e \in Event, NEW ops \in Seq(OpsOf(e))
  PROVE  /\ Twin(s, r, e.on) => Twin(RowsDone(s, e, ops), RowsDone(r, e, ops), e.on)
         /\ \A t \in Targets : t # e.on => Twin(s, RowsDone(s, e, ops), t)
<1>1. ops \in Seq(RowOp) /\ Len(ops) \in Nat /\ \A i \in 1 .. Len(ops) : ops[i] \in OpsOf(e)
  BY DEF OpsOf
<1>2. PICK a \in [0 .. Len(ops) -> Beyond(s, e)] : RowsRunning(a, s, e, ops)
  BY <1>1, RowsRun
<1>3. PICK b \in [0 .. Len(ops) -> Beyond(r, e)] : RowsRunning(b, r, e, ops)
  BY <1>1, RowsRun
<1>4. \A i \in 0 .. Len(ops) : a[i] \in Store /\ b[i] \in Store
  BY <1>2, <1>3 DEF Beyond
<1>5. ASSUME Twin(s, r, e.on) PROVE Twin(RowsDone(s, e, ops), RowsDone(r, e, ops), e.on)
  <2> DEFINE A == {i \in 0 .. Len(ops) : Twin(a[i], b[i], e.on)}
  <2>1. 0 \in A
    BY <1>1, <1>2, <1>3, <1>5 DEF RowsRunning
  <2>2. ASSUME NEW i \in 0 .. Len(ops) - 1, i \in A PROVE i + 1 \in A
    <3>1. /\ i + 1 \in 1 .. Len(ops) /\ (i + 1) - 1 = i /\ i \in 0 .. Len(ops) /\ i + 1 \in 0 .. Len(ops)
          /\ ops[i + 1] \in OpsOf(e)
      BY <1>1
    <3>2. a[i + 1] = DoRowOp(a[i], ops[i + 1], e) /\ b[i + 1] = DoRowOp(b[i], ops[i + 1], e)
      BY <1>2, <1>3, <3>1 DEF RowsRunning
    <3>3. Twin(a[i], b[i], e.on)
      BY <2>2
    <3>4. Twin(a[i + 1], b[i + 1], e.on)
      BY <1>4, <3>1, <3>2, <3>3, RowOpTwins
    <3> QED
      BY <3>1, <3>4
  <2> HIDE DEF A
  <2>3. Len(ops) \in A
    BY <1>1, <2>1, <2>2, AtTheEnd, Zenon
  <2> QED
    BY <1>2, <1>3, <2>3 DEF A, RowsRunning
<1>6. ASSUME NEW t \in Targets, t # e.on PROVE Twin(s, RowsDone(s, e, ops), t)
  <2> DEFINE A == {i \in 0 .. Len(ops) : Twin(s, a[i], t)}
  <2>1. 0 \in A
    BY <1>1, <1>2, TwinIsEquivalence DEF RowsRunning
  <2>2. ASSUME NEW i \in 0 .. Len(ops) - 1, i \in A PROVE i + 1 \in A
    <3>1. /\ i + 1 \in 1 .. Len(ops) /\ (i + 1) - 1 = i /\ i \in 0 .. Len(ops) /\ i + 1 \in 0 .. Len(ops)
          /\ ops[i + 1] \in OpsOf(e)
      BY <1>1
    <3>2. a[i + 1] = DoRowOp(a[i], ops[i + 1], e)
      BY <1>2, <3>1 DEF RowsRunning
    <3>3. Twin(s, a[i], t)
      BY <2>2
    <3>4. Twin(a[i], a[i + 1], t)
      BY <1>4, <1>6, <3>1, <3>2, RowOpOfOther
    <3> QED
      BY <3>1, <3>3, <3>4, TwinIsEquivalence
  <2> HIDE DEF A
  <2>3. Len(ops) \in A
    BY <1>1, <2>1, <2>2, AtTheEnd, Zenon
  <2> QED
    BY <1>2, <2>3 DEF A, RowsRunning
<1> QED
  BY <1>5, <1>6

\* An event makes twins of twins on its target, and leaves those on other targets.
LEMMA CoreTwins ==
  ASSUME NEW s \in Store, NEW x \in Planned
  PROVE  LET q == processEventCoreWithSeq(s, x)
         IN  /\ \A t \in Targets : t # x.ev.on => Twin(s, q, t)
             /\ \A r \in Store, y \in Planned :
                  y.ev = x.ev /\ Twin(s, r, x.ev.on) /\ (Known(s, x.ev) <=> Known(r, x.ev)) =>
                    Twin(q, processEventCoreWithSeq(r, y), x.ev.on)
<1> DEFINE e   == x.ev
           ops == RowOps(e)
           q   == processEventCoreWithSeq(s, x)
           u   == LoggedEdges(s, x)
<1>1. e \in Event /\ e.on \in Targets /\ e.to \in SUBSET Targets
  BY DEF Planned, Event
<1>2. ops \in Seq(OpsOf(e))
  BY <1>1, RowOpsShape
<1>3. /\ Known(s, e) => q = s
      /\ ~Known(s, e) => q = RowsDone(u, e, ops)
  BY CoreLocal
<1>4. u \in Store /\ u.rows = s.rows /\ u.helix = s.helix /\ u.edges = s.edges \union ({e.on} \X e.to)
  BY LoggedEdgesEffect
<1> HIDE DEF ops, q, u
<1>5. ASSUME NEW t \in Targets, t # e.on PROVE Twin(s, q, t)
  <2>1. Twin(s, u, t)
    <3>1. Out(s, t) = Out(u, t)
      BY <1>4, <1>5 DEF Out
    <3> QED
      BY <1>4, <3>1 DEF Twin, SameButMetrics
  <2>2. Twin(u, RowsDone(u, e, ops), t)
    BY <1>1, <1>2, <1>4, <1>5, RowsDoneTwins
  <2> QED
    BY <1>3, <2>1, <2>2, TwinIsEquivalence
<1>6. ASSUME NEW r \in Store, NEW y \in Planned, y.ev = e, Twin(s, r, e.on), Known(s, e) <=> Known(r, e)
      PROVE  Twin(q, processEventCoreWithSeq(r, y), e.on)
  <2> DEFINE p == processEventCoreWithSeq(r, y)
             v == LoggedEdges(r, y)
  <2>1. /\ Known(r, e) => p = r
        /\ ~Known(r, e) => p = RowsDone(v, e, ops)
    <3>1. /\ Known(r, y.ev) => p = r
          /\ ~Known(r, y.ev) => p = RowsDone(LoggedEdges(r, y), y.ev, RowOps(y.ev))
      BY CoreLocal
    <3> QED
      BY <1>6, <3>1 DEF ops
  <2>2. v \in Store /\ v.rows = r.rows /\ v.helix = r.helix /\ v.edges = r.edges \union ({e.on} \X e.to)
    <3>1. v \in Store /\ v.rows = r.rows /\ v.helix = r.helix /\ v.edges = r.edges \union ({y.ev.on} \X y.ev.to)
      BY LoggedEdgesEffect
    <3> QED
      BY <1>6, <3>1
  <2> HIDE DEF p, v
  <2>3. Twin(u, v, e.on)
    <3>1. Out(u, e.on) = Out(s, e.on) \union e.to /\ Out(v, e.on) = Out(r, e.on) \union e.to
      BY <1>1, <1>4, <2>2 DEF Out
    <3> QED
      BY <1>4, <1>6, <2>2, <3>1 DEF Twin
  <2>4. Twin(RowsDone(u, e, ops), RowsDone(v, e, ops), e.on)
    BY <1>1, <1>2, <1>4, <2>2, <2>3, RowsDoneTwins
  <2> QED
    BY <1>3, <1>6, <2>1, <2>4 DEF p
<1> QED
  BY <1>5, <1>6 DEF q

-----------------------------------------------------------------------------
(* What a store shows is told by its ledgers. *)

\* A sequence, element by element.
Growing(p, s) ==
  /\ p[0] = << >> /\ p[Len(s)] = s
  /\ \A i \in 1 .. Len(s) : p[i] = Append(p[i - 1], s[i])
  /\ \A i \in 0 .. Len(s) : ToSet(p[i]) \subseteq ToSet(s)

\* Every sequence grows so.
LEMMA GrowsByElements ==
  ASSUME NEW E, NEW s \in Seq(E)
  PROVE  \E p \in [0 .. Len(s) -> Seq(E)] : Growing(p, s)
<1> DEFINE p == [i \in 0 .. Len(s) |-> SubSeq(s, 1, i)]
<1>1. Len(s) \in Nat /\ ToSet(s) = {s[i] : i \in 1 .. Len(s)} /\ \A i \in 1 .. Len(s) : s[i] \in E
  BY ElementsOf
<1>2. ASSUME NEW i \in 0 .. Len(s)
      PROVE  p[i] \in Seq(E) /\ Len(p[i]) = i /\ \A j \in 1 .. i : p[i][j] = s[j]
  BY <1>1
<1>3. p \in [0 .. Len(s) -> Seq(E)]
  BY <1>2
<1> HIDE DEF p
<1>4. p[0] = << >>
  BY <1>1, <1>2
<1>5. p[Len(s)] = s
  BY <1>1, <1>2, SeqsEqual
<1>6. ASSUME NEW i \in 1 .. Len(s) PROVE p[i] = Append(p[i - 1], s[i])
  <2> DEFINE a == p[i - 1]
             b == p[i]
             x == s[i]
  <2>1. i - 1 \in 0 .. Len(s) /\ i \in 0 .. Len(s) /\ i \in Nat
    BY <1>1
  <2>2. /\ a \in Seq(E) /\ Len(a) = i - 1 /\ \A j \in 1 .. i - 1 : a[j] = s[j]
        /\ b \in Seq(E) /\ Len(b) = i /\ (\A j \in 1 .. i : b[j] = s[j]) /\ x \in E
    BY <1>1, <1>2, <2>1
  <2> HIDE DEF a, b
  <2>3. ASSUME NEW j \in 1 .. i PROVE b[j] = Append(a, x)[j]
    BY <2>1, <2>2
  <2> HIDE DEF x
  <2>4. Append(a, x) \in Seq(E) /\ Len(Append(a, x)) = i
    BY <2>1, <2>2
  <2>5. b = Append(a, x)
    BY <2>2, <2>3, <2>4, SeqsEqual
  <2> QED
    BY <2>5 DEF a, b, x
<1>7. ASSUME NEW i \in 0 .. Len(s) PROVE ToSet(p[i]) \subseteq ToSet(s)
  <2> DEFINE a == p[i]
  <2>0. a \in Seq(E) /\ Len(a) = i
    BY <1>2
  <2> HIDE DEF a
  <2>e. ToSet(a) = {a[j] : j \in 1 .. Len(a)}
    BY <2>0, ElementsOf
  <2>1. ToSet(p[i]) = {p[i][j] : j \in 1 .. i}
    BY <2>0, <2>e DEF a
  <2>2. \A j \in 1 .. i : j \in 1 .. Len(s)
    BY <1>1
  <2> QED
    BY <1>1, <1>2, <2>1, <2>2
<1> QED
  BY <1>3, <1>4, <1>5, <1>6, <1>7 DEF Growing

InUse(log) == \A x \in ToSet(log) : x.ev \in Usable

\* A replay knows the events of the log.
LEMMA ReplayKnows ==
  ASSUME NEW log \in Seq(Planned), InUse(log), NEW e \in Usable
  PROVE  Known(replayFromLog(log), e) <=> e.id # 0 /\ \E x \in ToSet(log) : x.ev = e
<1>p. PICK P \in [0 .. Len(log) -> Seq(Planned)] : Growing(P, log)
  BY GrowsByElements
<1> DEFINE A == {i \in 0 .. Len(log) :
                   Known(replayFromLog(P[i]), e) <=> e.id # 0 /\ \E x \in ToSet(P[i]) : x.ev = e}
<1>0. /\ P[0] = << >> /\ P[Len(log)] = log /\ Len(log) \in Nat
      /\ \A i \in 0 .. Len(log) - 1 :
           /\ i + 1 \in 0 .. Len(log) /\ i \in 0 .. Len(log) /\ log[i + 1] \in Planned /\ log[i + 1] \in ToSet(log)
           /\ P[i + 1] = Append(P[i], log[i + 1])
  <2>1. Len(log) \in Nat /\ ToSet(log) = {log[i] : i \in 1 .. Len(log)} /\ \A i \in 1 .. Len(log) : log[i] \in Planned
    BY ElementsOf
  <2>2. ASSUME NEW i \in 0 .. Len(log) - 1
        PROVE  i + 1 \in 1 .. Len(log) /\ (i + 1) - 1 = i /\ i + 1 \in 0 .. Len(log) /\ i \in 0 .. Len(log)
    BY <2>1
  <2>3. P[0] = << >> /\ P[Len(log)] = log /\ \A i \in 1 .. Len(log) : P[i] = Append(P[i - 1], log[i])
    BY <1>p DEF Growing
  <2> QED
    BY <2>1, <2>2, <2>3
<1>1. 0 \in A
  <2>1. ToSet(<< >>) = {}
    BY DEF ToSet
  <2>2. ~Known(EmptyStore, e)
    BY DEF Known, EmptyStore
  <2> QED
    BY <1>0, <2>1, <2>2, ReplayEmpty
<1>2. ASSUME NEW i \in 0 .. Len(log) - 1, i \in A PROVE i + 1 \in A
  <2> DEFINE x == log[i + 1]
             p == P[i]
             r == replayFromLog(p)
             q == replayFromLog(P[i + 1])
  <2>1. x \in Planned /\ x \in ToSet(log) /\ p \in Seq(Planned) /\ P[i + 1] = Append(p, x) /\ i + 1 \in 0 .. Len(log)
    BY <1>0
  <2>2. Known(r, e) <=> e.id # 0 /\ \E y \in ToSet(p) : y.ev = e
    BY <1>2
  <2> HIDE DEF x, p
  <2>3. r \in Store /\ q = processEventCoreWithSeq(r, x)
    BY <2>1, ReplayOneMore
  <2>4. ToSet(Append(p, x)) = ToSet(p) \union {x}
    BY <2>1, Appended
  <2> HIDE DEF r, q
  <2>5. /\ Known(r, x.ev) => q = r
        /\ ~Known(r, x.ev) => q.idem = r.idem \union {x.ev.id}
    BY <2>1, <2>3, CoreEffect
  <2>6. e.id # 0 /\ x.ev.id = e.id => x.ev = e
    BY <2>1, EventsInUse DEF InUse
  <2>7. Known(q, e) <=> e.id # 0 /\ (x.ev = e \/ \E y \in ToSet(p) : y.ev = e)
    <3>1. CASE Known(r, x.ev)
      <4>1. q = r /\ (x.ev = e => Known(r, e))
        BY <2>5, <3>1
      <4> QED
        BY <2>2, <4>1 DEF Known
    <3>2. CASE ~Known(r, x.ev)
      <4>1. Known(q, e) <=> e.id # 0 /\ (Known(r, e) \/ x.ev.id = e.id)
        BY <2>5, <3>2 DEF Known
      <4> QED
        BY <2>2, <2>6, <4>1
    <3> QED
      BY <3>1, <3>2
  <2>8. (\E y \in ToSet(Append(p, x)) : y.ev = e) <=> (x.ev = e \/ \E y \in ToSet(p) : y.ev = e)
    BY <2>4
  <2>9. Known(replayFromLog(P[i + 1]), e) <=> e.id # 0 /\ \E y \in ToSet(P[i + 1]) : y.ev = e
    BY <2>1, <2>7, <2>8 DEF q
  <2> QED
    BY <2>1, <2>9
<1> HIDE DEF A
<1>3. Len(log) \in A
  BY <1>0, <1>1, <1>2, AtTheEnd, Zenon
<1> QED
  BY <1>0, <1>3 DEF A

\* The ledger as a log of its own.
Solo(l) == [i \in 1 .. Len(l) |-> [seq |-> 0, ev |-> l[i]]]

\* The events of a ledger as a log of their own.
LEMMA SoloLogs ==
  ASSUME NEW l \in Seq(Event)
  PROVE  /\ Solo(l) \in Seq(Planned) /\ \A e : (\E x \in ToSet(Solo(l)) : x.ev = e) <=> e \in ToSet(l)
         /\ \A e \in Event : [seq |-> 0, ev |-> e] \in Planned /\
                             Solo(Append(l, e)) = Append(Solo(l), [seq |-> 0, ev |-> e])
<1>1. \A e \in Event : [seq |-> 0, ev |-> e] \in Planned
  BY DEF Planned
<1>2. ASSUME NEW m \in Seq(Event)
      PROVE  Solo(m) \in Seq(Planned) /\ Len(Solo(m)) = Len(m) /\ \A i \in 1 .. Len(m) : Solo(m)[i] = [seq |-> 0, ev |-> m[i]]
  <2>1. \A i \in 1 .. Len(m) : m[i] \in Event
    OBVIOUS
  <2> QED
    BY <1>1, <2>1 DEF Solo
<1>3. ASSUME NEW e PROVE (\E x \in ToSet(Solo(l)) : x.ev = e) <=> e \in ToSet(l)
  <2> DEFINE s == Solo(l)
  <2>1. s \in Seq(Planned) /\ Len(s) = Len(l) /\ \A i \in 1 .. Len(l) : s[i] = [seq |-> 0, ev |-> l[i]]
    BY <1>2
  <2> HIDE DEF s
  <2>2. ToSet(l) = {l[i] : i \in 1 .. Len(l)} /\ ToSet(s) = {s[i] : i \in 1 .. Len(s)}
    BY <2>1, ElementsOf
  <2>3. ASSUME NEW i \in 1 .. Len(l) PROVE s[i].ev = l[i]
    <3>1. s[i] = [seq |-> 0, ev |-> l[i]]
      BY <2>1
    <3>2. [seq |-> 0, ev |-> l[i]].ev = l[i]
      OBVIOUS
    <3> QED
      BY <3>1, <3>2, Zenon
  <2>4. (\E x \in ToSet(s) : x.ev = e) <=> e \in ToSet(l)
    BY <2>1, <2>2, <2>3
  <2> QED
    BY <2>4 DEF s
<1>4. ASSUME NEW e \in Event PROVE Solo(Append(l, e)) = Append(Solo(l), [seq |-> 0, ev |-> e])
  <2> DEFINE x == [seq |-> 0, ev |-> e]
             m == Append(l, e)
             s == Solo(l)
  <2>1. /\ m \in Seq(Event) /\ Len(m) = Len(l) + 1 /\ m[Len(l) + 1] = e
        /\ \A i \in 1 .. Len(l) : m[i] = l[i]
    OBVIOUS
  <2> HIDE DEF m
  <2>2. /\ Solo(m) \in Seq(Planned) /\ Len(Solo(m)) = Len(m)
        /\ \A i \in 1 .. Len(m) : Solo(m)[i] = [seq |-> 0, ev |-> m[i]]
    BY <1>2, <2>1
  <2>3. s \in Seq(Planned) /\ Len(s) = Len(l) /\ (\A i \in 1 .. Len(l) : s[i] = [seq |-> 0, ev |-> l[i]]) /\ x \in Planned
    BY <1>1, <1>2
  <2> HIDE DEF s, x
  <2>4. /\ Append(s, x) \in Seq(Planned) /\ Len(Append(s, x)) = Len(l) + 1 /\ Append(s, x)[Len(l) + 1] = x
        /\ \A i \in 1 .. Len(l) : Append(s, x)[i] = s[i]
    BY <2>3
  <2>5. ASSUME NEW i \in 1 .. Len(l) + 1 PROVE Solo(m)[i] = Append(s, x)[i]
    <3>1. CASE i \in 1 .. Len(l)
      BY <2>1, <2>2, <2>3, <2>4, <3>1
    <3>2. CASE i = Len(l) + 1
      <4>1. Len(l) + 1 \in 1 .. Len(m)
        BY <2>1
      <4>2. Solo(m)[Len(l) + 1] = [seq |-> 0, ev |-> e]
        BY <2>1, <2>2, <4>1
      <4> QED
        BY <2>4, <3>2, <4>2 DEF x
    <3>3. i \in 1 .. Len(l) \/ i = Len(l) + 1
      OBVIOUS
    <3> QED
      BY <3>1, <3>2, <3>3
  <2>6. Solo(m) = Append(s, x)
    BY <2>1, <2>2, <2>4, <2>5, SeqsEqual
  <2> QED
    BY <2>6 DEF m, s, x
<1> QED
  BY <1>1, <1>2, <1>3, <1>4

\* On a target, the replay of a log is the replay of the target's ledger.
LEMMA ReplayTwins ==
  ASSUME NEW log \in Seq(Planned), InUse(log), NEW t \in Targets
  PROVE  Twin(replayFromLog(log), replayFromLog(Solo(Ledger(log, t))), t)
<1>p. PICK P \in [0 .. Len(log) -> Seq(Planned)] : Growing(P, log)
  BY GrowsByElements
<1> DEFINE A == {i \in 0 .. Len(log) : Twin(replayFromLog(P[i]), replayFromLog(Solo(Ledger(P[i], t))), t)}
<1>0. /\ P[0] = << >> /\ P[Len(log)] = log /\ Len(log) \in Nat
      /\ \A i \in 0 .. Len(log) - 1 :
           /\ i + 1 \in 0 .. Len(log) /\ i \in 0 .. Len(log) /\ log[i + 1] \in Planned /\ log[i + 1] \in ToSet(log)
           /\ P[i + 1] = Append(P[i], log[i + 1])
  <2>1. Len(log) \in Nat /\ ToSet(log) = {log[i] : i \in 1 .. Len(log)} /\ \A i \in 1 .. Len(log) : log[i] \in Planned
    BY ElementsOf
  <2>2. ASSUME NEW i \in 0 .. Len(log) - 1
        PROVE  i + 1 \in 1 .. Len(log) /\ (i + 1) - 1 = i /\ i + 1 \in 0 .. Len(log) /\ i \in 0 .. Len(log)
    BY <2>1
  <2>3. P[0] = << >> /\ P[Len(log)] = log /\ \A i \in 1 .. Len(log) : P[i] = Append(P[i - 1], log[i])
    BY <1>p DEF Growing
  <2> QED
    BY <2>1, <2>2, <2>3
<1>a. \A i \in 0 .. Len(log) : ToSet(P[i]) \subseteq ToSet(log)
  BY <1>p DEF Growing
<1>b. << >> \in Seq(Event)
  OBVIOUS
<1>1. 0 \in A
  <2>1. Ledger(<< >>, t) = << >> /\ Solo(<< >>) = << >>
    <3>1. Solo(<< >>) \in Seq(Planned) /\ ToSet(<< >>) = {}
      BY <1>b, SoloLogs DEF ToSet
    <3>2. ToSet(Solo(<< >>)) = {}
      BY <1>b, <3>1, SoloLogs
    <3>3. Solo(<< >>) = << >>
      BY <3>1, <3>2, ElementsOf
    <3> QED
      BY <1>b, <3>3, NoteNone DEF Ledger
  <2> QED
    BY <1>0, <2>1, TwinIsEquivalence
<1>2. ASSUME NEW i \in 0 .. Len(log) - 1, i \in A PROVE i + 1 \in A
  <2> DEFINE x == log[i + 1]
             p == P[i]
             r == replayFromLog(p)
             l == Ledger(p, t)
             s == replayFromLog(Solo(l))
             y == [seq |-> 0, ev |-> x.ev]
  <2>1. x \in Planned /\ x \in ToSet(log) /\ p \in Seq(Planned) /\ P[i + 1] = Append(p, x) /\ i + 1 \in 0 .. Len(log)
    BY <1>0
  <2>2. Twin(r, s, t)
    BY <1>2
  <2>3. ToSet(p) \subseteq ToSet(log)
    BY <1>0, <1>a
  <2> HIDE DEF x, p
  <2>4. r \in Store /\ replayFromLog(Append(p, x)) = processEventCoreWithSeq(r, x)
    BY <2>1, ReplayOneMore
  <2>5. /\ l \in Seq(Event) /\ Ledger(Append(p, x), t) = Noted(l, x, t)
        /\ ToSet(l) = {z.ev : z \in {w \in ToSet(p) : w.ev.on = t}}
    <3>1. ToSet(<< >>) = {}
      BY DEF ToSet
    <3> QED
      <4> DEFINE nil == << >>
      <4>1. nil \in Seq(Event) /\ ToSet(nil) = {}
        BY <1>b, <3>1
      <4> HIDE DEF nil
      <4>2. /\ NoteAll(nil, p, t) \in Seq(Event)
            /\ NoteAll(nil, Append(p, x), t) = Noted(NoteAll(nil, p, t), x, t)
        BY <2>1, <4>1, NoteEnds
      <4>3. ToSet(NoteAll(nil, p, t)) = ToSet(nil) \union {z.ev : z \in {w \in ToSet(p) : w.ev.on = t}}
        BY <2>1, <4>1, NoteElements
      <4> QED
        BY <4>1, <4>2, <4>3 DEF Ledger, nil
  <2>6. x.ev \in Event /\ x.ev \in Usable
    BY <2>1 DEF Planned, InUse
  <2> HIDE DEF r, l
  <2>7. /\ Solo(l) \in Seq(Planned) /\ \A e : (\E z \in ToSet(Solo(l)) : z.ev = e) <=> e \in ToSet(l)
        /\ y \in Planned /\ Solo(Append(l, x.ev)) = Append(Solo(l), y)
    BY <2>5, <2>6, SoloLogs
  <2>8. s \in Store /\ replayFromLog(Append(Solo(l), y)) = processEventCoreWithSeq(s, y)
    BY <2>7, ReplayOneMore
  <2>9. Twin(processEventCoreWithSeq(r, x), replayFromLog(Solo(Noted(l, x, t))), t)
    <3>1. CASE x.ev.on # t
      <4>1. Twin(r, processEventCoreWithSeq(r, x), t)
        BY <2>1, <2>4, <3>1, CoreTwins
      <4>2. Noted(l, x, t) = l
        BY <3>1 DEF Noted
      <4> HIDE DEF s
      <4> QED
        BY <2>2, <4>1, <4>2, TwinIsEquivalence DEF s
    <3>2. CASE x.ev.on = t
      <4>1. Known(r, x.ev) <=> x.ev.id # 0 /\ \E z \in ToSet(p) : z.ev = x.ev
        <5>1. InUse(p)
          BY <2>3 DEF InUse
        <5> QED
          BY <2>1, <2>6, <5>1, ReplayKnows DEF r
      <4>2. Known(s, x.ev) <=> x.ev.id # 0 /\ \E z \in ToSet(Solo(l)) : z.ev = x.ev
        <5>1. \A e \in ToSet(l) : e \in Usable
          BY <2>3, <2>5 DEF InUse
        <5>2. InUse(Solo(l))
          BY <2>7, <5>1 DEF InUse
        <5> QED
          BY <2>6, <2>7, <5>2, ReplayKnows DEF s
      <4>3. (\E z \in ToSet(p) : z.ev = x.ev) <=> x.ev \in ToSet(l)
        BY <2>5, <3>2
      <4> HIDE DEF s
      <4>4. Known(r, x.ev) <=> Known(s, x.ev)
        BY <2>7, <4>1, <4>2, <4>3
      <4>5. y.ev = x.ev
        OBVIOUS
      <4> HIDE DEF y
      <4>6. Twin(processEventCoreWithSeq(r, x), processEventCoreWithSeq(s, y), t)
        BY <2>1, <2>2, <2>4, <2>7, <2>8, <3>2, <4>4, <4>5, CoreTwins
      <4>7. CASE Known(s, x.ev)
        <5>1. Noted(l, x, t) = l
          BY <2>7, <4>2, <4>7 DEF Noted
        <5>2. processEventCoreWithSeq(s, y) = s
          BY <2>7, <2>8, <4>5, <4>7, CoreEffect
        <5> QED
          BY <4>6, <5>1, <5>2 DEF s
      <4>8. CASE ~Known(s, x.ev)
        <5>1. Noted(l, x, t) = Append(l, x.ev)
          BY <2>7, <3>2, <4>2, <4>8 DEF Noted
        <5> QED
          BY <2>7, <2>8, <4>6, <5>1
      <4> QED
        BY <4>7, <4>8
    <3> QED
      BY <3>1, <3>2
  <2>10. Twin(replayFromLog(P[i + 1]), replayFromLog(Solo(Ledger(P[i + 1], t))), t)
    BY <2>1, <2>4, <2>5, <2>9
  <2> QED
    BY <2>1, <2>10
<1> HIDE DEF A
<1>3. Len(log) \in A
  BY <1>0, <1>1, <1>2, AtTheEnd, Zenon
<1> QED
  BY <1>0, <1>3 DEF A

\* Two stores that their logs rebuild look the same when their ledgers are the same.
LEMMA SameLedgersSameLook ==
  ASSUME NEW s \in Store, NEW q \in Store, Rebuilt(s), Rebuilt(q), InUse(s.log), InUse(q.log),
         \A t \in Targets : Ledger(s.log, t) = Ledger(q.log, t)
  PROVE  Projection(s) = Projection(q)
<1> DEFINE S == replayFromLog(s.log)
           Q == replayFromLog(q.log)
<1>1. s.log \in Seq(Planned) /\ q.log \in Seq(Planned)
  BY DEF Store
<1>2. /\ S \in Store /\ Fresh(S) /\ S.edges = s.edges /\ Alike(S, s, Targets)
      /\ Q \in Store /\ Fresh(Q) /\ Q.edges = q.edges /\ Alike(Q, q, Targets)
  BY DEF Rebuilt, Even
<1>3. \A t \in Targets : Twin(S, Q, t)
  <2> TAKE t \in Targets
  <2>1. Twin(S, replayFromLog(Solo(Ledger(s.log, t))), t)
    BY <1>1, ReplayTwins
  <2>2. Twin(Q, replayFromLog(Solo(Ledger(q.log, t))), t)
    BY <1>1, ReplayTwins
  <2> HIDE DEF S, Q
  <2> QED
    BY <2>1, <2>2, TwinIsEquivalence
<1> HIDE DEF S, Q
<1>4. S.edges = Q.edges
  <2>1. S.edges \in SUBSET (Targets \X Targets) /\ Q.edges \in SUBSET (Targets \X Targets)
    BY <1>2 DEF Store
  <2>2. \A t \in Targets, d \in Targets : <<t, d>> \in S.edges <=> <<t, d>> \in Q.edges
    BY <1>3 DEF Twin, Out
  <2>3. ASSUME NEW x \in Targets \X Targets PROVE x \in S.edges <=> x \in Q.edges
    BY <2>2
  <2> QED
    BY <2>1, <2>3, Zenon
<1>5. ASSUME NEW t \in Targets PROVE S.rows[t] = Q.rows[t]
  <2>1. S.rows[t] \in Row /\ Q.rows[t] \in Row
    BY <1>2 DEF Store
  <2>2. S.rows[t].metrics = Q.rows[t].metrics
    BY <1>2, <1>4 DEF Fresh, Touching
  <2>3. SameButMetrics(S.rows[t], Q.rows[t])
    BY <1>3 DEF Twin
  <2> DEFINE a == S.rows[t]
             b == Q.rows[t]
  <2> HIDE DEF a, b
  <2>4. /\ a \in Row /\ b \in Row /\ a.on = b.on /\ a.base = b.base /\ a.def = b.def
        /\ a.edges = b.edges /\ a.metrics = b.metrics /\ a.fold = b.fold
    BY <2>1, <2>2, <2>3 DEF a, b, SameButMetrics
  <2>5. a = b
    BY <2>4 DEF Row
  <2> QED
    BY <2>5 DEF a, b
<1>6. \A t \in Targets : s.rows[t] = q.rows[t] /\ (t \in s.helix <=> t \in q.helix)
  BY <1>2, <1>3, <1>5 DEF Alike, AlikeAt, Twin
<1>7. /\ s.rows \in [Targets -> Row] /\ q.rows \in [Targets -> Row]
      /\ s.helix \in SUBSET Targets /\ q.helix \in SUBSET Targets
  BY DEF Store
<1>8. s.rows = q.rows /\ s.helix = q.helix
  BY <1>6, <1>7
<1> QED
  BY <1>2, <1>4, <1>8 DEF Projection

\* The events of a log.
Says(log, e) == \E y \in ToSet(log) : y.ev = e

\* A ledger has the events of its target, and grows with the log.
LEMMA LedgerOfLog ==
  ASSUME NEW log \in Seq(Planned), NEW t
  PROVE  /\ Ledger(log, t) \in Seq(Event)
         /\ \A e : e \in ToSet(Ledger(log, t)) <=> Says(log, e) /\ e.on = t
         /\ \A x \in Planned : Ledger(Append(log, x), t) = Noted(Ledger(log, t), x, t)
         /\ \A d \in Seq(Planned) : Ledger(log \o d, t) = NoteAll(Ledger(log, t), d, t)
<1> DEFINE nil == << >>
<1>1. nil \in Seq(Event) /\ ToSet(nil) = {}
  BY DEF ToSet
<1> HIDE DEF nil
<1>2. \A l : Ledger(l, t) = NoteAll(nil, l, t)
  BY DEF Ledger, nil
<1>3. ToSet(NoteAll(nil, log, t)) = ToSet(nil) \union {x.ev : x \in {y \in ToSet(log) : y.ev.on = t}}
  BY <1>1, NoteElements
<1>4. ASSUME NEW e PROVE e \in ToSet(Ledger(log, t)) <=> Says(log, e) /\ e.on = t
  BY <1>1, <1>2, <1>3 DEF Says
<1>5. ASSUME NEW x \in Planned
      PROVE  Ledger(log, t) \in Seq(Event) /\ Ledger(Append(log, x), t) = Noted(Ledger(log, t), x, t)
  BY <1>1, <1>2, NoteEnds
<1>6. ASSUME NEW d \in Seq(Planned) PROVE Ledger(log \o d, t) = NoteAll(Ledger(log, t), d, t)
  BY <1>1, <1>2, NoteJoined
<1>7. Ledger(log, t) \in Seq(Event)
  <2>1. PICK a \in [0 .. Len(log) -> Seq(Event)] : Noting(a, nil, log, t)
    BY <1>1, NotingRuns
  <2>2. Len(log) \in 0 .. Len(log)
    OBVIOUS
  <2> QED
    BY <1>2, <2>1, <2>2 DEF Noting
<1> QED
  BY <1>4, <1>5, <1>6, <1>7

\* One event that a store executes is noted in its ledger.
LEMMA CoreLedger ==
  ASSUME NEW s \in Store, Recorded(s), NEW x \in Planned, x.ev \in Usable, NEW t
  PROVE  Ledger(processEventCoreWithSeq(s, x).log, t) = Noted(Ledger(s.log, t), x, t)
<1> DEFINE r == processEventCoreWithSeq(s, x)
<1>0. s.log \in Seq(Planned)
  BY DEF Store
<1>1. CASE Known(s, x.ev)
  <2>1. r = s
    BY <1>1, CoreEffect
  <2>2. x.ev.id # 0 /\ x.ev.id \in s.idem
    BY <1>1 DEF Known
  <2>3. PICK y \in ToSet(s.log) : y.ev.id = x.ev.id
    BY <2>2 DEF Recorded, IdsLogged
  <2>4. y.ev = x.ev
    BY <2>2, <2>3, EventsInUse DEF Recorded
  <2>5. x.ev.on = t => x.ev \in ToSet(Ledger(s.log, t))
    BY <1>0, <2>3, <2>4, LedgerOfLog DEF Says
  <2> QED
    BY <2>1, <2>2, <2>5 DEF Noted
<1>2. CASE ~Known(s, x.ev)
  <2>1. r.log = Append(s.log, x)
    BY <1>2, CoreEffect
  <2> QED
    BY <1>0, <2>1, LedgerOfLog
<1> QED
  BY <1>1, <1>2

\* Three elements, one in front.
LEMMA OneThenTwo ==
  ASSUME NEW E, NEW p \in E, NEW q \in E, NEW r \in E
  PROVE  <<p>> \o <<q, r>> = <<p, q, r>>
<1> DEFINE a == <<p>>
           b == <<q, r>>
           c == <<p, q, r>>
           d == a \o b
<1>0. a \in Seq(E) /\ b \in Seq(E) /\ c \in Seq(E)
  OBVIOUS
<1>1. Len(a) = 1 /\ Len(b) = 2 /\ Len(c) = 3
  OBVIOUS
<1>2. a[1] = p /\ b[1] = q /\ b[2] = r /\ c[1] = p /\ c[2] = q /\ c[3] = r
  OBVIOUS
<1> HIDE DEF a, b, c
<1>3. /\ d \in Seq(E) /\ Len(d) = Len(a) + Len(b)
      /\ (\A i \in 1 .. Len(a) : d[i] = a[i]) /\ \A i \in 1 .. Len(b) : d[Len(a) + i] = b[i]
  BY <1>0, JoinedElements
<1> HIDE DEF d
<1>4. Len(d) = 3 /\ d[1] = c[1] /\ d[1 + 1] = c[2] /\ d[1 + 2] = c[3]
  BY <1>1, <1>2, <1>3
<1>5. \A i \in 1 .. Len(d) : d[i] = c[i]
  <2>1. \A i \in 1 .. 3 : i = 1 \/ i = 2 \/ i = 3
    OBVIOUS
  <2> QED
    BY <1>4, <2>1
<1>6. d = c
  BY <1>0, <1>1, <1>3, <1>4, <1>5, SeqsEqual
<1> QED
  BY <1>6 DEF a, b, c, d

\* An INS that is executed declares its target.
LEMMA INSDeclared ==
  ASSUME NEW s \in Store, NEW x \in Planned, x.ev.op = "INS", ~Known(s, x.ev)
  PROVE  x.ev.on \in processEventCoreWithSeq(s, x).helix
<1> DEFINE e    == x.ev
           u    == LoggedEdges(s, x)
           o1   == [do |-> "apply", row |-> e.on]
           o2   == [do |-> "declare", row |-> e.on]
           o3   == [do |-> "cache", row |-> e.on]
           ops1 == <<o1, o2, o3>>
           ops2 == <<o2, o3>>
           ops3 == <<o3>>
<1>1. e \in Event /\ e.op = "INS" /\ e.on \in Targets
  BY DEF Planned, Event
<1>2. u \in Store
  BY LoggedEdgesEffect
<1>3. processEventCoreWithSeq(s, x) = RowsDone(u, e, RowOps(e))
  BY DEF processEventCoreWithSeq, LoggedEdges, Executed, RowsDone
<1>5. o1 \in RowOp /\ o2 \in RowOp /\ o3 \in RowOp /\ o2.do = "declare" /\ o1.do # "declare" /\ o3.do # "declare"
  BY <1>1 DEF RowOp
<1>4. RowOps(e) = ops1
  <2>1. RowOps(e) = <<o1>> \o << >> \o <<o2, o3>>
    <3>1. e.op = "INS" /\ e.op \notin {"NUL", "SYN"} /\ e.op # "CON"
      BY <1>1
    <3> QED
      BY <3>1, Zenon DEF RowOps
  <2>2. <<o1>> \o << >> = <<o1>>
    BY <1>5
  <2>3. <<o1>> \o <<o2, o3>> = ops1
    BY <1>5, OneThenTwo, Zenon
  <2> QED
    BY <2>1, <2>2, <2>3
<1>6. /\ ops1 \in Seq(RowOp) /\ ops1 # << >> /\ Head(ops1) = o1 /\ Tail(ops1) = ops2
      /\ ops2 \in Seq(RowOp) /\ ops2 # << >> /\ Head(ops2) = o2 /\ Tail(ops2) = ops3
      /\ ops3 \in Seq(RowOp)
  <2> HIDE DEF o1, o2, o3
  <2> QED
    BY <1>5
<1> HIDE DEF u, o1, o3, ops1, ops2, ops3
<1> DEFINE v == DoRowOp(u, o1, e)
           w == DoRowOp(v, o2, e)
<1>7. v \in Store
  <2>1. u \in Beyond(u, e)
    BY <1>2 DEF Beyond
  <2> QED
    BY <1>1, <1>2, <1>5, <2>1, DoRowOpKeeps DEF Beyond
<1>8. w \in Store /\ e.on \in w.helix
  <2>1. w = Declared(v, e)
    <3> HIDE DEF v, o2
    <3> QED
      BY <1>5 DEF DoRowOp
  <2> HIDE DEF v
  <2>2. Declared(v, e) = [v EXCEPT !.helix = @ \union {e.on}]
    BY <1>1 DEF Declared
  <2>3. [v EXCEPT !.helix = @ \union {e.on}] \in Store
    BY <1>1, <1>7 DEF Store
  <2>4. e.on \in [v EXCEPT !.helix = @ \union {e.on}].helix
    BY <1>7 DEF Store
  <2> HIDE DEF w
  <2> QED
    BY <2>1, <2>2, <2>3, <2>4
<1>9. RowsDone(u, e, ops1) = RowsDone(v, e, ops2)
  BY <1>1, <1>2, <1>6, RowsDoneFirst
<1> HIDE DEF v
<1>10. RowsDone(v, e, ops2) = RowsDone(w, e, ops3)
  <2> HIDE DEF o2
  <2> QED
    BY <1>1, <1>6, <1>7, RowsDoneFirst
<1> HIDE DEF w
<1>11. w.helix \subseteq RowsDone(w, e, ops3).helix
  BY <1>1, <1>6, <1>8, RowsDoneIsStore DEF Beyond
<1> QED
  BY <1>3, <1>4, <1>8, <1>9, <1>10, <1>11

\* What a log has an INS of, its replay declares.
LEMMA DeclaredByLog ==
  ASSUME NEW log \in Seq(Planned), InUse(log), NEW t, HasINS(ToSet(log), t)
  PROVE  t \in replayFromLog(log).helix
<1>p. PICK P \in [0 .. Len(log) -> Seq(Planned)] : Growing(P, log)
  BY GrowsByElements
<1> DEFINE A == {i \in 0 .. Len(log) : HasINS(ToSet(P[i]), t) => t \in replayFromLog(P[i]).helix}
<1>0. /\ Len(log) \in Nat /\ ToSet(log) = {log[i] : i \in 1 .. Len(log)}
      /\ \A i \in 1 .. Len(log) : log[i] \in Planned
  BY ElementsOf
<1>g. /\ P[0] = << >> /\ P[Len(log)] = log /\ \A i \in 1 .. Len(log) : P[i] = Append(P[i - 1], log[i])
      /\ \A i \in 0 .. Len(log) : ToSet(P[i]) \subseteq ToSet(log)
  BY <1>p DEF Growing
<1>1. 0 \in A
  <2>1. ToSet(<< >>) = {}
    BY DEF ToSet
  <2> QED
    BY <1>0, <1>g, <2>1 DEF HasINS
<1>2. ASSUME NEW i \in 0 .. Len(log) - 1, i \in A PROVE i + 1 \in A
  <2> DEFINE x == log[i + 1]
             p == P[i]
             r == replayFromLog(p)
  <2>1. i + 1 \in 1 .. Len(log) /\ (i + 1) - 1 = i /\ i + 1 \in 0 .. Len(log) /\ i \in 0 .. Len(log)
    BY <1>0
  <2>2. /\ x \in Planned /\ x \in ToSet(log) /\ p \in Seq(Planned) /\ ToSet(p) \subseteq ToSet(log)
        /\ P[i + 1] = Append(p, x) /\ (HasINS(ToSet(p), t) => t \in r.helix)
    BY <1>0, <1>2, <1>g, <2>1
  <2> HIDE DEF x, p
  <2>3. r \in Store /\ replayFromLog(Append(p, x)) = processEventCoreWithSeq(r, x)
    BY <2>2, ReplayOneMore
  <2>4. ToSet(Append(p, x)) = ToSet(p) \union {x}
    BY <2>2, Appended
  <2>5. ASSUME HasINS(ToSet(Append(p, x)), t) PROVE t \in replayFromLog(Append(p, x)).helix
    <3>1. HasINS(ToSet(p), t) \/ (x.ev.op = "INS" /\ x.ev.on = t)
      BY <2>4, <2>5 DEF HasINS
    <3>2. CASE Known(r, x.ev)
      <4>1. InUse(p) /\ x.ev \in Usable
        BY <2>2 DEF InUse
      <4>2. \E y \in ToSet(p) : y.ev = x.ev
        BY <2>2, <3>2, <4>1, ReplayKnows
      <4>3. HasINS(ToSet(p), t)
        BY <3>1, <4>2 DEF HasINS
      <4> HIDE DEF r
      <4>4. processEventCoreWithSeq(r, x) = r
        BY <2>2, <2>3, <3>2, CoreEffect
      <4> QED
        BY <2>2, <2>3, <4>3, <4>4
    <3>3. CASE ~Known(r, x.ev)
      <4> HIDE DEF r
      <4>1. r.helix \subseteq processEventCoreWithSeq(r, x).helix
        BY <2>2, <2>3, <3>3, CoreEffect
      <4>2. x.ev.op = "INS" => x.ev.on \in processEventCoreWithSeq(r, x).helix
        BY <2>2, <2>3, <3>3, INSDeclared
      <4> QED
        BY <2>2, <2>3, <3>1, <4>1, <4>2
    <3> QED
      BY <3>2, <3>3
  <2> QED
    BY <2>1, <2>2, <2>5
<1> HIDE DEF A
<1>3. Len(log) \in A
  BY <1>0, <1>1, <1>2, AtTheEnd, Zenon
<1> QED
  BY <1>3, <1>g DEF A

\* In a store its log rebuilds, exactly the targets with an INS are declared.
LEMMA HelixIsLogged ==
  ASSUME NEW s \in Store, Sound(s), Rebuilt(s), NEW t \in Targets
  PROVE  t \in s.helix <=> \E e : Says(s.log, e) /\ e.op = "INS" /\ e.on = t
<1>1. t \in s.helix => HasINS(ToSet(s.log), t)
  BY DEF Sound, HelixLogged
<1>2. ASSUME HasINS(ToSet(s.log), t) PROVE t \in s.helix
  <2>1. s.log \in Seq(Planned) /\ InUse(s.log)
    BY DEF Store, Sound, LogOrdered, InUse
  <2>2. t \in replayFromLog(s.log).helix
    BY <1>2, <2>1, DeclaredByLog
  <2> QED
    BY <2>2 DEF Rebuilt, Even, Alike, AlikeAt
<1>3. HasINS(ToSet(s.log), t) <=> \E e : Says(s.log, e) /\ e.op = "INS" /\ e.on = t
  BY DEF HasINS, Says
<1> QED
  BY <1>1, <1>2, <1>3

-----------------------------------------------------------------------------
(* The serial fold, wave by wave, and what the pre-pass plans for the same wave. *)

\* A planned event is its seq and its event.
LEMMA PlannedEqual ==
  ASSUME NEW x \in Planned, NEW y \in Planned, x.seq = y.seq, x.ev = y.ev
  PROVE  x = y
BY DEF Planned

\* A sequenced event is noted.
LEMMA SequencedLedger ==
  ASSUME NEW s \in Store, Recorded(s), NEW x \in Planned, x.ev \in Usable, NEW t
  PROVE  /\ Sequenced(s, x.ev) \in Store /\ Recorded(Sequenced(s, x.ev))
         /\ Ledger(Sequenced(s, x.ev).log, t) = Noted(Ledger(s.log, t), x, t)
<1> DEFINE e == x.ev
           n == s.seq + 1
           u == [s EXCEPT !.seq = n]
           y == [seq |-> n, ev |-> e]
<1>1. n \in Nat
  BY DEF Store
<1>2. Sequenced(s, e) = processEventCoreWithSeq(u, y)
  BY DEF Sequenced, Store
<1> HIDE DEF n
<1>3. u \in Store /\ u.log = s.log /\ u.idem = s.idem /\ u.helix = s.helix
  BY <1>1 DEF Store
<1>4. y \in Planned /\ y.ev = e /\ y.ev \in Usable
  BY <1>1, EventsInUse DEF Planned
<1> HIDE DEF u, y
<1>5. Recorded(u)
  BY <1>3 DEF Recorded, IdsLogged, HelixLogged
<1>6. processEventCoreWithSeq(u, y) \in Store /\ Recorded(processEventCoreWithSeq(u, y))
  BY <1>3, <1>4, <1>5, CoreIsRecorded
<1>7. Ledger(processEventCoreWithSeq(u, y).log, t) = Noted(Ledger(s.log, t), x, t)
  <2>1. Ledger(processEventCoreWithSeq(u, y).log, t) = Noted(Ledger(u.log, t), y, t)
    BY <1>3, <1>4, <1>5, CoreLedger
  <2> QED
    BY <1>3, <1>4, <2>1 DEF Noted
<1> QED
  BY <1>2, <1>6, <1>7

Planning(xs, evs) == Len(xs) = Len(evs) /\ \A i \in 1 .. Len(xs) : xs[i].ev = evs[i]

\* The serial fold notes the INSs that are missing and the event.
LEMMA SerialLedger ==
  ASSUME NEW s \in Store, Recorded(s), NEW evs \in Seq(Usable), NEW xs \in Seq(Planned),
         Planning(xs, evs), NEW t
  PROVE  Ledger(FoldLeft(Sequenced, s, evs).log, t) = NoteAll(Ledger(s.log, t), xs, t)
<1>0. evs \in Seq(Event)
  BY EventsInUse
<1>1. PICK b \in [0 .. Len(evs) -> Store] : Sequencing(b, s, evs)
  BY <1>0, SerialRuns
<1>2. /\ b[0] = s /\ b[Len(evs)] = FoldLeft(Sequenced, s, evs)
      /\ \A i \in 1 .. Len(evs) : b[i] = Sequenced(b[i - 1], evs[i])
  BY <1>1 DEF Sequencing
<1>3. /\ Len(evs) \in Nat /\ Len(xs) = Len(evs)
      /\ \A i \in 1 .. Len(evs) : evs[i] \in Usable /\ xs[i] \in Planned /\ xs[i].ev = evs[i]
  BY DEF Planning
<1> DEFINE A == {i \in 0 .. Len(evs) : Recorded(b[i])}
<1>4. 0 \in A
  BY <1>2, <1>3
<1>5. ASSUME NEW i \in 0 .. Len(evs) - 1, i \in A PROVE i + 1 \in A
  <2>1. i + 1 \in 1 .. Len(evs) /\ (i + 1) - 1 = i /\ i + 1 \in 0 .. Len(evs) /\ i \in 0 .. Len(evs)
    BY <1>3
  <2> DEFINE u == b[i]
             x == xs[i + 1]
  <2>a. u \in Store /\ Recorded(u) /\ x \in Planned /\ x.ev \in Usable /\ x.ev = evs[i + 1]
    BY <1>3, <1>5, <2>1
  <2> HIDE DEF u, x
  <2>b. Recorded(Sequenced(u, x.ev))
    BY <2>a, SequencedLedger
  <2>2. Recorded(Sequenced(b[i], evs[i + 1]))
    BY <2>a, <2>b DEF u
  <2> QED
    BY <1>2, <2>1, <2>2
<1> HIDE DEF A
<1>6. \A i \in 0 .. Len(evs) : i \in A
  BY <1>3, <1>4, <1>5, UpTo, Zenon
<1>7. \A i \in 0 .. Len(evs) : Recorded(b[i])
  BY <1>6 DEF A
<1> DEFINE a == [i \in 0 .. Len(evs) |-> Ledger(b[i].log, t)]
           l == Ledger(s.log, t)
<1>8. l \in Seq(Event)
  BY LedgerOfLog DEF Store
<1>9. a[0] = l /\ a[Len(evs)] = Ledger(FoldLeft(Sequenced, s, evs).log, t)
  BY <1>2, <1>3
<1>10. ASSUME NEW i \in 1 .. Len(evs) PROVE a[i] = Noted(a[i - 1], xs[i], t)
  <2>1. i - 1 \in 0 .. Len(evs) /\ i \in 0 .. Len(evs)
    BY <1>3
  <2> DEFINE u == b[i - 1]
             x == xs[i]
  <2>a. u \in Store /\ Recorded(u) /\ x \in Planned /\ x.ev \in Usable /\ x.ev = evs[i]
    BY <1>3, <1>7, <2>1
  <2> HIDE DEF u, x
  <2>b. Ledger(Sequenced(u, x.ev).log, t) = Noted(Ledger(u.log, t), x, t)
    BY <2>a, SequencedLedger
  <2>2. Ledger(Sequenced(b[i - 1], evs[i]).log, t) = Noted(Ledger(b[i - 1].log, t), xs[i], t)
    BY <2>a, <2>b DEF u, x
  <2> QED
    BY <1>2, <2>1, <2>2
<1> HIDE DEF a, l
<1>11. a[Len(xs)] = NoteAll(l, xs, t)
  <2>1. Along(a, l, xs, t)
    BY <1>3, <1>9, <1>10 DEF Along
  <2>2. Ends(a, l, xs, t)
    BY <1>8, <2>1, NotingEnds
  <2> QED
    BY <2>2 DEF Ends
<1> QED
  BY <1>3, <1>9, <1>11 DEF l

\* What the log brings in from other targets is there.
Served(s) == Brought(s, ToSet(s.log))
Serials   == {s \in Store : Sound(s) /\ Rebuilt(s) /\ Served(s)}

\* The serial fold of an event notes what the pre-pass plans for it, the INS it lacks first.
VisitedAs(q, e, ts, evs, r) ==
  /\ r \in Serials /\ evs \in Seq(Usable)
  /\ r.helix = q.helix \union ToSet(ts) \union (IF e.op = "INS" THEN {e.on} ELSE {})
  /\ \A xs \in Seq(Planned), t \in Targets :
       Len(xs) = Len(evs) /\ (\A i \in 1 .. Len(xs) : xs[i].ev = evs[i]) =>
         Ledger(r.log, t) = NoteAll(Ledger(q.log, t), xs, t)

\* One event of the serial fold against one visit of the pre-pass.
LEMMA SerialVisit ==
  ASSUME NEW q \in Serials, NEW e \in Usable, NEW ts, ts = Missing(e, q.helix),
         NEW evs, evs = INSsOf(ts) \o <<e>>, NEW r, r = processEvent(q, e)
  PROVE  VisitedAs(q, e, ts, evs, r)
<1>0. /\ q \in Store /\ Sound(q) /\ Rebuilt(q) /\ Served(q) /\ Recorded(q)
      /\ q.log \in Seq(Planned) /\ q.helix \in SUBSET Targets
  BY SoundIsRecorded DEF Serials, Store
<1>1. /\ e \in Event /\ e.on \in Targets /\ e.to \in SUBSET Targets /\ (e.to # {} => e.op = "CON")
      /\ (e.op = "CON" => e.op \in NeedsINS) /\ (e.op = "INS" => e.op \notin NeedsINS)
  BY EventsInUse, OnlyConBringsEdges DEF Event, NeedsINS
<1>2. /\ ts \in Seq(Targets) /\ ToSet(ts) = IF e.op \in NeedsINS THEN ({e.on} \union e.to) \ q.helix ELSE {}
      /\ INSsOf(ts) \in Seq(Usable) /\ ToSet(INSsOf(ts)) = {SyntheticINS(t) : t \in ToSet(ts)}
      /\ Len(INSsOf(ts)) = Len(ts)
  BY <1>0, <1>1, MissingTargets
<1>3. evs \in Seq(Usable) /\ ToSet(evs) = {SyntheticINS(t) : t \in ToSet(ts)} \union {e}
  <2> DEFINE u == INSsOf(ts)
             v == <<e>>
  <2>1. u \in Seq(Usable) /\ v \in Seq(Usable) /\ ToSet(v) = {e}
    BY <1>2 DEF ToSet
  <2>2. evs = u \o v /\ ToSet(u) = {SyntheticINS(t) : t \in ToSet(ts)}
    BY <1>2
  <2> HIDE DEF u, v
  <2>3. ToSet(u \o v) = ToSet(u) \union ToSet(v) /\ u \o v \in Seq(Usable)
    BY <2>1, Joined
  <2> QED
    BY <2>1, <2>2, <2>3
<1>4. r \in Store /\ Sound(r) /\ Rebuilt(r) /\ r.log \in Seq(Planned)
  BY <1>0, SerialIsSound, SerialRebuilt DEF Store
<1>5. ASSUME NEW t \in Targets PROVE t \in q.helix <=> HasINS(ToSet(q.log), t)
  BY <1>0, <1>5, HelixIsLogged DEF HasINS, Says
<1>6. ASSUME Known(q, e) PROVE ToSet(ts) = {} /\ Says(q.log, e) /\ r = q
  <2>1. PICK y \in ToSet(q.log) : y.ev = e
    BY <1>0, <1>6, KnownIsLogged
  <2>2. ASSUME e.op \in NeedsINS, NEW d \in {e.on} \union e.to PROVE d \in q.helix
    <3>1. CASE d = e.on
      <4>1. INSBefore(ToSet(q.log), y.ev.on, y.seq)
        BY <1>0, <2>1, <2>2 DEF Sound, LogOrdered
      <4> QED
        BY <1>1, <1>5, <2>1, <3>1, <4>1 DEF INSBefore, HasINS
    <3>2. CASE d # e.on
      <4>1. d \in y.ev.to \ {y.ev.on}
        BY <2>1, <2>2, <3>2
      <4>2. HasINS(ToSet(q.log), d)
        BY <1>0, <2>1, <4>1 DEF Served, Brought
      <4> QED
        BY <1>1, <1>5, <2>2, <4>2
    <3> QED
      BY <3>1, <3>2
  <2>3. ToSet(ts) = {}
    BY <1>2, <2>2
  <2> QED
    BY <1>6, <2>1, <2>3 DEF Says, processEvent
<1>7. ASSUME NEW xs \in Seq(Planned), NEW t \in Targets, Len(xs) = Len(evs),
             \A i \in 1 .. Len(xs) : xs[i].ev = evs[i]
      PROVE  Ledger(r.log, t) = NoteAll(Ledger(q.log, t), xs, t)
  <2>1. CASE Known(q, e)
    <3>1. ts = << >>
      BY <1>2, <1>6, <2>1, ElementsOf
    <3>2. INSsOf(ts) = << >>
      BY <1>2, <3>1
    <3>3. evs = <<e>>
      BY <3>2
    <3>4. Len(xs) = 1 /\ xs = <<xs[1]>> /\ xs[1] \in Planned /\ xs[1].ev = e
      <4>1. Len(xs) = 1 /\ evs[1] = e
        <5>1. Len(xs) = Len(evs)
          BY <1>7
        <5> QED
          BY <3>3, <5>1
      <4>2. 1 \in 1 .. Len(xs)
        BY <4>1
      <4>3. xs[1] \in Planned /\ xs[1].ev = evs[1]
        BY <1>7, <4>2
      <4>4. xs = <<xs[1]>>
        BY <4>1
      <4> QED
        BY <4>1, <4>3, <4>4
    <3> DEFINE x == xs[1]
               l == Ledger(q.log, t)
    <3>5. l \in Seq(Event) /\ (e.on = t => e \in ToSet(l))
      BY <1>0, <1>6, <2>1, LedgerOfLog
    <3>6. x \in Planned /\ x.ev = e /\ xs = <<x>> /\ e.id # 0
      BY <2>1, <3>4 DEF Known
    <3> HIDE DEF x, l
    <3>7. NoteAll(l, <<x>>, t) = Noted(l, x, t)
      BY <3>5, <3>6, NoteOnly
    <3>8. Noted(l, x, t) = l
      BY <3>5, <3>6 DEF Noted
    <3> QED
      BY <1>6, <2>1, <3>6, <3>7, <3>8 DEF l
  <2>2. CASE ~Known(q, e)
    <3>1. r = FoldLeft(Sequenced, q, evs)
      BY <2>2, Zenon DEF processEvent
    <3>2. Planning(xs, evs)
      BY <1>7 DEF Planning
    <3>3. q \in Store /\ Recorded(q) /\ evs \in Seq(Usable)
      BY <1>0, <1>3
    <3>4. Ledger(FoldLeft(Sequenced, q, evs).log, t) = NoteAll(Ledger(q.log, t), xs, t)
      BY <3>2, <3>3, SerialLedger
    <3> QED
      BY <3>1, <3>4
  <2> QED
    BY <2>1, <2>2
<1>8. ASSUME NEW f \in Event PROVE Says(r.log, f) <=> Says(q.log, f) \/ f \in ToSet(evs)
  <2> DEFINE xs == Solo(evs)
             l  == Ledger(q.log, f.on)
  <2>0. evs \in Seq(Event) /\ f.on \in Targets
    <3>1. evs \in Seq(Event)
      BY <1>3, EventsInUse
    <3> QED
      BY <3>1 DEF Event
  <2>1. /\ xs \in Seq(Planned) /\ Len(xs) = Len(evs) /\ (\A i \in 1 .. Len(xs) : xs[i].ev = evs[i])
        /\ \A g : (\E x \in ToSet(xs) : x.ev = g) <=> g \in ToSet(evs)
    <3>1. xs \in Seq(Planned) /\ \A g : (\E x \in ToSet(xs) : x.ev = g) <=> g \in ToSet(evs)
      BY <2>0, SoloLogs
    <3>2. Len(evs) \in Nat /\ DOMAIN xs = 1 .. Len(evs) /\ \A i \in 1 .. Len(evs) : xs[i].ev = evs[i]
      BY <2>0 DEF Solo
    <3> HIDE DEF xs
    <3>3. Len(xs) = Len(evs)
      BY <3>1, <3>2
    <3> QED
      BY <3>1, <3>2, <3>3
  <2> HIDE DEF xs
  <2>2. Ledger(r.log, f.on) = NoteAll(l, xs, f.on)
    BY <1>7, <2>0, <2>1
  <2>3. l \in Seq(Event) /\ (f \in ToSet(l) <=> Says(q.log, f))
    BY <1>0, LedgerOfLog
  <2>4. f \in ToSet(Ledger(r.log, f.on)) <=> Says(r.log, f)
    BY <1>4, LedgerOfLog
  <2> HIDE DEF l
  <2>5. ToSet(NoteAll(l, xs, f.on)) = ToSet(l) \union {x.ev : x \in {y \in ToSet(xs) : y.ev.on = f.on}}
    <3>1. xs \in Seq(Planned) /\ l \in Seq(Event)
      BY <2>1, <2>3
    <3> QED
      BY <3>1, NoteElements
  <2> QED
    BY <2>1, <2>2, <2>3, <2>4, <2>5
<1>9. ASSUME NEW t \in Targets
      PROVE  /\ t \in r.helix <=> HasINS(ToSet(r.log), t)
             /\ t \in r.helix <=> t \in q.helix \/ t \in ToSet(ts) \/ (e.op = "INS" /\ e.on = t)
  <2>1. t \in r.helix <=> \E f : Says(r.log, f) /\ f.op = "INS" /\ f.on = t
    BY <1>4, HelixIsLogged
  <2>2. t \in q.helix <=> \E f : Says(q.log, f) /\ f.op = "INS" /\ f.on = t
    BY <1>0, HelixIsLogged
  <2>3. \A f : Says(r.log, f) \/ Says(q.log, f) => f \in Event
    <3>1. \A x \in ToSet(r.log) : x.ev \in Event
      BY <1>4, EventsInUse DEF Sound, LogOrdered
    <3>2. \A x \in ToSet(q.log) : x.ev \in Event
      BY <1>0, EventsInUse DEF Sound, LogOrdered
    <3> QED
      BY <3>1, <3>2 DEF Says
  <2>4. (\E f \in ToSet(evs) : f.op = "INS" /\ f.on = t) <=> t \in ToSet(ts) \/ (e.op = "INS" /\ e.on = t)
    <3>1. \A d : SyntheticINS(d).op = "INS" /\ SyntheticINS(d).on = d
      BY DEF SyntheticINS
    <3> QED
      BY <1>3, <3>1
  <2>5. ToSet(evs) \subseteq Event
    BY <1>3, EventsInUse, ElementsOf
  <2>6. t \in r.helix <=> t \in q.helix \/ \E f \in ToSet(evs) : f.op = "INS" /\ f.on = t
    BY <1>8, <2>1, <2>2, <2>3, <2>5
  <2> QED
    BY <2>1, <2>4, <2>6 DEF HasINS, Says
<1>10. Served(r)
  <2> SUFFICES ASSUME NEW x \in ToSet(r.log), NEW d \in x.ev.to \ {x.ev.on} PROVE HasINS(ToSet(r.log), d)
    BY DEF Served, Brought
  <2>1. x.ev \in Event /\ d \in Targets /\ Says(r.log, x.ev)
    BY <1>4, EventsInUse DEF Sound, LogOrdered, Says, Event
  <2>2. CASE Says(q.log, x.ev)
    <3>1. PICK y \in ToSet(q.log) : y.ev = x.ev
      BY <2>2 DEF Says
    <3>2. HasINS(ToSet(q.log), d)
      BY <1>0, <3>1 DEF Served, Brought
    <3> QED
      BY <1>5, <1>9, <2>1, <3>2
  <2>3. CASE x.ev \in ToSet(evs)
    <3>1. x.ev = e
      BY <1>3, <2>3 DEF SyntheticINS
    <3>2. d \in q.helix \/ d \in ToSet(ts)
      BY <1>1, <1>2, <3>1
    <3> QED
      BY <1>9, <2>1, <3>2
  <2> QED
    BY <1>8, <2>1, <2>2, <2>3
<1>11. r.helix = q.helix \union ToSet(ts) \union (IF e.op = "INS" THEN {e.on} ELSE {})
  <2>1. r.helix \in SUBSET Targets /\ ToSet(ts) \in SUBSET Targets
    BY <1>2, <1>4, ElementsOf DEF Store
  <2> QED
    BY <1>0, <1>1, <1>9, <2>1
<1> QED
  BY <1>3, <1>4, <1>7, <1>10, <1>11 DEF Serials, VisitedAs

\* Reserving seqs for two sequences one behind the other.
LEMMA ReservedJoined ==
  ASSUME NEW u \in Seq(Event), NEW v \in Seq(Event), NEW n \in Nat
  PROVE  Reserved(u \o v, n) = Reserved(u, n) \o Reserved(v, n + Len(u))
<1> DEFINE w == u \o v
           x == Reserved(u, n)
           m == n + Len(u)
           z == Reserved(v, m)
           y == Reserved(w, n)
<1>1. /\ w \in Seq(Event) /\ Len(w) = Len(u) + Len(v)
      /\ (\A j \in 1 .. Len(u) : w[j] = u[j]) /\ \A j \in 1 .. Len(v) : w[Len(u) + j] = v[j]
  BY JoinedElements
<1>n. Len(u) \in Nat /\ Len(v) \in Nat /\ m \in Nat /\ m = n + Len(u)
  OBVIOUS
<1> HIDE DEF w, m
<1>2. x \in Seq(Planned) /\ Len(x) = Len(u) /\ \A j \in 1 .. Len(x) : x[j].seq = n + j /\ x[j].ev = u[j]
  BY ReservedSeqs
<1>3. y \in Seq(Planned) /\ Len(y) = Len(w) /\ \A j \in 1 .. Len(y) : y[j].seq = n + j /\ y[j].ev = w[j]
  BY <1>1, ReservedSeqs
<1>4. z \in Seq(Planned) /\ Len(z) = Len(v) /\ \A j \in 1 .. Len(z) : z[j].seq = m + j /\ z[j].ev = v[j]
  BY <1>n, ReservedSeqs
<1> HIDE DEF x, y, z
<1> DEFINE c == x \o z
<1>s. x \in Seq(Planned) /\ z \in Seq(Planned)
  BY <1>2, <1>4
<1>5. /\ c \in Seq(Planned) /\ Len(c) = Len(x) + Len(z)
      /\ (\A j \in 1 .. Len(x) : c[j] = x[j]) /\ \A j \in 1 .. Len(z) : c[Len(x) + j] = z[j]
  BY <1>s, JoinedElements
<1> HIDE DEF c
<1>6. ASSUME NEW j \in 1 .. Len(y) PROVE y[j] = c[j]
  <2>0. y[j] \in Planned /\ y[j].seq = n + j /\ y[j].ev = w[j]
    BY <1>3
  <2>1. CASE j <= Len(u)
    <3>1. j \in 1 .. Len(u)
      BY <1>n, <2>1
    <3>2. x[j] \in Planned /\ x[j].seq = n + j /\ x[j].ev = w[j] /\ c[j] = x[j]
      BY <1>1, <1>2, <1>5, <3>1
    <3> QED
      BY <2>0, <3>2, PlannedEqual
  <2>2. CASE j > Len(u)
    <3> DEFINE h == j - Len(u)
    <3>1. h \in 1 .. Len(v) /\ Len(u) + h = j
      BY <1>1, <1>3, <1>n, <2>2
    <3> HIDE DEF h
    <3>2. z[h] \in Planned /\ z[h].seq = m + h /\ z[h].ev = w[j]
      <4>1. h \in 1 .. Len(z)
        BY <1>4, <3>1
      <4>2. w[j] = v[h]
        BY <1>1, <3>1
      <4> QED
        BY <1>4, <4>1, <4>2
    <3>3. m + h = n + j
      BY <1>n, <3>1
    <3>4. c[j] = z[h]
      BY <1>2, <1>4, <1>5, <3>1
    <3> QED
      BY <2>0, <3>2, <3>3, <3>4, PlannedEqual
  <2>3. j <= Len(u) \/ j > Len(u)
    BY <1>n
  <2> QED
    BY <2>1, <2>2, <2>3
<1>7. Len(y) = Len(c)
  BY <1>1, <1>2, <1>3, <1>4, <1>5
<1>8. y = c
  BY <1>3, <1>5, <1>6, <1>7, SeqsEqual
<1> QED
  BY <1>8 DEF c, x, y, z, w, m

\* The stores a wave of the serial fold goes through.
WaveRunning(a, s, wave) ==
  /\ a[0] = s /\ a[Len(wave)] = SerialWave(s, wave)
  /\ \A i \in 1 .. Len(wave) : a[i] = processEvent(a[i - 1], wave[i])

\* The stores of a serial wave.
LEMMA WaveRuns ==
  ASSUME NEW s \in Serials, NEW wave \in Seq(Usable)
  PROVE  \E a \in [0 .. Len(wave) -> Serials] : WaveRunning(a, s, wave)
<1> DEFINE F == [p \in (Serials) \X (Usable) |-> processEvent(p[1], p[2])]
           D == DOMAIN wave
<1>0. D = 1 .. Len(wave) /\ Len(wave) \in Nat /\ \A i \in 1 .. Len(wave) : wave[i] \in Usable
  OBVIOUS
<1>1. ASSUME NEW u \in Serials, NEW x \in Usable PROVE (processEvent(u, x)) \in Serials
  BY SerialVisit DEF VisitedAs
<1>2. \A u \in Serials, x \in Usable : F[<<u, x>>] = processEvent(u, x)
  OBVIOUS
<1>3. \A u \in Serials, x \in Usable : F[<<u, x>>] \in Serials
  <2> HIDE DEF F
  <2> QED
    BY <1>1, <1>2
<1>4. s \in Serials
  OBVIOUS
<1>5. PICK h : Steps(F, s, wave, h)
  BY FoldExists
<1>6. \A S \in SUBSET D : h[S] \in Serials
  <2> HIDE DEF F
  <2> QED
    BY <1>3, <1>4, <1>5, FoldStays, Zenon
<1>7. h = [S \in SUBSET D |->
             IF S = {} THEN s ELSE processEvent(h[S \ {Max(S)}], wave[Max(S)])]
  <2>1. ASSUME NEW S \in SUBSET D, S # {}
        PROVE  F[<<h[S \ {Max(S)}], wave[Max(S)]>>] =
                 processEvent(h[S \ {Max(S)}], wave[Max(S)])
    <3>1. Max(S) \in S
      BY <1>0, <2>1, MaxIsGreatest
    <3>2. h[S \ {Max(S)}] \in Serials /\ wave[Max(S)] \in Usable
      BY <1>0, <1>6, <3>1
    <3> HIDE DEF F
    <3> QED
      BY <1>2, <3>2
  <2> HIDE DEF F
  <2> QED
    BY <1>5, <2>1, Zenon DEF Steps
<1>8. PICK g : /\ g = [S \in SUBSET D |->
                        IF S = {} THEN s ELSE processEvent(g[S \ {Max(S)}], wave[Max(S)])]
               /\ SerialWave(s, wave) = g[D]
  <2> HIDE DEF F
  <2> QED
    BY <1>7 DEF FoldLeft, MapThenFoldSet, SerialWave
<1> DEFINE a == [i \in 0 .. Len(wave) |-> g[1 .. i]]
<1>9. a[0] = s
  <2>1. 1 .. 0 = {} /\ {} \in SUBSET D
    OBVIOUS
  <2>2. g[{}] = s
    BY <1>8, <2>1, Zenon
  <2> QED
    BY <2>1, <2>2
<1>10. ASSUME NEW i \in 1 .. Len(wave) PROVE a[i] = processEvent(a[i - 1], wave[i])
  <2>1. /\ 1 .. i \in SUBSET D /\ 1 .. i # {} /\ Max(1 .. i) = i
        /\ (1 .. i) \ {i} = 1 .. i - 1
    BY <1>0, Segments
  <2>2. g[1 .. i] = processEvent(g[1 .. i - 1], wave[i])
    BY <1>8, <2>1, Zenon
  <2>3. i - 1 \in 0 .. Len(wave) /\ i \in 0 .. Len(wave)
    OBVIOUS
  <2> QED
    BY <2>2, <2>3, Zenon
<1>11. \A i \in 0 .. Len(wave) : a[i] \in Serials
  <2> DEFINE A == {i \in 0 .. Len(wave) : a[i] \in Serials}
  <2>1. 0 \in A
    <3>1. 0 \in 0 .. Len(wave)
      OBVIOUS
    <3> QED
      BY <1>4, <1>9, <3>1, Zenon
  <2>2. ASSUME NEW i \in 0 .. Len(wave) - 1, i \in A PROVE i + 1 \in A
    <3>1. /\ i + 1 \in 1 .. Len(wave) /\ (i + 1) - 1 = i /\ i + 1 \in 0 .. Len(wave)
          /\ a[i] \in Serials /\ wave[i + 1] \in Usable
      BY <1>0, <2>2
    <3> HIDE DEF a
    <3>2. a[i + 1] = processEvent(a[i], wave[i + 1])
      BY <1>10, <3>1
    <3>3. a[i + 1] \in Serials
      BY <1>1, <3>1, <3>2
    <3> QED
      BY <3>1, <3>3
  <2> HIDE DEF A
  <2>3. \A i \in 0 .. Len(wave) : i \in A
    BY <1>0, <2>1, <2>2, UpTo, Zenon
  <2> QED
    BY <2>3 DEF A
<1>12. a \in [0 .. Len(wave) -> Serials]
  BY <1>11
<1>13. a[Len(wave)] = SerialWave(s, wave)
  BY <1>0, <1>8
<1> HIDE DEF a
<1> QED
  BY <1>9, <1>10, <1>12, <1>13 DEF WaveRunning

\* A wave with its INSs leaves the ledgers that the serial fold of the wave leaves.
LEMMA WaveLedger ==
  ASSUME NEW q \in Serials, NEW wave \in Seq(Usable), Pure(wave), NEW n \in Nat
  PROVE  /\ SerialWave(q, wave) \in Serials
         /\ \A t \in Targets : Ledger(SerialWave(q, wave).log, t) =
              NoteAll(Ledger(q.log, t), Reserved(Expanded(wave, q.helix).out, n), t)
<1>0. q \in Store /\ q.log \in Seq(Planned) /\ q.helix \in SUBSET Targets
  BY DEF Serials, Store
<1>1. PICK a \in [0 .. Len(wave) -> Serials] : WaveRunning(a, q, wave)
  BY WaveRuns
<1>2. PICK b \in [0 .. Len(wave) -> Expansions(wave, q.helix)] : Visiting(b, wave, q.helix)
  BY <1>0, VisitRuns
<1>3. /\ a[0] = q /\ a[Len(wave)] = SerialWave(q, wave)
      /\ \A i \in 1 .. Len(wave) : a[i] = processEvent(a[i - 1], wave[i])
  BY <1>1 DEF WaveRunning
<1>4. /\ b[0] = [out |-> << >>, insed |-> q.helix] /\ b[Len(wave)] = Expanded(wave, q.helix)
      /\ \A i \in 1 .. Len(wave) : b[i] = Visit(b[i - 1], wave[i])
  BY <1>2 DEF Visiting
<1>5. Len(wave) \in Nat /\ \A i \in 1 .. Len(wave) : wave[i] \in Usable
  OBVIOUS
<1> DEFINE Fits(s, v) == /\ v.insed = s.helix
                         /\ \A t \in Targets : Ledger(s.log, t) = NoteAll(Ledger(q.log, t), Reserved(v.out, n), t)
           A == {i \in 0 .. Len(wave) : Fits(a[i], b[i])}
<1>6. 0 \in A
  <2>1. Reserved(<< >>, n) = << >>
    BY DEF Reserved
  <2>2. ASSUME NEW t \in Targets PROVE Ledger(q.log, t) = NoteAll(Ledger(q.log, t), << >>, t)
    BY <1>0, LedgerOfLog, NoteNone
  <2> QED
    BY <1>3, <1>4, <1>5, <2>1, <2>2
<1>7. ASSUME NEW i \in 0 .. Len(wave) - 1, i \in A PROVE i + 1 \in A
  <2> DEFINE s   == a[i]
             v   == b[i]
             e   == wave[i + 1]
             ts  == Missing(e, s.helix)
             evs == INSsOf(ts) \o <<e>>
             r   == processEvent(s, e)
             m   == n + Len(v.out)
             xs  == Reserved(evs, m)
  <2>1. i + 1 \in 1 .. Len(wave) /\ (i + 1) - 1 = i /\ i + 1 \in 0 .. Len(wave) /\ i \in 0 .. Len(wave)
    BY <1>5
  <2>2. s \in Serials /\ e \in Usable /\ v \in Expansions(wave, q.helix) /\ Fits(s, v)
    BY <1>5, <1>7, <2>1
  <2>3. a[i + 1] = r /\ b[i + 1] = Visit(v, e)
    BY <1>3, <1>4, <2>1
  <2> HIDE DEF s, v, e, Fits
  <2>4. /\ r \in Serials /\ evs \in Seq(Usable)
        /\ r.helix = s.helix \union ToSet(ts) \union (IF e.op = "INS" THEN {e.on} ELSE {})
        /\ \A ys \in Seq(Planned), t \in Targets :
             Len(ys) = Len(evs) /\ (\A j \in 1 .. Len(ys) : ys[j].ev = evs[j]) =>
               Ledger(r.log, t) = NoteAll(Ledger(s.log, t), ys, t)
    <3>1. ts = Missing(e, s.helix) /\ evs = INSsOf(ts) \o <<e>> /\ r = processEvent(s, e)
      OBVIOUS
    <3> HIDE DEF ts, evs, r
    <3>2. s \in Serials /\ e \in Usable
      BY <2>2
    <3>3. VisitedAs(s, e, ts, evs, r)
      BY <3>1, <3>2, SerialVisit, Zenon
    <3> QED
      BY <3>3, Zenon DEF VisitedAs
  <2>5. v.out \in Seq(Usable) /\ v.insed = s.helix
    BY <2>2 DEF Expansions, Fits
  <2>6. Visit(v, e).insed = r.helix /\ Visit(v, e).out = v.out \o evs
    <3>1. Visit(v, e) = [out |-> v.out \o INSsOf(ts) \o <<e>>, insed |-> Insed(s.helix, ts, e)]
      BY <2>5 DEF Visit
    <3>2. Insed(s.helix, ts, e) = r.helix
      BY <2>4 DEF Insed
    <3>3. v.out \o INSsOf(ts) \o <<e>> = v.out \o evs
      <4> DEFINE x == v.out
                 y == INSsOf(ts)
                 z == <<e>>
      <4>1. x \in Seq(Usable) /\ y \in Seq(Usable) /\ z \in Seq(Usable)
        <5>1. e \in Event /\ s.helix \in SUBSET Targets
          BY <2>2, EventsInUse DEF Serials, Store
        <5> QED
          BY <2>2, <2>5, <5>1, MissingTargets
      <4>2. evs = y \o z
        OBVIOUS
      <4> HIDE DEF x, y, z
      <4>3. (x \o y) \o z = x \o (y \o z)
        <5>1. \A u1, u2, u3 \in Seq(Usable) : (u1 \o u2) \o u3 = u1 \o (u2 \o u3)
          OBVIOUS
        <5> QED
          BY <4>1, <5>1, Zenon
      <4> QED
        BY <4>2, <4>3 DEF x, y, z
    <3> DEFINE o == v.out \o INSsOf(ts) \o <<e>>
               i2 == Insed(s.helix, ts, e)
    <3>4. Visit(v, e) = [out |-> o, insed |-> i2]
      BY <3>1
    <3> HIDE DEF o, i2
    <3>5. Visit(v, e).out = o /\ Visit(v, e).insed = i2
      BY <3>4
    <3> QED
      BY <3>2, <3>3, <3>5, Zenon DEF o, i2
  <2> HIDE DEF evs, ts, r
  <2>7. m \in Nat /\ v.out \in Seq(Event) /\ evs \in Seq(Event)
    BY <2>4, <2>5, EventsInUse
  <2>8. /\ xs \in Seq(Planned) /\ Len(xs) = Len(evs)
        /\ \A j \in 1 .. Len(xs) : xs[j].seq = m + j /\ xs[j].ev = evs[j]
    <3> HIDE DEF m
    <3> QED
      BY <2>7, ReservedSeqs
  <2>9. Reserved(v.out \o evs, n) = Reserved(v.out, n) \o xs /\ Reserved(v.out, n) \in Seq(Planned)
    <3> DEFINE u == v.out
    <3>1. u \in Seq(Event) /\ xs = Reserved(evs, n + Len(u))
      BY <2>7
    <3> HIDE DEF u, xs
    <3>2. Reserved(u \o evs, n) = Reserved(u, n) \o Reserved(evs, n + Len(u)) /\ Reserved(u, n) \in Seq(Planned)
      BY <2>7, <3>1, ReservedJoined, ReservedSeqs
    <3> QED
      BY <3>1, <3>2 DEF u
  <2>10. ASSUME NEW t \in Targets
         PROVE  Ledger(r.log, t) = NoteAll(Ledger(q.log, t), Reserved(v.out \o evs, n), t)
    <3> DEFINE l == Ledger(q.log, t)
               x == Reserved(v.out, n)
    <3>1. l \in Seq(Event) /\ x \in Seq(Planned)
      BY <1>0, <2>9, LedgerOfLog
    <3>2. Ledger(s.log, t) = NoteAll(l, x, t)
      BY <2>2 DEF Fits
    <3>3. Ledger(r.log, t) = NoteAll(Ledger(s.log, t), xs, t)
      BY <2>4, <2>8
    <3> HIDE DEF l, x, xs
    <3>4. NoteAll(l, x \o xs, t) = NoteAll(NoteAll(l, x, t), xs, t)
      BY <2>8, <3>1, NoteJoined
    <3> QED
      BY <2>9, <3>2, <3>3, <3>4 DEF l, x
  <2>11. Fits(r, Visit(v, e))
    BY <2>6, <2>10 DEF Fits
  <2> QED
    BY <2>1, <2>3, <2>11
<1> HIDE DEF A
<1>8. Len(wave) \in A
  BY <1>5, <1>6, <1>7, AtTheEnd, Zenon
<1>9. Len(wave) \in 0 .. Len(wave) /\ Fits(a[Len(wave)], b[Len(wave)])
  BY <1>5, <1>8 DEF A
<1> QED
  BY <1>1, <1>3, <1>4, <1>9

\* The stores between the waves of the serial fold.
Serially(a, s, b) ==
  /\ a[0] = s /\ a[Len(sortByHelixLevel(b))] = SerialFold(s, b)
  /\ \A i \in 1 .. Len(sortByHelixLevel(b)) : a[i] = SerialWave(a[i - 1], sortByHelixLevel(b)[i])

\* The stores of the serial fold, wave by wave.
LEMMA SerialFoldRuns ==
  ASSUME NEW s \in Serials, NEW b, NEW ws \in Seq(Seq(Usable)), ws = sortByHelixLevel(b)
  PROVE  \E a \in [0 .. Len(ws) -> Serials] : Serially(a, s, b)
<1> DEFINE F == [p \in (Serials) \X (Seq(Usable)) |-> SerialWave(p[1], p[2])]
           D == DOMAIN ws
<1>0. D = 1 .. Len(ws) /\ Len(ws) \in Nat /\ \A i \in 1 .. Len(ws) : ws[i] \in Seq(Usable)
  OBVIOUS
<1>1. ASSUME NEW u \in Serials, NEW x \in Seq(Usable) PROVE SerialWave(u, x) \in Serials
  <2>1. PICK a \in [0 .. Len(x) -> Serials] : WaveRunning(a, u, x)
    BY WaveRuns
  <2>2. Len(x) \in 0 .. Len(x)
    OBVIOUS
  <2> QED
    BY <2>1, <2>2 DEF WaveRunning
<1>2. \A u \in Serials, x \in Seq(Usable) : F[<<u, x>>] = SerialWave(u, x)
  OBVIOUS
<1>3. \A u \in Serials, x \in Seq(Usable) : F[<<u, x>>] \in Serials
  <2> HIDE DEF F
  <2> QED
    BY <1>1, <1>2
<1>4. s \in Serials
  OBVIOUS
<1>5. PICK h : Steps(F, s, ws, h)
  BY FoldExists
<1>6. \A S \in SUBSET D : h[S] \in Serials
  <2> HIDE DEF F
  <2> QED
    BY <1>3, <1>4, <1>5, FoldStays, Zenon
<1>7. h = [S \in SUBSET D |->
             IF S = {} THEN s ELSE SerialWave(h[S \ {Max(S)}], ws[Max(S)])]
  <2>1. ASSUME NEW S \in SUBSET D, S # {}
        PROVE  F[<<h[S \ {Max(S)}], ws[Max(S)]>>] =
                 SerialWave(h[S \ {Max(S)}], ws[Max(S)])
    <3>1. Max(S) \in S
      BY <1>0, <2>1, MaxIsGreatest
    <3>2. h[S \ {Max(S)}] \in Serials /\ ws[Max(S)] \in Seq(Usable)
      BY <1>0, <1>6, <3>1
    <3> HIDE DEF F
    <3> QED
      BY <1>2, <3>2
  <2> HIDE DEF F
  <2> QED
    BY <1>5, <2>1, Zenon DEF Steps
<1>8. PICK g : /\ g = [S \in SUBSET D |->
                        IF S = {} THEN s ELSE SerialWave(g[S \ {Max(S)}], ws[Max(S)])]
               /\ SerialFold(s, b) = g[D]
  <2>1. SerialFold(s, b) = FoldLeft(SerialWave, s, ws)
    BY Zenon DEF SerialFold
  <2> HIDE DEF F
  <2> QED
    BY <1>7, <2>1 DEF FoldLeft, MapThenFoldSet
<1> DEFINE a == [i \in 0 .. Len(ws) |-> g[1 .. i]]
<1>9. a[0] = s
  <2>1. 1 .. 0 = {} /\ {} \in SUBSET D
    OBVIOUS
  <2>2. g[{}] = s
    BY <1>8, <2>1, Zenon
  <2> QED
    BY <2>1, <2>2
<1>10. ASSUME NEW i \in 1 .. Len(ws) PROVE a[i] = SerialWave(a[i - 1], ws[i])
  <2>1. /\ 1 .. i \in SUBSET D /\ 1 .. i # {} /\ Max(1 .. i) = i
        /\ (1 .. i) \ {i} = 1 .. i - 1
    BY <1>0, Segments
  <2>2. g[1 .. i] = SerialWave(g[1 .. i - 1], ws[i])
    BY <1>8, <2>1, Zenon
  <2>3. i - 1 \in 0 .. Len(ws) /\ i \in 0 .. Len(ws)
    OBVIOUS
  <2> QED
    BY <2>2, <2>3, Zenon
<1>11. \A i \in 0 .. Len(ws) : a[i] \in Serials
  <2> DEFINE A == {i \in 0 .. Len(ws) : a[i] \in Serials}
  <2>1. 0 \in A
    <3>1. 0 \in 0 .. Len(ws)
      OBVIOUS
    <3> QED
      BY <1>4, <1>9, <3>1, Zenon
  <2>2. ASSUME NEW i \in 0 .. Len(ws) - 1, i \in A PROVE i + 1 \in A
    <3>1. /\ i + 1 \in 1 .. Len(ws) /\ (i + 1) - 1 = i /\ i + 1 \in 0 .. Len(ws)
          /\ a[i] \in Serials /\ ws[i + 1] \in Seq(Usable)
      BY <1>0, <2>2
    <3> HIDE DEF a
    <3>2. a[i + 1] = SerialWave(a[i], ws[i + 1])
      BY <1>10, <3>1
    <3>3. a[i + 1] \in Serials
      BY <1>1, <3>1, <3>2
    <3> QED
      BY <3>1, <3>3
  <2> HIDE DEF A
  <2>3. \A i \in 0 .. Len(ws) : i \in A
    BY <1>0, <2>1, <2>2, UpTo, Zenon
  <2> QED
    BY <2>3 DEF A
<1>12. a \in [0 .. Len(ws) -> Serials]
  BY <1>11
<1>13. a[Len(ws)] = SerialFold(s, b)
  BY <1>0, <1>8
<1> HIDE DEF a
<1> QED
  BY <1>9, <1>10, <1>12, <1>13 DEF Serially

-----------------------------------------------------------------------------
(* Steps: what is carried out of a wave, in groups or in shards. *)

\* Of two sequences by seq, one begins with the other if what else it holds is newer.
Begins(w, u, P) ==
  /\ Ascending(w) /\ Ascending(u) /\ ToSet(w) = ToSet(u) \union P
  /\ \A x \in ToSet(u), y \in P : x.seq < y.seq

Behind(w, u, P, v) == Ascending(v) /\ ToSet(v) = P /\ w = u \o v

\* What is by seq and newer comes behind.
LEMMA SplitAscending ==
  ASSUME NEW w \in Seq(Planned), NEW u \in Seq(Planned), NEW P, Begins(w, u, P)
  PROVE  \E v \in Seq(Planned) : Behind(w, u, P, v)
<1> DEFINE n == Len(u)
           A == {i \in 0 .. n : i <= Len(w) /\ \A j \in 1 .. i : w[j] = u[j]}
<1>0. /\ Ascending(w) /\ Ascending(u) /\ ToSet(w) = ToSet(u) \union P
      /\ \A x \in ToSet(u), y \in P : x.seq < y.seq
  BY DEF Begins
<1>1. /\ n \in Nat /\ Len(w) \in Nat
      /\ \A i \in 1 .. n : u[i] \in Planned /\ u[i].seq \in Nat
      /\ \A i \in 1 .. Len(w) : w[i] \in Planned /\ w[i].seq \in Nat
  <2>1. \A x \in Planned : x.seq \in Nat
    BY DEF Planned
  <2>2. /\ n \in Nat /\ Len(w) \in Nat
        /\ \A i \in 1 .. n : u[i] \in Planned
        /\ \A i \in 1 .. Len(w) : w[i] \in Planned
    OBVIOUS
  <2> QED
    BY <2>1, <2>2
<1>2. /\ \A x : x \in ToSet(u) <=> \E i \in 1 .. n : u[i] = x
      /\ \A x : x \in ToSet(w) <=> \E i \in 1 .. Len(w) : w[i] = x
  <2>1. ToSet(u) = {u[i] : i \in 1 .. n} /\ ToSet(w) = {w[i] : i \in 1 .. Len(w)}
    BY ElementsOf
  <2> QED
    BY <2>1
<1>3. /\ \A i, j \in 1 .. n : i < j => u[i].seq < u[j].seq
      /\ \A i, j \in 1 .. Len(w) : i < j => w[i].seq < w[j].seq
  BY <1>0 DEF Ascending
<1>4. 0 \in A
  BY <1>1
<1>5. ASSUME NEW i \in 0 .. n - 1, i \in A PROVE i + 1 \in A
  <2>1. i \in Nat /\ i + 1 \in 1 .. n /\ i <= Len(w) /\ \A j \in 1 .. i : w[j] = u[j]
    BY <1>1, <1>5
  <2>2. PICK m \in 1 .. Len(w) : w[m] = u[i + 1]
    BY <1>0, <1>2, <2>1
  <2>3. ~(m <= i)
    <3>1. SUFFICES ASSUME m <= i PROVE FALSE
      OBVIOUS
    <3>2. m \in 1 .. i /\ m \in 1 .. n /\ m < i + 1 /\ w[m] = u[m]
      BY <1>1, <2>1, <2>2, <3>1
    <3>3. u[m].seq < u[i + 1].seq
      BY <1>3, <2>1, <3>2
    <3> QED
      BY <1>1, <2>1, <2>2, <3>2, <3>3
  <2>4. i + 1 \in 1 .. Len(w)
    BY <1>1, <2>1, <2>2, <2>3
  <2>5. w[i + 1] = u[i + 1]
    <3>1. SUFFICES ASSUME m # i + 1 PROVE FALSE
      BY <2>2
    <3>2. w[i + 1].seq < u[i + 1].seq
      <4>1. i + 1 < m
        BY <1>1, <2>1, <2>2, <2>3, <3>1
      <4> QED
        BY <1>3, <2>2, <2>4, <4>1
    <3>3. w[i + 1] \notin P
      <4>1. u[i + 1] \in ToSet(u)
        BY <1>2, <2>1
      <4>2. w[i + 1].seq \in Nat /\ u[i + 1].seq \in Nat
        BY <1>1, <2>1, <2>4
      <4> QED
        BY <1>0, <3>2, <4>1, <4>2
    <3>4. PICK l \in 1 .. n : u[l] = w[i + 1]
      BY <1>0, <1>2, <2>4, <3>3
    <3>5. ~(i + 1 <= l)
      BY <1>1, <1>3, <2>1, <3>2, <3>4
    <3>6. l \in 1 .. i /\ l < i + 1 /\ l \in 1 .. Len(w)
      BY <1>1, <2>1, <2>4, <3>4, <3>5
    <3>7. w[l] = w[i + 1] /\ w[l].seq < w[i + 1].seq
      BY <1>3, <2>1, <2>4, <3>4, <3>6
    <3> QED
      BY <1>1, <2>4, <3>7
  <2>6. \A j \in 1 .. i + 1 : j \in 1 .. i \/ j = i + 1
    BY <2>1
  <2> QED
    BY <1>1, <2>1, <2>4, <2>5, <2>6
<1> HIDE DEF A
<1>6. n \in A
  BY <1>1, <1>4, <1>5, AtTheEnd, Zenon
<1>7. n <= Len(w) /\ \A j \in 1 .. n : w[j] = u[j]
  BY <1>6 DEF A
<1> HIDE DEF n
<1> DEFINE v == [j \in 1 .. Len(w) - n |-> w[n + j]]
<1>8. v \in Seq(Planned) /\ Len(v) = Len(w) - n /\ \A j \in 1 .. Len(v) : n + j \in 1 .. Len(w) /\ v[j] = w[n + j]
  <2>1. Len(w) - n \in Nat /\ \A j \in 1 .. Len(w) - n : n + j \in 1 .. Len(w) /\ w[n + j] \in Planned
    BY <1>1, <1>7
  <2>2. v \in Seq(Planned) /\ Len(v) = Len(w) - n
    BY <2>1
  <2> QED
    BY <2>1, <2>2
<1> HIDE DEF v
<1>9. w = u \o v
  <2>1. /\ u \o v \in Seq(Planned) /\ Len(u \o v) = n + Len(v)
        /\ \A i \in 1 .. n : (u \o v)[i] = u[i]
        /\ \A i \in 1 .. Len(v) : (u \o v)[n + i] = v[i]
    BY <1>8, JoinedElements DEF n
  <2> DEFINE z == u \o v
  <2> HIDE DEF z
  <2>2. /\ z \in Seq(Planned) /\ Len(z) = Len(w) /\ \A i \in 1 .. n : z[i] = w[i]
        /\ \A i \in 1 .. Len(v) : z[n + i] = w[n + i]
    BY <1>1, <1>7, <1>8, <2>1 DEF z
  <2>3. ASSUME NEW i \in 1 .. Len(w) PROVE z[i] = w[i]
    <3>1. CASE i <= n
      BY <1>1, <2>2, <3>1
    <3>2. CASE i > n
      <4>1. i - n \in 1 .. Len(v) /\ n + (i - n) = i
        BY <1>1, <1>8, <3>2
      <4> QED
        BY <2>2, <4>1
    <3> QED
      BY <1>1, <3>1, <3>2
  <2>4. z = w
    BY <2>2, <2>3, SeqsEqual
  <2> QED
    BY <2>4 DEF z
<1>10. Ascending(v)
  <2> SUFFICES ASSUME NEW i \in 1 .. Len(v), NEW j \in 1 .. Len(v), i < j PROVE v[i].seq < v[j].seq
    BY DEF Ascending
  <2>1. n + i \in 1 .. Len(w) /\ n + j \in 1 .. Len(w) /\ n + i < n + j
    BY <1>1, <1>8
  <2> QED
    BY <1>3, <1>8, <2>1
<1>11. ASSUME NEW x \in ToSet(v) PROVE x \in P
  <2>1. PICK j \in 1 .. Len(v) : v[j] = x
    BY <1>8, ElementsOf
  <2>2. n + j \in 1 .. Len(w) /\ w[n + j] = x
    BY <1>8, <2>1
  <2>3. x \in ToSet(w)
    BY <1>2, <2>2
  <2>4. x \notin ToSet(u)
    <3>1. SUFFICES ASSUME NEW l \in 1 .. n, u[l] = x PROVE FALSE
      BY <1>2
    <3>2. l \in 1 .. Len(w) /\ l < n + j /\ w[l] = x
      BY <1>1, <1>7, <1>8, <2>1, <3>1
    <3>3. w[l].seq < w[n + j].seq
      BY <1>3, <2>2, <3>2
    <3> QED
      BY <1>1, <2>2, <3>2, <3>3
  <2> QED
    BY <1>0, <2>3, <2>4
<1>12. ASSUME NEW x \in P PROVE x \in ToSet(v)
  <2>1. PICK m \in 1 .. Len(w) : w[m] = x
    BY <1>0, <1>2
  <2>2. CASE m <= n
    <3>1. x \in ToSet(u)
      BY <1>1, <1>2, <1>7, <2>1, <2>2
    <3>2. x.seq < x.seq /\ x.seq \in Nat
      BY <1>0, <1>1, <2>1, <3>1
    <3> QED
      BY <3>2
  <2>3. CASE m > n
    <3>1. m - n \in 1 .. Len(v) /\ n + (m - n) = m
      BY <1>1, <1>8, <2>3
    <3>2. v[m - n] = x
      BY <1>8, <2>1, <3>1
    <3> QED
      BY <1>8, <3>1, <3>2, ElementsOf
  <2> QED
    BY <1>1, <2>2, <2>3
<1>13. ToSet(v) = P
  BY <1>11, <1>12
<1> QED
  BY <1>8, <1>9, <1>10, <1>13 DEF Behind

\* What a shard folds of a target is what the step holds of it.
LEMMA ShardNotes ==
  ASSUME NEW step \in Seq(Planned), NEW n, NEW t \in Targets, NEW l \in Seq(Event)
  PROVE  NoteAll(l, ShardEvents(step, n), t) = IF ShardOf[t] = n THEN NoteAll(l, step, t) ELSE l
<1>1. /\ ShardEvents(step, n) \in Seq(Planned)
      /\ ToSet(ShardEvents(step, n)) = {x \in ToSet(step) : ShardOf[x.ev.on] = n}
  BY EventsOfShard
<1>2. CASE ShardOf[t] # n
  <2>1. \A x \in ToSet(ShardEvents(step, n)) : x.ev.on # t
    BY <1>1, <1>2
  <2> QED
    BY <1>1, <1>2, <2>1, NoteOfOthers
<1>3. CASE ShardOf[t] = n
  <2> DEFINE keys == TargetKeys
             all  == NoteAll(l, step, t)
  <2>1. keys \in Seq(Targets) /\ \A i, j \in 1 .. Len(keys) : keys[i] = keys[j] => i = j
    BY BulkAssumption
  <2>2. PICK k \in 1 .. Len(keys) : keys[k] = t
    <3>1. t \in ToSet(keys)
      BY DEF Targets
    <3> QED
      BY <2>1, <3>1, ElementsOf
  <2>3. keys = TargetKeys
    OBVIOUS
  <2> HIDE DEF keys
  <2>4. PICK a \in [0 .. Len(keys) -> Seq(Planned)] : Gathering(a, step, n, keys)
    BY <2>1, <2>3, GatheringRuns
  <2>5. /\ a[0] = << >> /\ a[Len(keys)] = ShardEvents(step, n)
        /\ \A i \in 1 .. Len(keys) :
             a[i] = IF ShardOf[keys[i]] = n THEN a[i - 1] \o OfTarget(step, keys[i]) ELSE a[i - 1]
    BY <2>4 DEF Gathering
  <2> DEFINE A == {i \in 0 .. Len(keys) : NoteAll(l, a[i], t) = IF k <= i THEN all ELSE l}
  <2>6. Len(keys) \in Nat /\ k \in Nat
    BY <2>1
  <2>7. 0 \in A
    BY <2>2, <2>5, <2>6, NoteNone
  <2>8. ASSUME NEW i \in 0 .. Len(keys) - 1, i \in A PROVE i + 1 \in A
    <3>1. i + 1 \in 1 .. Len(keys) /\ (i + 1) - 1 = i /\ i \in 0 .. Len(keys) /\ i + 1 \in 0 .. Len(keys) /\ i \in Nat
      BY <2>6
    <3> DEFINE p == a[i]
               c == keys[i + 1]
               g == OfTarget(step, c)
    <3>2. p \in Seq(Planned) /\ c \in Targets /\ a[i + 1] = IF ShardOf[c] = n THEN p \o g ELSE p
      <4>1. a[i] \in Seq(Planned) /\ keys[i + 1] \in Targets
        <5>1. \A j \in 1 .. Len(keys) : keys[j] \in Targets
          BY <2>1
        <5> QED
          BY <2>4, <3>1, <5>1
      <4>2. a[i + 1] = IF ShardOf[keys[i + 1]] = n THEN a[(i + 1) - 1] \o OfTarget(step, keys[i + 1]) ELSE a[(i + 1) - 1]
        BY <2>5, <3>1
      <4> QED
        BY <3>1, <4>1, <4>2
    <3>3. NoteAll(l, p, t) = IF k <= i THEN all ELSE l
      BY <2>8
    <3>4. c = t <=> k = i + 1
      BY <2>1, <2>2, <3>1
    <3> HIDE DEF p, c
    <3>5. /\ g \in Seq(Planned) /\ ToSet(g) = {x \in ToSet(step) : x.ev.on = c}
      BY <3>2, GroupOfTarget
    <3>6. CASE c = t
      <4>1. NoteAll(l, p, t) = l
        BY <2>6, <3>1, <3>3, <3>4, <3>6
      <4>2. NoteAll(l, p \o g, t) = NoteAll(NoteAll(l, p, t), g, t)
        BY <3>2, <3>5, NoteJoined
      <4>3. NoteAll(l, OfTarget(step, t), t) = all
        BY NoteOfTarget
      <4>4. NoteAll(l, a[i + 1], t) = all
        BY <1>3, <3>2, <3>6, <4>1, <4>2, <4>3
      <4> QED
        BY <2>6, <3>1, <3>4, <3>6, <4>4
    <3>7. CASE c # t
      <4>1. NoteAll(l, a[i + 1], t) = NoteAll(l, p, t)
        <5>1. NoteAll(l, p \o g, t) = NoteAll(NoteAll(l, p, t), g, t)
          BY <3>2, <3>5, NoteJoined
        <5>2. NoteAll(l, p, t) \in Seq(Event)
          <6>1. PICK b \in [0 .. Len(p) -> Seq(Event)] : Noting(b, l, p, t)
            BY <3>2, NotingRuns
          <6>2. Len(p) \in 0 .. Len(p)
            BY <3>2
          <6>3. b[Len(p)] = NoteAll(l, p, t)
            BY <6>1 DEF Noting
          <6> QED
            BY <6>2, <6>3
        <5>3. \A x \in ToSet(g) : x.ev.on # t
          BY <3>5, <3>7
        <5> DEFINE z == NoteAll(l, p, t)
        <5> HIDE DEF z, g
        <5>4. NoteAll(z, g, t) = z
          BY <3>5, <5>2, <5>3, NoteOfOthers DEF z
        <5> QED
          BY <3>2, <5>1, <5>4 DEF z
      <4>2. k <= i <=> k <= i + 1
        BY <2>6, <3>1, <3>4, <3>7
      <4> QED
        BY <3>1, <3>3, <4>1, <4>2
    <3> QED
      BY <3>6, <3>7
  <2> HIDE DEF A
  <2>9. Len(keys) \in A
    BY <2>6, <2>7, <2>8, AtTheEnd, Zenon
  <2> QED
    BY <1>3, <2>2, <2>5, <2>6, <2>9 DEF A
<1> QED
  BY <1>2, <1>3

\* A shard notes its events.
LEMMA ShardLedger ==
  ASSUME NEW snap \in Store, Recorded(snap), NEW evs \in Seq(Planned),
         \A x \in ToSet(evs) : x.ev \in Usable, NEW t
  PROVE  Ledger(ShardRun(snap, evs).s.log, t) = NoteAll(Ledger(snap.log, t), evs, t)
<1>1. PICK a \in [0 .. Len(evs) -> Shardings(snap, evs)] : Folding(a, snap, evs)
  BY ShardRuns
<1>2. /\ a[0] = [ok |-> TRUE, s |-> snap] /\ a[Len(evs)] = ShardRun(snap, evs)
      /\ \A i \in 1 .. Len(evs) : a[i] = InShard(a[i - 1], evs[i])
  BY <1>1 DEF Folding
<1>3. Len(evs) \in Nat /\ \A i \in 1 .. Len(evs) : evs[i] \in Planned /\ evs[i] \in ToSet(evs)
  BY ElementsOf
<1>4. \A r \in Shardings(snap, evs) : r.s \in Store /\ Recorded(r.s)
  BY DEF Shardings
<1> DEFINE b == [i \in 0 .. Len(evs) |-> Ledger(a[i].s.log, t)]
           l == Ledger(snap.log, t)
<1>5. l \in Seq(Event)
  BY LedgerOfLog DEF Store
<1>6. b[0] = l /\ b[Len(evs)] = Ledger(ShardRun(snap, evs).s.log, t)
  BY <1>2, <1>3
<1>7. ASSUME NEW i \in 1 .. Len(evs) PROVE b[i] = Noted(b[i - 1], evs[i], t)
  <2>1. i - 1 \in 0 .. Len(evs) /\ i \in 0 .. Len(evs)
    BY <1>3
  <2> DEFINE p == a[i - 1]
             u == p.s
             x == evs[i]
  <2>2. p \in Shardings(snap, evs) /\ x \in Planned /\ x.ev \in Usable
    BY <1>1, <1>3, <2>1
  <2>3. a[i] = InShard(p, x)
    BY <1>2
  <2> HIDE DEF p, x
  <2>4. u \in Store /\ Recorded(u)
    BY <1>4, <2>2
  <2>5. a[i].s = processEventCoreWithSeq(u, x)
    BY <2>3 DEF InShard
  <2> HIDE DEF u
  <2>6. Ledger(processEventCoreWithSeq(u, x).log, t) = Noted(Ledger(u.log, t), x, t)
    BY <2>2, <2>4, CoreLedger
  <2>7. b[i] = Ledger(a[i].s.log, t) /\ b[i - 1] = Ledger(u.log, t)
    BY <2>1 DEF u, p
  <2> QED
    BY <2>5, <2>6, <2>7 DEF x
<1> HIDE DEF b, l
<1>8. b[Len(evs)] = NoteAll(l, evs, t)
  <2>1. Along(b, l, evs, t)
    BY <1>6, <1>7 DEF Along
  <2>2. Ends(b, l, evs, t)
    BY <1>5, <2>1, NotingEnds
  <2> QED
    BY <2>2 DEF Ends
<1> QED
  BY <1>6, <1>8 DEF l

\* Merging a shard notes the step of the shard's targets.
LEMMA MergingLedger ==
  ASSUME NEW step, Shipped(step), NEW i, NEW acc \in Store, NEW t \in Targets,
         ShardOf[t] = i => Ledger(acc.log, t) = Ledger(imp.snap.log, t)
  PROVE  Ledger(Merging(acc, i).log, t) =
           IF ShardOf[t] = i THEN NoteAll(Ledger(imp.snap.log, t), step, t) ELSE Ledger(acc.log, t)
<1> DEFINE evs  == ShardEvents(step, i)
           snap == imp.snap
           done == Result(i).s
<1>1. /\ snap \in Store /\ Recorded(snap) /\ step \in Seq(Planned) /\ step = Head(imp.steps)
      /\ \A x \in ToSet(step) : x.ev \in Usable
  BY DEF Shipped
<1>2. /\ evs \in Seq(Planned) /\ ToSet(evs) = {x \in ToSet(step) : ShardOf[x.ev.on] = i}
      /\ done = ShardRun(snap, evs).s /\ Merging(acc, i) = Merge(acc, snap, evs, done)
  BY <1>1, EventsOfShard DEF Result, Merging
<1>3. Result(i) \in Shardings(snap, evs)
  BY ResultOfShard
<1> HIDE DEF evs, snap
<1>4. PICK d \in Seq(Planned) : done.log = snap.log \o d /\ ToSet(d) \subseteq ToSet(evs)
  BY <1>3 DEF Shardings
<1>5. done \in Store
  BY <1>3 DEF Shardings
<1> HIDE DEF done
<1>6. Merging(acc, i).log = acc.log \o d
  <2>1. MergeOf(Merging(acc, i), acc, snap, evs, done, d)
    BY <1>1, <1>2, <1>4, <1>5, MergeCells
  <2> QED
    BY <2>1 DEF MergeOf
<1>7. acc.log \in Seq(Planned) /\ snap.log \in Seq(Planned)
  BY <1>1 DEF Store
<1> DEFINE l == Ledger(acc.log, t)
           m == Ledger(snap.log, t)
<1>8. l \in Seq(Event) /\ m \in Seq(Event)
  BY <1>7, LedgerOfLog
<1>9. Ledger(acc.log \o d, t) = NoteAll(l, d, t) /\ Ledger(snap.log \o d, t) = NoteAll(m, d, t)
  BY <1>7, LedgerOfLog
<1>10. CASE ShardOf[t] # i
  <2>1. \A x \in ToSet(d) : x.ev.on # t
    BY <1>2, <1>4, <1>10
  <2> HIDE DEF l
  <2>2. NoteAll(l, d, t) = l
    BY <1>8, <2>1, NoteOfOthers
  <2> QED
    BY <1>6, <1>9, <1>10, <2>2 DEF l
<1>11. CASE ShardOf[t] = i
  <2>1. l = m
    BY <1>11 DEF snap
  <2>2. \A x \in ToSet(evs) : x.ev \in Usable
    BY <1>1, <1>2
  <2>3. Ledger(done.log, t) = NoteAll(m, evs, t)
    BY <1>1, <1>2, <2>2, ShardLedger
  <2> HIDE DEF l, m
  <2>4. NoteAll(m, evs, t) = NoteAll(m, step, t)
    BY <1>1, <1>8, <1>11, ShardNotes DEF evs
  <2> QED
    BY <1>4, <1>6, <1>9, <1>11, <2>1, <2>3, <2>4 DEF m, snap
<1> QED
  BY <1>10, <1>11

\* A merged step has noted the step, target by target.
LEMMA StepLedger ==
  ASSUME NEW step, Shipped(step), imp.snap = store, NEW dests, NEW t \in Targets
  PROVE  Ledger(Reconciled(FoldLeft(Merging, store, Shards), dests).log, t) =
           NoteAll(Ledger(store.log, t), step, t)
<1> DEFINE shards == Shards
           old == Ledger(store.log, t)
           new == NoteAll(old, step, t)
<1>1. /\ NumShards \in Nat /\ ShardOf[t] \in 0 .. NumShards - 1
  BY BulkAssumption
<1>2. shards \in Seq(Nat) /\ Len(shards) = NumShards /\ \A i \in 1 .. NumShards : shards[i] = i - 1
  BY <1>1 DEF Shards
<1>3. shards = Shards
  OBVIOUS
<1> HIDE DEF shards
<1>4. PICK a \in [0 .. Len(shards) -> Merged(store, step)] : Collecting(a, shards)
  BY <1>2, <1>3, MergeRuns
<1>5. /\ a[0] = store /\ a[NumShards] = FoldLeft(Merging, store, Shards)
      /\ \A i \in 1 .. NumShards : a[i] = Merging(a[i - 1], i - 1) /\ a[i - 1] \in Store
  <2>1. \A i \in 1 .. NumShards : i - 1 \in 0 .. NumShards
    BY <1>1
  <2>2. \A i \in 0 .. NumShards : a[i] \in Store
    BY <1>2, <1>4 DEF Merged
  <2> QED
    BY <1>2, <1>3, <1>4, <2>1, <2>2 DEF Collecting
<1> DEFINE A == {i \in 0 .. NumShards : Ledger(a[i].log, t) = IF ShardOf[t] < i THEN new ELSE old}
<1>6. 0 \in A
  BY <1>1, <1>5
<1>7. ASSUME NEW i \in 0 .. NumShards - 1, i \in A PROVE i + 1 \in A
  <2>1. i + 1 \in 1 .. NumShards /\ (i + 1) - 1 = i /\ i + 1 \in 0 .. NumShards
    BY <1>1
  <2> DEFINE p == a[i]
  <2>2. a[i + 1] = Merging(p, i) /\ p \in Store
    <3>1. a[i + 1] = Merging(a[(i + 1) - 1], (i + 1) - 1) /\ a[(i + 1) - 1] \in Store
      BY <1>5, <2>1
    <3> QED
      BY <2>1, <3>1
  <2>3. Ledger(p.log, t) = IF ShardOf[t] < i THEN new ELSE old
    BY <1>7
  <2>4. ShardOf[t] = i => Ledger(p.log, t) = Ledger(imp.snap.log, t)
    BY <1>1, <2>3
  <2> HIDE DEF p
  <2>5. Ledger(Merging(p, i).log, t) =
          IF ShardOf[t] = i THEN NoteAll(Ledger(imp.snap.log, t), step, t) ELSE Ledger(p.log, t)
    BY <2>2, <2>4, MergingLedger
  <2>6. Ledger(Merging(p, i).log, t) = IF ShardOf[t] < i + 1 THEN new ELSE old
    BY <1>1, <2>3, <2>5
  <2> QED
    BY <2>1, <2>2, <2>6
<1> HIDE DEF A
<1>8. NumShards \in A
  BY <1>1, <1>6, <1>7, AtTheEnd, Zenon
<1>9. Ledger(a[NumShards].log, t) = new
  BY <1>1, <1>8 DEF A
<1> DEFINE M == FoldLeft(Merging, store, Shards)
<1>10. M \in Store
  <2>1. a[NumShards] \in Store
    BY <1>1, <1>2, <1>4 DEF Merged
  <2> QED
    BY <1>5, <2>1
<1>11. Ledger(M.log, t) = new
  BY <1>5, <1>9
<1> HIDE DEF M, new
<1>12. Reconciled(M, dests).log = M.log
  BY <1>10, ReconciledEffect
<1> QED
  BY <1>11, <1>12 DEF M, new

-----------------------------------------------------------------------------
(* The invariant: the import's ledgers run beside those of the serial fold. *)

\* What a group has still to log.
Unsaid(g) == IF Mid(g) THEN Tail(g.todo) ELSE g.todo

\* The ledger of a target once its group is through.
Owed(s, h, n, t) == NoteAll(Ledger(s.log, t), Unsaid(h[<<n, t>>]), t)

\* The steps to come bring a ledger to that of the serial fold.
Meeting(q, l, steps, t) ==
  \E w \in Seq(Planned) :
    /\ Ascending(w) /\ ToSet(w) = {x \in Rest(steps) : x.ev.on = t}
    /\ Ledger(q.log, t) = NoteAll(l, w, t)

\* A running import is, target by target, on its way to the store that the serial fold has after the
\* waves that were started.
Lockstep(s, i, h) ==
  \E a \in [0 .. 6 -> Serials] :
    /\ Serially(a, i.from, i.batch)
    /\ \A t \in Targets : Meeting(a[6 - Len(i.waves)], Owed(s, h, i.n, t), i.steps, t)

\* An import is in lockstep while it runs, and shows what the serial fold shows once it is done.
Parallel(s, i, h) ==
  /\ Served(s)
  /\ Underway(i) => Lockstep(s, i, h)
  /\ i.pc = "done" => Projection(s) = Projection(SerialFold(i.from, i.batch))

SerialInv == ~mixed => Parallel(store, imp, task)

\* A step of a group that leaves the ledgers to come.
LEMMA GroupSays ==
  ASSUME BulkInv, Rebuilding(store, imp, task), Parallel(store, imp, task),
         NEW k \in Groups, task[k].todo # << >>, NEW q \in Task, NEW r, Served(r),
         \A t \in Targets : t # k[2] => Ledger(r.log, t) = Ledger(store.log, t),
         NoteAll(Ledger(r.log, k[2]), Unsaid(q), k[2])
           = NoteAll(Ledger(store.log, k[2]), Unsaid(task[k]), k[2])
  PROVE  Parallel(r, imp, [task EXCEPT ![k] = q])
<1> DEFINE h == [task EXCEPT ![k] = q]
<1>1. task \in [Groups -> Task]
  BY InvFacts
<1>2. imp.pc = "run" /\ k[1] = imp.n
  BY AtWork, Zenon
<1>3. k[2] \in Targets /\ k = <<k[1], k[2]>>
  BY DEF Groups
<1>4. h[k] = q /\ \A j \in Groups : j # k => h[j] = task[j]
  BY <1>1
<1>5. ASSUME NEW t \in Targets PROVE Owed(r, h, imp.n, t) = Owed(store, task, imp.n, t)
  <2>1. CASE t = k[2]
    <3>1. <<imp.n, t>> = k
      BY <1>2, <1>3, <2>1
    <3> HIDE DEF h
    <3> QED
      BY <1>4, <2>1, <3>1 DEF Owed
  <2>2. CASE t # k[2]
    <3>1. <<imp.n, t>> # k /\ <<imp.n, t>> \in Groups
      BY <1>2, <1>3, <2>2 DEF Groups
    <3> HIDE DEF h
    <3> QED
      BY <1>4, <2>2, <3>1 DEF Owed
  <2> QED
    BY <2>1, <2>2
<1> HIDE DEF h
<1>6. Lockstep(store, imp, task)
  BY <1>2 DEF Parallel, Underway
<1>7. Lockstep(r, imp, h)
  BY <1>5, <1>6 DEF Lockstep
<1> QED
  BY <1>2, <1>7 DEF Parallel, h

\* What a group does to rows alone.
LEMMA GroupSaysNothing ==
  ASSUME BulkInv, Rebuilding(store, imp, task), Parallel(store, imp, task),
         NEW k \in Groups, task[k].todo # << >>, NEW q \in Task, NEW r, r.log = store.log,
         Unsaid(q) = Unsaid(task[k])
  PROVE  Parallel(r, imp, [task EXCEPT ![k] = q])
<1>1. Served(r)
  BY DEF Parallel, Served, Brought
<1> QED
  BY <1>1, GroupSays

\* The event behind the one at hand, and the operation behind it.
LEMMA NextSaid ==
  ASSUME BulkInv, NEW k \in Groups, task[k].todo # << >>
  PROVE  /\ NextEvent(k) \in Task /\ Unsaid(NextEvent(k)) = Tail(task[k].todo)
         /\ task[k].ops # << >> => NextRow(k) \in Task /\ Unsaid(NextRow(k)) = Tail(task[k].todo)
<1>1. task[k] \in Task
  BY InvFacts
<1> DEFINE g    == task[k]
           rest == Tail(g.todo)
           ops  == Tail(g.ops)
<1>2. g \in Task /\ NoTask \in Task /\ NoTask.pc = "check" /\ NoRow \in Row
  BY <1>1, NoRowType DEF NoTask
<1> HIDE DEF g
<1>3. g.todo # << >> /\ rest \in Seq(Planned) /\ (g.ops # << >> => ops \in Seq(RowOp))
  BY <1>2 DEF Task, RowOp, g
<1> HIDE DEF rest, ops
<1> DEFINE p == [NoTask EXCEPT !.todo = rest]
           q == [g EXCEPT !.pc = "read", !.ops = ops, !.copy = NoRow]
<1>4. p \in Task /\ p.todo = rest /\ p.pc = "check"
  BY <1>2, <1>3 DEF Task
<1>5. g.ops # << >> => q \in Task /\ q.todo = g.todo /\ q.pc = "read"
  BY <1>2, <1>3 DEF Task, RowOp
<1>6. NextEvent(k) = p
  BY DEF NextEvent, g, rest
<1>7. NextRow(k) = q
  BY DEF NextRow, g, ops
<1> HIDE DEF p, q
<1> QED
  BY <1>3, <1>4, <1>5, <1>6, <1>7 DEF Unsaid, Mid, rest, g

\* Group steps that log nothing.
LEMMA QuietStepSays ==
  ASSUME BulkInv, Rebuilding(store, imp, task), Parallel(store, imp, task), NEW k \in Groups,
         CheckEvent(k) \/ ReadRow(k) \/ WriteRow(k) \/ DeclareTarget(k) \/ EndEvent(k)
  PROVE  Parallel(store', imp', task')
<1>1. /\ store \in Store /\ task[k] \in Task /\ task \in [Groups -> Task]
  BY InvFacts
<1>2. task[k].todo # << >> /\ imp' = imp
  BY DEF CheckEvent, ReadRow, WriteRow, DeclareTarget, EndEvent, Working, GroupOnly
<1>3. store'.log = store.log
  BY <1>1 DEF CheckEvent, ReadRow, WriteRow, DeclareTarget, EndEvent, Declared, Store
<1>4. \E q \in Task : Unsaid(q) = Unsaid(task[k]) /\ task' = [task EXCEPT ![k] = q]
  <2>1. CASE CheckEvent(k)
    <3> DEFINE g == task[k]
               q == [g EXCEPT !.pc = "log"]
    <3>1. task' = [task EXCEPT ![k] = q] /\ g.pc = "check"
      BY <1>1, <2>1 DEF CheckEvent, Working
    <3>2. q \in Task /\ q.todo = g.todo /\ q.pc = "log"
      BY <1>1 DEF Task
    <3> HIDE DEF q
    <3>3. Unsaid(q) = Unsaid(task[k])
      BY <3>1, <3>2 DEF Unsaid, Mid
    <3> QED
      BY <3>1, <3>2, <3>3
  <2>2. CASE EndEvent(k)
    <3>1. task' = [task EXCEPT ![k] = NextEvent(k)] /\ task[k].pc = "read"
      BY <2>2 DEF EndEvent, Working
    <3>2. Unsaid(task[k]) = Tail(task[k].todo)
      BY <1>2, <3>1 DEF Unsaid, Mid
    <3> QED
      BY <1>2, <3>1, <3>2, NextSaid
  <2>3. CASE WriteRow(k) \/ DeclareTarget(k)
    <3>1. task' = [task EXCEPT ![k] = NextRow(k)] /\ task[k].pc \in {"read", "write"} /\ task[k].ops # << >>
      BY <1>2, <2>3 DEF WriteRow, DeclareTarget, Working, Rebuilding, MidFine
    <3>2. Unsaid(task[k]) = Tail(task[k].todo)
      BY <1>2, <3>1 DEF Unsaid, Mid
    <3> QED
      BY <1>2, <3>1, <3>2, NextSaid
  <2>4. CASE ReadRow(k)
    <3> DEFINE g   == task[k]
               o   == Head(g.ops)
               row == store.rows[o.row]
               q   == [g EXCEPT !.pc = "write", !.copy = row]
    <3>1. /\ g.pc = "read" /\ g.ops # << >>
          /\ task' = [task EXCEPT ![k] = IF ~Skips(o, Doing(k), row) THEN q
                                         ELSE IF o.do = "apply" THEN NextEvent(k) ELSE NextRow(k)]
      BY <1>1, <2>4 DEF ReadRow, Working
    <3>2. row \in Row
      BY <1>2, <3>1, AtRowOp
    <3> HIDE DEF row
    <3>3. q \in Task /\ q.todo = g.todo /\ q.pc = "write"
      BY <1>1, <3>2 DEF Task
    <3>4. Unsaid(task[k]) = Tail(task[k].todo)
      BY <1>2, <3>1 DEF Unsaid, Mid
    <3> HIDE DEF q
    <3>5. Unsaid(q) = Tail(task[k].todo)
      BY <1>2, <3>3 DEF Unsaid, Mid
    <3> QED
      BY <1>2, <3>1, <3>3, <3>4, <3>5, NextSaid
  <2> QED
    BY <2>1, <2>2, <2>3, <2>4
<1> QED
  BY <1>2, <1>3, <1>4, GroupSaysNothing

\* An event whose id is known is in the ledger of its target.
LEMMA SkipKnownSays ==
  ASSUME BulkInv, Rebuilding(store, imp, task), Parallel(store, imp, task), NEW k \in Groups, SkipKnown(k)
  PROVE  Parallel(store', imp', task')
<1> DEFINE g    == task[k]
           t    == k[2]
           x    == Head(g.todo)
           rest == Tail(g.todo)
           l    == Ledger(store.log, t)
<1>1. /\ store \in Store /\ Sound(store) /\ g \in Task /\ task \in [Groups -> Task] /\ store.log \in Seq(Planned)
  BY InvFacts DEF Store
<1>2. /\ g.pc = "check" /\ g.todo # << >> /\ Known(store, x.ev) /\ store' = store /\ imp' = imp
      /\ task' = [task EXCEPT ![k] = NextEvent(k)]
  BY DEF SkipKnown, Working, GroupOnly, Doing
<1>3. x \in Planned /\ x.ev \in Usable /\ x.ev.on = t
  BY <1>2, AtWork, Zenon DEF Now
<1>4. Unsaid(g) = g.todo /\ g.todo \in Seq(Planned)
  BY <1>1, <1>2 DEF Unsaid, Mid, Task
<1>5. l \in Seq(Event) /\ \A e : e \in ToSet(l) <=> Says(store.log, e) /\ e.on = t
  BY <1>1, LedgerOfLog
<1> HIDE DEF l
<1>6. Noted(l, x, t) = l
  <2>1. Says(store.log, x.ev)
    BY <1>1, <1>2, <1>3, KnownIsLogged DEF Says
  <2>2. x.ev \in ToSet(l) /\ x.ev.id # 0
    BY <1>2, <1>3, <1>5, <2>1 DEF Known
  <2> QED
    BY <2>2 DEF Noted
<1>7. NoteAll(l, g.todo, t) = NoteAll(Noted(l, x, t), rest, t)
  BY <1>2, <1>3, <1>4, <1>5, NoteEnds
<1>8. NoteAll(l, Unsaid(NextEvent(k)), t) = NoteAll(l, Unsaid(g), t)
  BY <1>2, <1>4, <1>6, <1>7, NextSaid
<1>9. Served(store) /\ NextEvent(k) \in Task
  BY <1>2, NextSaid DEF Parallel
<1>10. Parallel(store, imp, [task EXCEPT ![k] = NextEvent(k)])
  BY <1>2, <1>8, <1>9, GroupSays DEF l
<1> QED
  BY <1>2, <1>10

\* An event that is logged is noted.
LEMMA LogEventSays ==
  ASSUME BulkInv, Rebuilding(store, imp, task), Parallel(store, imp, task), NEW k \in Groups, LogEvent(k)
  PROVE  Parallel(store', imp', task')
<1> DEFINE g    == task[k]
           t    == k[2]
           x    == Head(g.todo)
           rest == Tail(g.todo)
           l    == Ledger(store.log, t)
           r    == WithEdges(Logged(store, x), x.ev)
           ops  == RowOps(x.ev)
           q    == [g EXCEPT !.pc = "read", !.ops = ops]
<1>1. /\ store \in Store /\ Sound(store) /\ g \in Task /\ task \in [Groups -> Task] /\ store.log \in Seq(Planned)
  BY InvFacts DEF Store
<1>2. /\ g.pc = "log" /\ g.todo # << >> /\ store' = r /\ imp' = imp /\ task' = [task EXCEPT ![k] = q]
  BY <1>1 DEF LogEvent, Working, GroupOnly, Doing
<1>3. /\ x \in Planned /\ x.ev \in Usable /\ x.ev \in Event /\ x.ev.on = t
      /\ \A d \in x.ev.to \ {x.ev.on} : HasINS(ToSet(store.log), d)
  BY <1>2, AtWork, Zenon DEF Now
<1>4. Unsaid(g) = g.todo /\ g.todo \in Seq(Planned)
  BY <1>1, <1>2 DEF Unsaid, Mid, Task
<1>5. q \in Task /\ q.todo = g.todo /\ q.pc = "read"
  <2>1. ops \in Seq(RowOp)
    BY <1>3, RowOpsType
  <2> HIDE DEF ops
  <2> QED
    BY <1>1, <2>1 DEF Task, RowOp
<1> HIDE DEF q
<1>6. Unsaid(q) = rest
  BY <1>2, <1>5 DEF Unsaid, Mid
<1>7. r.log = Append(store.log, x) /\ ToSet(r.log) = ToSet(store.log) \union {x}
  <2>1. r = LoggedEdges(store, x)
    BY DEF LoggedEdges
  <2>2. LoggedEdges(store, x).log = Append(store.log, x)
    BY <1>1, <1>3, LoggedEdgesEffect
  <2> HIDE DEF r, x
  <2>3. ToSet(Append(store.log, x)) = ToSet(store.log) \union {x}
    BY <1>1, <1>3, Appended
  <2> QED
    BY <2>1, <2>2, <2>3
<1> HIDE DEF r
<1>8. Served(r)
  <2>1. Brought(store, ToSet(store.log))
    BY DEF Parallel, Served
  <2> QED
    BY <1>3, <1>7, <2>1 DEF Served, Brought, HasINS
<1>9. \A c \in Targets : Ledger(r.log, c) = Noted(Ledger(store.log, c), x, c)
  BY <1>1, <1>3, <1>7, LedgerOfLog
<1>10. \A c \in Targets : c # t => Ledger(r.log, c) = Ledger(store.log, c)
  BY <1>3, <1>9 DEF Noted
<1>11. l \in Seq(Event)
  BY <1>1, LedgerOfLog
<1>12. t \in Targets /\ Ledger(r.log, t) = Noted(l, x, t)
  BY <1>9 DEF Groups
<1> HIDE DEF l
<1>13. NoteAll(l, g.todo, t) = NoteAll(Noted(l, x, t), rest, t)
  BY <1>2, <1>3, <1>4, <1>11, NoteEnds
<1>14. NoteAll(Ledger(r.log, t), Unsaid(q), t) = NoteAll(Ledger(store.log, t), Unsaid(g), t)
  BY <1>4, <1>6, <1>12, <1>13 DEF l
<1>15. Parallel(r, imp, [task EXCEPT ![k] = q])
  BY <1>2, <1>5, <1>8, <1>10, <1>14, GroupSays
<1> QED
  BY <1>2, <1>15

\* A group that is through owes nothing.
LEMMA IdleOwes ==
  ASSUME NEW s \in Store, NEW h, AllIdle(h), NEW n, NEW t, <<n, t>> \in Groups
  PROVE  Owed(s, h, n, t) = Ledger(s.log, t) /\ Ledger(s.log, t) \in Seq(Event)
<1>1. Unsaid(h[<<n, t>>]) = << >>
  BY DEF AllIdle, Unsaid, Mid
<1>2. Ledger(s.log, t) \in Seq(Event)
  BY LedgerOfLog DEF Store
<1> QED
  BY <1>1, <1>2, NoteNone DEF Owed

\* When the groups and the steps are through, the ledgers are those of the serial fold.
LEMMA AllSaid ==
  ASSUME NEW s \in Store, NEW h, AllIdle(h), NEW i, i.steps = << >>, NEW t, <<i.n, t>> \in Groups,
         NEW q, Meeting(q, Owed(s, h, i.n, t), i.steps, t)
  PROVE  Ledger(q.log, t) = Ledger(s.log, t)
<1> DEFINE l == Owed(s, h, i.n, t)
<1>1. l = Ledger(s.log, t) /\ l \in Seq(Event)
  BY IdleOwes
<1> HIDE DEF l
<1>2. PICK w \in Seq(Planned) : /\ ToSet(w) = {x \in Rest(i.steps) : x.ev.on = t}
                                /\ Ledger(q.log, t) = NoteAll(l, w, t)
  BY DEF Meeting, l
<1>3. w = << >>
  <2>1. Rest(i.steps) = {}
    BY NothingPending
  <2>2. ToSet(w) = {}
    BY <1>2, <2>1
  <2> QED
    BY <2>2, ElementsOf
<1>4. NoteAll(l, << >>, t) = l
  BY <1>1, NoteNone
<1> QED
  BY <1>1, <1>2, <1>3, <1>4

\* A step, noted as a whole, is a step towards the serial fold.
LEMMA MeetingStep ==
  ASSUME NEW q, NEW l \in Seq(Event), NEW st \in Seq(Seq(Planned)), st # << >>, StepsSorted(st),
         NEW t \in Targets, Meeting(q, l, st, t)
  PROVE  Meeting(q, NoteAll(l, Head(st), t), Tail(st), t)
<1> DEFINE step == Head(st)
           left == Tail(st)
           u    == OfTarget(step, t)
           P    == {x \in Rest(left) : x.ev.on = t}
<1>1. /\ step \in Seq(Planned) /\ Ascending(step) /\ Rest(st) = ToSet(step) \union Rest(left)
      /\ \A x \in ToSet(step), y \in Rest(left) : x.seq < y.seq
  BY StepsInOrder
<1>2. PICK w \in Seq(Planned) : /\ Ascending(w) /\ ToSet(w) = {x \in Rest(st) : x.ev.on = t}
                                /\ Ledger(q.log, t) = NoteAll(l, w, t)
  BY DEF Meeting
<1> HIDE DEF step, left
<1>3. u \in Seq(Planned) /\ ToSet(u) = {x \in ToSet(step) : x.ev.on = t} /\ Ascending(u)
  BY <1>1, GroupOfTarget
<1>4. NoteAll(l, u, t) = NoteAll(l, step, t)
  BY <1>1, NoteOfTarget
<1> HIDE DEF u
<1>5. ToSet(w) = ToSet(u) \union P /\ \A x \in ToSet(u), y \in P : x.seq < y.seq
  BY <1>1, <1>2, <1>3
<1> HIDE DEF P
<1>6. PICK v \in Seq(Planned) : Behind(w, u, P, v)
  <2>1. Begins(w, u, P)
    BY <1>2, <1>3, <1>5 DEF Begins
  <2> QED
    BY <1>3, <2>1, SplitAscending
<1>7. NoteAll(l, u \o v, t) = NoteAll(NoteAll(l, u, t), v, t)
  BY <1>3, NoteJoined
<1>8. Ledger(q.log, t) = NoteAll(NoteAll(l, step, t), v, t)
  BY <1>2, <1>4, <1>6, <1>7 DEF Behind
<1>9. ToSet(v) = {x \in Rest(left) : x.ev.on = t}
  BY <1>6 DEF P, Behind
<1>10. Meeting(q, NoteAll(l, step, t), left, t)
  BY <1>6, <1>8, <1>9 DEF Meeting, Behind
<1> QED
  BY <1>10 DEF step, left

\* A store whose log the folds have rebuilt is one the serial fold may start from.
LEMMA StoreIsSerial ==
  ASSUME BulkInv, Rebuilding(store, imp, task), Parallel(store, imp, task), AllIdle(task)
  PROVE  store \in Serials
<1>1. Rebuilt(store)
  BY IdleRebuilds
<1>2. store \in Store /\ Sound(store)
  BY InvFacts
<1> QED
  BY <1>1, <1>2 DEF Serials, Parallel

\* A dispatch comes between imports.
LEMMA DispatchSays ==
  ASSUME BulkInv, Rebuilding(store, imp, task), Parallel(store, imp, task), NEW e \in Locals, Dispatch(e)
  PROVE  Parallel(store', imp', task')
<1> DEFINE r   == processEvent(store, e)
           ts  == Missing(e, store.helix)
           evs == INSsOf(ts) \o <<e>>
<1>1. imp.pc = "idle" /\ store' = r /\ imp' = imp
  BY DEF Dispatch
<1>2. store \in Serials
  BY <1>1, NotRunningIsIdle, StoreIsSerial
<1>3. e \in Usable
  BY DEF Usable, Given
<1>4. VisitedAs(store, e, ts, evs, r)
  BY <1>2, <1>3, SerialVisit
<1>5. Served(r)
  BY <1>4 DEF VisitedAs, Serials
<1> QED
  BY <1>1, <1>5 DEF Parallel, Underway

\* A new import sets out from the store as it is.
LEMMA BeginSays ==
  ASSUME BulkInv, Rebuilding(store, imp, task), Parallel(store, imp, task),
         NEW b \in Imports, NEW mode \in Modes, Begin(b, mode)
  PROVE  Parallel(store', imp', task')
<1> DEFINE ws == sortByHelixLevel(b)
           i  == [n |-> imp.n + 1, pc |-> "run", mode |-> mode, waves |-> ws, steps |-> << >>,
                  insed |-> {}, batch |-> b, from |-> store, snap |-> EmptyStore]
<1>1. imp.pc = "idle" /\ imp.n < MaxImports /\ imp' = i /\ store' = store /\ task' = task
  BY DEF Begin
<1>2. AllIdle(task) /\ store \in Serials /\ store \in Store /\ imp.n \in Nat
  BY <1>1, NotRunningIsIdle, StoreIsSerial, InvFacts
<1>3. b \in Seq(Event) /\ ToSet(b) \subseteq Given
  BY BulkAssumption DEF Given
<1>4. Len(ws) = 6
  BY <1>3, WavesByLevel
<1>5. ws \in Seq(Seq(Usable))
  <2>1. ws \in Seq(Seq(Event)) /\ \A w \in ToSet(ws) : ToSet(w) \subseteq ToSet(b)
    BY <1>3, WavesArePure
  <2> HIDE DEF ws
  <2>2. ASSUME NEW j \in 1 .. Len(ws) PROVE ws[j] \in Seq(Usable)
    <3> DEFINE w == ws[j]
    <3>1. w \in Seq(Event) /\ w \in ToSet(ws)
      BY <2>1, ElementsOf
    <3> HIDE DEF w
    <3>2. ToSet(w) = {w[m] : m \in 1 .. Len(w)} /\ ToSet(w) \subseteq Given
      BY <1>3, <2>1, <3>1, ElementsOf
    <3>3. \A m \in 1 .. Len(w) : w[m] \in Usable
      BY <3>2 DEF Usable
    <3>4. w \in Seq(Usable)
      BY <3>1, <3>3
    <3> QED
      BY <3>4 DEF w
  <2> QED
    BY <2>1, <2>2
<1>6. i.pc = "run" /\ i.steps = << >> /\ i.batch = b /\ i.from = store /\ i.waves = ws /\ i.n = imp.n + 1
  OBVIOUS
<1>7. ws = sortByHelixLevel(b)
  OBVIOUS
<1> HIDE DEF i, ws
<1>8. PICK a \in [0 .. Len(ws) -> Serials] : Serially(a, store, b)
  BY <1>2, <1>5, <1>7, SerialFoldRuns
<1>9. a[6 - Len(i.waves)] = store
  <2>1. a[0] = store
    BY <1>8 DEF Serially
  <2>2. 6 - Len(i.waves) = 0
    BY <1>4, <1>6
  <2> QED
    BY <2>1, <2>2
<1>10. ASSUME NEW t \in Targets PROVE Meeting(store, Owed(store, task, i.n, t), i.steps, t)
  <2>1. <<i.n, t>> \in Groups
    BY <1>1, <1>2, <1>6, BulkAssumption DEF Groups
  <2>2. Owed(store, task, i.n, t) = Ledger(store.log, t) /\ Ledger(store.log, t) \in Seq(Event)
    BY <1>2, <2>1, IdleOwes
  <2> DEFINE w == << >>
             l == Ledger(store.log, t)
  <2>3. w \in Seq(Planned) /\ Ascending(w) /\ ToSet(w) = {}
    BY DEF Ascending, ToSet
  <2>4. {x \in Rest(i.steps) : x.ev.on = t} = {}
    BY <1>6, NothingPending
  <2> HIDE DEF l
  <2>5. NoteAll(l, w, t) = l
    BY <2>2, NoteNone DEF l
  <2> HIDE DEF w
  <2> QED
    BY <2>2, <2>3, <2>4, <2>5 DEF Meeting, l
<1>11. Lockstep(store, i, task)
  BY <1>4, <1>6, <1>8, <1>9, <1>10 DEF Lockstep
<1> QED
  BY <1>1, <1>6, <1>11 DEF Parallel

\* A step that is shipped has changed no ledger yet.
LEMMA ShipStepSays ==
  ASSUME BulkInv, Rebuilding(store, imp, task), Parallel(store, imp, task), ShipStep
  PROVE  Parallel(store', imp', task')
<1> DEFINE i == [imp EXCEPT !.pc = "shipped", !.snap = store]
<1>1. imp.pc = "run" /\ imp' = i /\ store' = store /\ task' = task /\ imp \in Import
  BY InvFacts DEF ShipStep
<1>2. /\ i.pc = "shipped" /\ i.steps = imp.steps /\ i.waves = imp.waves /\ i.n = imp.n
      /\ i.batch = imp.batch /\ i.from = imp.from
  BY <1>1 DEF Import
<1> HIDE DEF i
<1>3. Lockstep(store, i, task)
  BY <1>1, <1>2 DEF Parallel, Underway, Lockstep
<1> QED
  BY <1>1, <1>2, <1>3 DEF Parallel

\* Nothing is asked of an import that is over.
LEMMA LeaveSays ==
  ASSUME Parallel(store, imp, task), Leave \/ RejectStep
  PROVE  Parallel(store', imp', task')
BY DEF Leave, RejectStep, NoImport, Parallel, Underway

\* The groups of a step note it.
LEMMA StartStepSays ==
  ASSUME BulkInv, Rebuilding(store, imp, task), Parallel(store, imp, task), StartStep
  PROVE  Parallel(store', imp', task')
<1> DEFINE step == Head(imp.steps)
           left == Tail(imp.steps)
           h == [k \in DOMAIN task |->
                   IF k[1] = imp.n THEN [NoTask EXCEPT !.todo = OfTarget(step, k[2])] ELSE task[k]]
           i == [imp EXCEPT !.steps = left]
<1>1. /\ imp.pc = "run" /\ imp.steps # << >> /\ Quiet(imp.n)
      /\ imp' = i /\ task' = h /\ store' = store
  BY DEF StartStep
<1>2. /\ store \in Store /\ imp \in Import /\ task \in [Groups -> Task] /\ PlanFine(store, imp, task)
      /\ \A t \in Targets : <<imp.n, t>> \in Groups
  BY <1>1, InvFacts
<1>3. imp.steps \in Seq(Seq(Planned)) /\ StepsSorted(imp.steps)
  BY <1>2 DEF Import, PlanFine
<1>4. step \in Seq(Planned) /\ left \in Seq(Seq(Planned))
  BY <1>1, <1>3, StepsInOrder
<1>5. AllIdle(task)
  BY <1>1, QuietIsIdle
<1>6. \A t \in Targets : h[<<imp.n, t>>].pc = "check" /\ h[<<imp.n, t>>].todo = OfTarget(step, t)
  BY <1>2 DEF NoTask
<1>7. /\ i.pc = "run" /\ i.steps = left /\ i.waves = imp.waves /\ i.n = imp.n
      /\ i.batch = imp.batch /\ i.from = imp.from
  BY <1>1, <1>2 DEF Import
<1> HIDE DEF h, i, step, left
<1>8. PICK a \in [0 .. 6 -> Serials] :
        /\ Serially(a, imp.from, imp.batch)
        /\ \A t \in Targets : Meeting(a[6 - Len(imp.waves)], Owed(store, task, imp.n, t), imp.steps, t)
  BY <1>1 DEF Parallel, Underway, Lockstep
<1> DEFINE q == a[6 - Len(imp.waves)]
<1> HIDE DEF q
<1>9. ASSUME NEW t \in Targets PROVE Meeting(q, Owed(store, h, imp.n, t), left, t)
  <2> DEFINE l == Ledger(store.log, t)
  <2>1. Owed(store, task, imp.n, t) = l /\ l \in Seq(Event)
    BY <1>2, <1>5, IdleOwes
  <2> HIDE DEF l
  <2>2. Meeting(q, l, imp.steps, t)
    BY <1>8, <2>1 DEF q
  <2>3. Meeting(q, NoteAll(l, step, t), left, t)
    BY <1>1, <1>3, <2>1, <2>2, MeetingStep DEF step, left
  <2>4. NoteAll(l, OfTarget(step, t), t) = NoteAll(l, step, t)
    BY <1>4, <2>1, NoteOfTarget
  <2>5. Owed(store, h, imp.n, t) = NoteAll(l, OfTarget(step, t), t)
    BY <1>6 DEF Owed, Unsaid, Mid, l
  <2> QED
    BY <2>3, <2>4, <2>5
<1>10. Lockstep(store, i, h)
  BY <1>7, <1>8, <1>9 DEF Lockstep, q
<1> QED
  BY <1>1, <1>7, <1>10 DEF Parallel

\* The wave at hand is a wave of the batch.
LEMMA WaveAtHand ==
  ASSUME BulkInv, Rebuilding(store, imp, task), imp.pc = "run", imp.waves # << >>, Quiet(imp.n)
  PROVE  /\ Len(imp.waves) \in 1 .. 6 /\ imp.batch \in Seq(Event)
         /\ Head(imp.waves) = sortByHelixLevel(imp.batch)[7 - Len(imp.waves)]
         /\ Head(imp.waves) \in Seq(Usable) /\ Pure(Head(imp.waves))
<1> DEFINE ws   == imp.waves
           wave == Head(ws)
           b    == imp.batch
<1>1. imp \in Import /\ PhaseFine(store, imp, task)
  BY InvFacts
<1>2. ws \in Seq(Seq(Event)) /\ ws # << >>
  BY <1>1 DEF Import
<1>3. History(store, imp)
  BY QuietIsIdle, IdleRebuilds
<1>4. b \in Imports /\ WavesOf(imp) /\ b \in Seq(Event)
  BY <1>3, BulkAssumption DEF History, Underway
<1>5. Len(ws) <= 6 /\ \A j \in 1 .. Len(ws) : ws[j] = sortByHelixLevel(b)[6 - Len(ws) + j]
  BY <1>4, Zenon DEF WavesOf
<1>6. /\ wave \in ToSet(ws) /\ ToSet(wave) \subseteq Given /\ Pure(wave)
  BY <1>1, <1>2, HeadAndTail DEF PhaseFine
<1> HIDE DEF b, ws
<1>7. Len(ws) \in Nat /\ Len(ws) >= 1 /\ wave = ws[1] /\ wave \in Seq(Event)
  BY <1>2
<1>8. Len(ws) \in 1 .. 6 /\ 6 - Len(ws) + 1 = 7 - Len(ws) /\ 1 \in 1 .. Len(ws)
  <2>1. Len(ws) <= 6
    BY <1>5
  <2>2. Len(ws) \in Nat /\ Len(ws) >= 1
    BY <1>7
  <2>3. \A x \in Nat : x >= 1 /\ x <= 6 => x \in 1 .. 6 /\ 6 - x + 1 = 7 - x /\ 1 \in 1 .. x
    OBVIOUS
  <2> QED
    BY <2>1, <2>2, <2>3, Zenon
<1>9. wave = sortByHelixLevel(b)[7 - Len(ws)]
  <2>1. ws[1] = sortByHelixLevel(b)[6 - Len(ws) + 1]
    BY <1>5, <1>8
  <2> QED
    BY <1>7, <1>8, <2>1
<1> HIDE DEF wave
<1>10. wave \in Seq(Usable)
  <2>1. ToSet(wave) = {wave[j] : j \in 1 .. Len(wave)}
    BY <1>7, ElementsOf
  <2>2. \A j \in 1 .. Len(wave) : wave[j] \in Usable
    BY <1>6, <2>1 DEF Usable
  <2> QED
    BY <1>7, <2>2
<1> QED
  BY <1>4, <1>6, <1>8, <1>9, <1>10 DEF ws, b, wave

\* Stores with the same ledgers have declared the same targets.
LEMMA SameLedgersSameHelix ==
  ASSUME NEW s \in Serials, NEW q \in Serials, \A t \in Targets : Ledger(s.log, t) = Ledger(q.log, t)
  PROVE  s.helix = q.helix
<1>1. /\ s \in Store /\ Sound(s) /\ Rebuilt(s) /\ s.log \in Seq(Planned) /\ s.helix \in SUBSET Targets
      /\ q \in Store /\ Sound(q) /\ Rebuilt(q) /\ q.log \in Seq(Planned) /\ q.helix \in SUBSET Targets
  BY DEF Serials, Store
<1>2. ASSUME NEW t \in Targets PROVE t \in s.helix <=> t \in q.helix
  <2>1. /\ t \in s.helix <=> \E e : Says(s.log, e) /\ e.op = "INS" /\ e.on = t
        /\ t \in q.helix <=> \E e : Says(q.log, e) /\ e.op = "INS" /\ e.on = t
    BY <1>1, HelixIsLogged
  <2>2. /\ \A e : e \in ToSet(Ledger(s.log, t)) <=> Says(s.log, e) /\ e.on = t
        /\ \A e : e \in ToSet(Ledger(q.log, t)) <=> Says(q.log, e) /\ e.on = t
    BY <1>1, LedgerOfLog
  <2>3. \A e : e.on = t => (Says(s.log, e) <=> Says(q.log, e))
    BY <2>2
  <2> QED
    BY <2>1, <2>3, Zenon
<1> QED
  BY <1>1, <1>2

\* A wave is planned as the serial fold takes it.
LEMMA StartWaveSays ==
  ASSUME BulkInv, Rebuilding(store, imp, task), Parallel(store, imp, task), StartWave
  PROVE  Parallel(store', imp', task')
<1> DEFINE wave == Head(imp.waves)
           have == imp.insed \union store.helix
           left == Tail(imp.waves)
           w    == Expanded(wave, have)
           seq  == store.seq
           p    == Reserved(w.out, seq)
           n    == seq + Len(w.out)
           st   == splitWaveIntoSteps(p)
           i    == [imp EXCEPT !.waves = left, !.insed = w.insed, !.steps = st]
           r    == [store EXCEPT !.seq = n]
           m    == 6 - Len(imp.waves)
<1>1. /\ imp.pc = "run" /\ imp.waves # << >> /\ imp.steps = << >> /\ Quiet(imp.n)
      /\ imp' = i /\ store' = r /\ task' = task
  BY DEF StartWave
<1>2. /\ store \in Store /\ Sound(store) /\ imp \in Import /\ PlanFine(store, imp, task)
      /\ \A t \in Targets : <<imp.n, t>> \in Groups
  BY <1>1, InvFacts
<1>3. /\ imp.waves \in Seq(Seq(Event)) /\ imp.insed \in SUBSET Targets
      /\ store.helix \in SUBSET Targets /\ seq \in Nat /\ store.log \in Seq(Planned)
  BY <1>2 DEF Import, Store
<1>4. AllIdle(task) /\ store \in Serials
  BY <1>1, QuietIsIdle, StoreIsSerial
<1>5. /\ Len(imp.waves) \in 1 .. 6 /\ imp.batch \in Seq(Event) /\ wave = sortByHelixLevel(imp.batch)[7 - Len(imp.waves)]
      /\ wave \in Seq(Usable) /\ Pure(wave)
  BY <1>1, WaveAtHand, Zenon
<1>6. PICK a \in [0 .. 6 -> Serials] :
        /\ Serially(a, imp.from, imp.batch)
        /\ \A t \in Targets : Meeting(a[m], Owed(store, task, imp.n, t), imp.steps, t)
  BY <1>1 DEF Parallel, Underway, Lockstep
<1>7. /\ m \in 0 .. 6 /\ m + 1 \in 1 .. 6 /\ (m + 1) - 1 = m /\ 7 - Len(imp.waves) = m + 1
      /\ Len(left) = Len(imp.waves) - 1 /\ 6 - Len(left) = m + 1
  <2>1. Len(left) = Len(imp.waves) - 1
    BY <1>1, <1>3
  <2>2. \A x \in 1 .. 6 : /\ 6 - x \in 0 .. 6 /\ (6 - x) + 1 \in 1 .. 6 /\ ((6 - x) + 1) - 1 = 6 - x
                          /\ 7 - x = (6 - x) + 1 /\ 6 - (x - 1) = (6 - x) + 1
    OBVIOUS
  <2>3. Len(imp.waves) \in 1 .. 6
    BY <1>5
  <2> HIDE DEF left
  <2> QED
    BY <2>1, <2>2, <2>3, Zenon
<1> HIDE DEF wave, left, m
<1> DEFINE q == a[m]
           z == a[m + 1]
<1>8. q \in Serials /\ z = SerialWave(q, wave)
  <2>1. q \in Serials
    BY <1>6, <1>7
  <2>2. Len(sortByHelixLevel(imp.batch)) = 6
    BY <1>5, WavesByLevel
  <2>3. a[m + 1] = SerialWave(a[(m + 1) - 1], sortByHelixLevel(imp.batch)[m + 1])
    BY <1>6, <1>7, <2>2 DEF Serially
  <2> QED
    BY <1>5, <1>7, <2>1, <2>3
<1> HIDE DEF q, z
<1>9. ASSUME NEW t \in Targets
      PROVE  /\ Ledger(q.log, t) = Ledger(store.log, t) /\ Ledger(q.log, t) \in Seq(Event)
  <2>1. <<imp.n, t>> \in Groups
    BY <1>2
  <2>2. Meeting(q, Owed(store, task, imp.n, t), imp.steps, t)
    BY <1>6 DEF q
  <2>3. Ledger(q.log, t) = Ledger(store.log, t)
    BY <1>1, <1>2, <1>4, <2>1, <2>2, AllSaid
  <2> QED
    BY <1>3, <2>3, LedgerOfLog
<1>10. store.helix = q.helix
  BY <1>4, <1>8, <1>9, SameLedgersSameHelix
<1>11. have = q.helix /\ have \in SUBSET Targets
  <2>1. ASSUME NEW t \in imp.insed PROVE t \in store.helix
    <3>1. task[<<imp.n, t>>].todo = << >> /\ t \in Targets
      BY <1>1, <1>3 DEF Quiet
    <3>2. Ahead(imp, task, t) = {}
      BY <1>1, <3>1 DEF Ahead, ToSet, Rest
    <3>3. HasINS(ToSet(store.log), t)
      BY <1>2, <3>2 DEF PlanFine, HasINS
    <3>4. \E e : Says(store.log, e) /\ e.op = "INS" /\ e.on = t
      BY <3>3 DEF HasINS, Says
    <3> QED
      BY <1>2, <1>4, <3>1, <3>4, HelixIsLogged DEF Serials
  <2> QED
    BY <1>3, <1>10, <2>1
<1>12. /\ z \in Serials
       /\ \A t \in Targets : Ledger(z.log, t) = NoteAll(Ledger(q.log, t), Reserved(Expanded(wave, q.helix).out, seq), t)
  BY <1>3, <1>5, <1>8, WaveLedger
<1>13. w.out \in Seq(Event) /\ w.insed \in SUBSET Targets
  <2> HIDE DEF have
  <2>1. w \in Expansions(wave, have)
    BY <1>5, <1>11, ExpandedWave
  <2> HIDE DEF w
  <2>2. w.out \in Seq(Usable) /\ w.insed \in SUBSET Targets
    BY <2>1 DEF Expansions
  <2> QED
    BY <2>2, EventsInUse
<1>14. \A t \in Targets : Ledger(z.log, t) = NoteAll(Ledger(q.log, t), p, t)
  BY <1>11, <1>12
<1> HIDE DEF have, w, seq
<1>15. p \in Seq(Planned) /\ Ascending(p)
  BY <1>3, <1>13, ReservedSeqs
<1> HIDE DEF p
<1>16. st \in Seq(Seq(Planned)) /\ Rest(st) = ToSet(p)
  BY <1>15, StepsOfWave
<1> HIDE DEF st
<1>17. n \in Nat
  BY <1>3, <1>13
<1> HIDE DEF n
<1>18. r.log = store.log /\ r \in Store
  BY <1>2, <1>17 DEF Store
<1>19. /\ i.pc = "run" /\ i.steps = st /\ i.waves = left /\ i.n = imp.n
       /\ i.batch = imp.batch /\ i.from = imp.from
  BY <1>1, <1>2 DEF Import
<1> HIDE DEF i, r
<1>20. ASSUME NEW t \in Targets PROVE Meeting(z, Owed(r, task, i.n, t), st, t)
  <2> DEFINE u == OfTarget(p, t)
             l == Ledger(q.log, t)
  <2>1. u \in Seq(Planned) /\ ToSet(u) = {x \in ToSet(p) : x.ev.on = t} /\ Ascending(u)
    BY <1>15, GroupOfTarget
  <2>2. l \in Seq(Event) /\ Owed(r, task, i.n, t) = l
    <3>1. <<i.n, t>> \in Groups
      BY <1>2, <1>19
    <3>2. Owed(r, task, i.n, t) = Ledger(r.log, t)
      BY <1>4, <1>18, <3>1, IdleOwes
    <3> QED
      BY <1>9, <1>18, <3>2
  <2>3. Ledger(z.log, t) = NoteAll(l, p, t)
    BY <1>14
  <2> HIDE DEF l
  <2>4. NoteAll(l, u, t) = NoteAll(l, p, t)
    BY <1>15, <2>2, NoteOfTarget
  <2> HIDE DEF u
  <2> QED
    BY <1>16, <2>1, <2>2, <2>3, <2>4 DEF Meeting
<1>21. a[6 - Len(i.waves)] = z
  BY <1>7, <1>19 DEF z
<1>22. Lockstep(r, i, task)
  BY <1>6, <1>19, <1>20, <1>21 DEF Lockstep
<1>23. Served(r)
  BY <1>18 DEF Parallel, Served, Brought
<1> QED
  BY <1>1, <1>19, <1>22, <1>23 DEF Parallel

\* The shards of a step note it.
LEMMA MergeStepSays ==
  ASSUME BulkInv, Rebuilding(store, imp, task), Parallel(store, imp, task), MergeStep
  PROVE  Parallel(store', imp', task')
<1> DEFINE step  == Head(imp.steps)
           left  == Tail(imp.steps)
           dests == UNION {step[j].ev.to : j \in 1 .. Len(step)}
           r     == Reconciled(FoldLeft(Merging, store, Shards), dests)
           i     == [imp EXCEPT !.pc = "run", !.steps = left, !.snap = EmptyStore]
<1>1. imp.pc = "shipped" /\ store' = r /\ imp' = i /\ task' = task
  BY DEF MergeStep
<1>2. /\ store \in Store /\ Sound(store) /\ imp \in Import
      /\ PlanFine(store, imp, task) /\ PhaseFine(store, imp, task)
      /\ \A t \in Targets : <<imp.n, t>> \in Groups
  BY <1>1, InvFacts
<1>3. /\ imp.steps # << >> /\ Recorded(imp.snap) /\ ToSet(imp.snap.log) \subseteq ToSet(store.log)
      /\ \A t \in Targets : task[<<imp.n, t>>].todo = << >>
  BY <1>1, <1>2 DEF PhaseFine
<1>4. imp.steps \in Seq(Seq(Planned)) /\ StepsSorted(imp.steps) /\ imp.snap \in Store
  BY <1>2 DEF Import, PlanFine
<1>5. step \in Seq(Planned) /\ left \in Seq(Seq(Planned)) /\ Rest(imp.steps) = ToSet(step) \union Rest(left)
  BY <1>3, <1>4, StepsInOrder
<1>6. \A x \in ToSet(step) : x.ev \in Usable
  BY <1>2, <1>3, StepIsCovered
<1>7. Shipped(step)
  BY <1>2, <1>3, <1>4, <1>5, <1>6, SoundIsRecorded DEF Shipped
<1>8. AllIdle(task)
  BY <1>1, NotRunningIsIdle
<1>9. Brought(store, Rest(imp.steps)) /\ imp.snap = store
  BY <1>1, <1>8, IdleRebuilds DEF History
<1> HIDE DEF step, left
<1>10. PICK a \in [0 .. 6 -> Serials] :
         /\ Serially(a, imp.from, imp.batch)
         /\ \A t \in Targets : Meeting(a[6 - Len(imp.waves)], Owed(store, task, imp.n, t), imp.steps, t)
  BY <1>1 DEF Parallel, Underway, Lockstep
<1> DEFINE q == a[6 - Len(imp.waves)]
<1> HIDE DEF q, dests
<1>11. \A t \in Targets : Ledger(r.log, t) = NoteAll(Ledger(store.log, t), step, t)
  BY <1>7, <1>9, StepLedger
<1>12. r \in Merged(store, step)
  BY <1>7, MergeResult
<1> HIDE DEF r
<1>13. r \in Store /\ ToSet(store.log) \subseteq ToSet(r.log) /\ ToSet(r.log) \subseteq ToSet(store.log) \union ToSet(step)
  BY <1>12 DEF Merged
<1>14. Served(r)
  <2>1. Brought(store, ToSet(store.log)) /\ Brought(store, ToSet(step))
    BY <1>5, <1>9 DEF Parallel, Served, Brought
  <2> QED
    BY <1>13, <2>1 DEF Served, Brought, HasINS
<1>15. /\ i.pc = "run" /\ i.steps = left /\ i.waves = imp.waves /\ i.n = imp.n
       /\ i.batch = imp.batch /\ i.from = imp.from
  BY <1>2 DEF Import
<1> HIDE DEF i
<1>16. ASSUME NEW t \in Targets PROVE Meeting(q, Owed(r, task, imp.n, t), left, t)
  <2> DEFINE l == Ledger(store.log, t)
  <2>0. <<imp.n, t>> \in Groups
    BY <1>2
  <2>1. Owed(store, task, imp.n, t) = l /\ l \in Seq(Event)
    BY <1>2, <1>8, <2>0, IdleOwes
  <2>2. Owed(r, task, imp.n, t) = Ledger(r.log, t)
    BY <1>8, <1>13, <2>0, IdleOwes
  <2>3. Ledger(r.log, t) = NoteAll(l, step, t)
    BY <1>11
  <2> HIDE DEF l
  <2>4. Meeting(q, l, imp.steps, t)
    BY <1>10, <2>1 DEF q
  <2>5. Meeting(q, NoteAll(l, step, t), left, t)
    BY <1>3, <1>4, <2>1, <2>4, MeetingStep DEF step, left
  <2> QED
    BY <2>2, <2>3, <2>5
<1>17. Lockstep(r, i, task)
  BY <1>10, <1>15, <1>16 DEF Lockstep, q
<1> QED
  BY <1>1, <1>14, <1>15, <1>17 DEF Parallel

\* After the last step the ledgers are those of the serial fold, and so is what is seen.
LEMMA FinishSays ==
  ASSUME BulkInv, Rebuilding(store, imp, task), Parallel(store, imp, task), Finish
  PROVE  Parallel(store', imp', task')
<1> DEFINE i == [imp EXCEPT !.pc = "done"]
           q == SerialFold(imp.from, imp.batch)
<1>1. /\ imp.pc = "run" /\ imp.waves = << >> /\ imp.steps = << >> /\ Quiet(imp.n)
      /\ imp' = i /\ store' = store /\ task' = task /\ imp \in Import
      /\ \A t \in Targets : <<imp.n, t>> \in Groups
  BY InvFacts DEF Finish
<1>2. i.pc = "done" /\ i.from = imp.from /\ i.batch = imp.batch
  BY <1>1 DEF Import
<1>3. AllIdle(task) /\ store \in Serials /\ store \in Store
  BY <1>1, QuietIsIdle, StoreIsSerial, InvFacts
<1> HIDE DEF i
<1>4. PICK a \in [0 .. 6 -> Serials] :
        /\ Serially(a, imp.from, imp.batch)
        /\ \A t \in Targets : Meeting(a[6 - Len(imp.waves)], Owed(store, task, imp.n, t), imp.steps, t)
  BY <1>1 DEF Parallel, Underway, Lockstep
<1>5. q = a[6] /\ 6 - Len(imp.waves) = 6 /\ q \in Serials
  <2>1. imp.batch \in Seq(Event)
    BY <1>1 DEF Import
  <2>2. Len(sortByHelixLevel(imp.batch)) = 6
    BY <2>1, WavesByLevel
  <2>3. q = a[6] /\ 6 \in 0 .. 6
    BY <1>4, <2>2 DEF Serially
  <2> HIDE DEF q
  <2>4. Len(imp.waves) = 0
    BY <1>1
  <2> QED
    BY <2>3, <2>4
<1> HIDE DEF q
<1>6. \A t \in Targets : Ledger(store.log, t) = Ledger(q.log, t)
  <2>1. ASSUME NEW t \in Targets PROVE Ledger(q.log, t) = Ledger(store.log, t)
    <3>1. <<imp.n, t>> \in Groups
      BY <1>1
    <3>2. Meeting(q, Owed(store, task, imp.n, t), imp.steps, t)
      BY <1>4, <1>5
    <3> QED
      BY <1>1, <1>3, <3>1, <3>2, AllSaid
  <2> QED
    BY <2>1
<1>7. \A s \in Serials : s \in Store /\ Rebuilt(s) /\ InUse(s.log)
  BY DEF Serials, Sound, LogOrdered, InUse
<1>8. Projection(store) = Projection(q)
  BY <1>3, <1>5, <1>6, <1>7, SameLedgersSameLook
<1>9. Served(store)
  BY DEF Parallel
<1> QED
  BY <1>1, <1>2, <1>8, <1>9 DEF Parallel, Underway, q

\* At the start nothing is logged and no import runs.
LEMMA InitSays ==
  ASSUME BulkInit
  PROVE  SerialInv
<1>1. store.log = << >> /\ imp.pc = "idle"
  BY DEF BulkInit, EmptyStore, NoImport
<1> QED
  BY <1>1 DEF SerialInv, Parallel, Served, Brought, Underway, ToSet

\* Every step keeps it.
LEMMA NextKeepsSerial ==
  ASSUME BulkInv, RebuildInv, SerialInv, [BulkNext]_bulkVars
  PROVE  SerialInv'
<1>1. SUFFICES ASSUME ~mixed' PROVE Parallel(store', imp', task')
  BY DEF SerialInv
<1>2. ~mixed
  BY <1>1 DEF BulkNext, bulkVars, Dispatch, Begin, StartWave, StartStep, ShipStep, MergeStep, RejectStep,
     Finish, Leave, GroupStep, SkipKnown, CheckEvent, RejectImport, LogEvent, ReadRow, WriteRow,
     DeclareTarget, EndEvent, GroupOnly
<1>3. Rebuilding(store, imp, task) /\ Parallel(store, imp, task)
  BY <1>2 DEF RebuildInv, SerialInv
<1>4. ASSUME NEW e \in Locals, Dispatch(e) PROVE Parallel(store', imp', task')
  BY <1>3, <1>4, DispatchSays
<1>5. ASSUME NEW b \in Imports, NEW mode \in Modes, Begin(b, mode) PROVE Parallel(store', imp', task')
  BY <1>3, <1>5, BeginSays
<1>6. CASE StartWave
  BY <1>3, <1>6, StartWaveSays
<1>7. CASE StartStep
  BY <1>3, <1>7, StartStepSays
<1>8. CASE ShipStep
  BY <1>3, <1>8, ShipStepSays
<1>9. CASE MergeStep
  BY <1>3, <1>9, MergeStepSays
<1>10. CASE Finish
  BY <1>3, <1>10, FinishSays
<1>11. CASE Leave \/ RejectStep
  BY <1>3, <1>11, LeaveSays
<1>12. ASSUME NEW k \in Groups, GroupStep(k) PROVE Parallel(store', imp', task')
  <2>1. ~RejectImport(k)
    BY <1>1 DEF RejectImport
  <2> QED
    BY <1>3, <1>12, <2>1, SkipKnownSays, LogEventSays, QuietStepSays DEF GroupStep
<1>13. CASE UNCHANGED bulkVars
  BY <1>3, <1>13 DEF bulkVars
<1> QED
  BY <1>4, <1>5, <1>6, <1>7, <1>8, <1>9, <1>10, <1>11, <1>12, <1>13 DEF BulkNext, Groups

\* An import, whatever the batch, the interleaving of its groups or the cut into shards,
\* leaves the rows, edges and helix positions that the serial fold of the same events by
\* helix level would have left in the store it began with (ImportEqualsSerial).
THEOREM ImportsAreSerial == BulkSpec => []ImportEqualsSerial
<1>1. SerialInv => ImportEqualsSerial
  BY DEF SerialInv, Parallel, ImportEqualsSerial, SameAsSerial
<1>2. BulkInit => BulkInv /\ RebuildInv /\ SerialInv
  BY InitGivesInv, InitRebuilds, InitSays
<1>3. BulkInv /\ RebuildInv /\ SerialInv /\ [BulkNext]_bulkVars => BulkInv' /\ RebuildInv' /\ SerialInv'
  BY NextKeepsInv, NextKeepsRebuild, NextKeepsSerial
<1> QED
  BY <1>1, <1>2, <1>3, PTL DEF BulkSpec
=============================================================================
