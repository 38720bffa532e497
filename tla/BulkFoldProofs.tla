--------------------------- MODULE BulkFoldProofs ---------------------------
(***************************************************************************)
(* Theorems about BulkFold, for any targets, shards, batches and events:   *)
(* the types, that no operator is logged before the INS of its target, and *)
(* that the log alone rebuilds the store.                                  *)
(*                                                                         *)
(* The first part is about folds over sequences; then comes the invariant  *)
(* BulkInv with what it keeps, and from "Row operations" on what events do *)
(* to the rows they reach, which RebuildInv compares in store and replay.  *)
(***************************************************************************)
EXTENDS BulkFold, WellFoundedInduction, FiniteSetTheorems, TLAPS

-----------------------------------------------------------------------------
(* Folds. *)

\* Numbers have a least one among them.
LEMMA LeastNatural ==
  ASSUME NEW S \in SUBSET Nat, S # {}
  PROVE  \E x \in S : \A y \in S : x <= y
<1> DEFINE R == OpToRel(<, Nat)
<1>1. \A x, y \in Nat : x < y => <<x, y>> \in R
  BY Zenon DEF OpToRel
<1> HIDE DEF R
<1>2. PICK x \in S : \A y \in S : <<y, x>> \notin R
  <2>1. IsWellFoundedOn(R, Nat)
    BY NatLessThanWellFounded DEF R
  <2> QED
    BY <2>1, WFMin
<1>3. \A y \in S : ~(y < x)
  BY <1>1, <1>2
<1> QED
  BY <1>3

\* A bounded set of numbers has a greatest one.
LEMMA GreatestBelow ==
  ASSUME NEW S \in SUBSET Nat, S # {}, NEW B \in Nat, \A n \in S : n <= B
  PROVE  \E n \in S : \A m \in S : m <= n
<1> DEFINE D == {B - n : n \in S}
<1>1. D \in SUBSET Nat /\ D # {}
  <2>1. \A n \in S : B - n \in Nat
    OBVIOUS
  <2> QED
    BY <2>1
<1>2. PICK d \in D : \A c \in D : d <= c
  BY <1>1, LeastNatural
<1>3. PICK n \in S : d = B - n
  BY <1>2
<1>4. ASSUME NEW m \in S PROVE m <= n
  <2>1. B - n <= B - m
    BY <1>2, <1>3
  <2>2. m \in Nat /\ n \in Nat
    OBVIOUS
  <2> QED
    BY <2>1, <2>2
<1> QED
  BY <1>4

\* What holds at 0 and of the next number holds up to n.
LEMMA UpTo ==
  ASSUME NEW n \in Nat, NEW A, 0 \in A, \A i \in 0 .. n - 1 : i \in A => i + 1 \in A
  PROVE  \A i \in 0 .. n : i \in A
<1> DEFINE B == {i \in 0 .. n : i \notin A}
<1>1. SUFFICES ASSUME B # {} PROVE FALSE
  OBVIOUS
<1>2. PICK i \in B : \A j \in B : i <= j
  <2>1. B \in SUBSET Nat
    OBVIOUS
  <2> QED
    BY <1>1, <2>1, LeastNatural
<1>3. i - 1 \in 0 .. n - 1 /\ i - 1 \notin B
  BY <1>2
<1> QED
  BY <1>3

LEMMA AtTheEnd ==
  ASSUME NEW n \in Nat, NEW A, 0 \in A, \A i \in 0 .. n - 1 : i \in A => i + 1 \in A
  PROVE  n \in A
<1>1. \A i \in 0 .. n : i \in A
  BY UpTo
<1> QED
  BY <1>1

\* A set of numbers of a sequence's domain has its Max.
LEMMA MaxIsGreatest ==
  ASSUME NEW n \in Nat, NEW S \in SUBSET (1 .. n), S # {}
  PROVE  Max(S) \in S /\ \A i \in S : i <= Max(S)
<1>1. \E i \in S : \A j \in S : j <= i
  <2>1. S \in SUBSET Nat /\ \A i \in S : i <= n
    OBVIOUS
  <2> QED
    BY <2>1, GreatestBelow
<1>2. \E i \in S : \A j \in S : i >= j
  BY <1>1
<1>3. Max(S) \in S /\ \A j \in S : Max(S) >= j
  BY <1>2 DEF Max
<1>4. \A j \in S : j \in Int
  OBVIOUS
<1> QED
  BY <1>3, <1>4

\* The segments of a sequence's domain.
LEMMA Segments ==
  ASSUME NEW n \in Nat, NEW i \in 1 .. n
  PROVE  /\ 1 .. i \in SUBSET (1 .. n) /\ 1 .. i # {} /\ Max(1 .. i) = i
         /\ (1 .. i) \ {i} = 1 .. i - 1
<1>1. 1 .. i \in SUBSET (1 .. n) /\ 1 .. i # {} /\ i \in 1 .. i
  OBVIOUS
<1>2. Max(1 .. i) \in 1 .. i /\ i <= Max(1 .. i)
  BY <1>1, MaxIsGreatest
<1>3. Max(1 .. i) = i
  BY <1>2
<1> QED
  BY <1>1, <1>3

\* The functions that FoldLeft chooses from, for a step F.
Steps(F, base, s, g) ==
  g = [S \in SUBSET DOMAIN s |->
         IF S = {} THEN base ELSE F[<<g[S \ {Max(S)}], s[Max(S)]>>]]

\* There is one.
LEMMA FoldExists ==
  ASSUME NEW E, NEW s \in Seq(E), NEW F, NEW base
  PROVE  \E g : Steps(F, base, s, g)
<1> DEFINE Upto(n, g) ==
             g = [S \in SUBSET (1 .. n) |->
                    IF S = {} THEN base ELSE F[<<g[S \ {Max(S)}], s[Max(S)]>>]]
           A == {n \in 0 .. Len(s) : \E g : Upto(n, g)}
<1>1. 0 \in A
  <2>0. 1 .. 0 = {}
    OBVIOUS
  <2>1. SUBSET (1 .. 0) = {{}}
    BY <2>0, Zenon
  <2>2. Upto(0, [S \in SUBSET (1 .. 0) |-> base])
    BY <2>1
  <2> QED
    BY <2>2
<1>2. ASSUME NEW n \in 0 .. Len(s) - 1, n \in A PROVE n + 1 \in A
  <2>1. PICK g : Upto(n, g)
    BY <1>2
  <2> DEFINE h == [S \in SUBSET (1 .. n + 1) |->
                     IF n + 1 \in S THEN F[<<g[S \ {n + 1}], s[n + 1]>>] ELSE g[S]]
  <2>2. ASSUME NEW S \in SUBSET (1 .. n + 1)
        PROVE  h[S] = IF S = {} THEN base ELSE F[<<h[S \ {Max(S)}], s[Max(S)]>>]
    <3>1. CASE n + 1 \in S
      <4>1. S # {} /\ n + 1 \in Nat
        BY <3>1
      <4>2. Max(S) = n + 1
        <5>1. Max(S) \in S /\ n + 1 <= Max(S)
          BY <3>1, <4>1, MaxIsGreatest
        <5>2. Max(S) \in 1 .. n + 1
          BY <5>1
        <5> QED
          BY <5>1, <5>2
      <4>3. S \ {n + 1} \in SUBSET (1 .. n + 1) /\ n + 1 \notin S \ {n + 1}
        OBVIOUS
      <4>4. h[S \ {n + 1}] = g[S \ {n + 1}]
        BY <4>3, Zenon
      <4>5. h[S] = F[<<g[S \ {n + 1}], s[n + 1]>>]
        BY <3>1
      <4> QED
        BY <4>1, <4>2, <4>4, <4>5, Zenon
    <3>2. CASE n + 1 \notin S
      <4>1. S \in SUBSET (1 .. n)
        BY <3>2
      <4>2. h[S] = g[S]
        BY <3>2
      <4>3. g[S] = IF S = {} THEN base ELSE F[<<g[S \ {Max(S)}], s[Max(S)]>>]
        BY <2>1, <4>1
      <4>4. ASSUME S # {} PROVE h[S \ {Max(S)}] = g[S \ {Max(S)}]
        <5>1. S \ {Max(S)} \in SUBSET (1 .. n + 1) /\ n + 1 \notin S \ {Max(S)}
          BY <3>2
        <5> QED
          BY <5>1, Zenon
      <4> QED
        BY <4>2, <4>3, <4>4
    <3> QED
      BY <3>1, <3>2
  <2>3. h = [S \in SUBSET (1 .. n + 1) |-> h[S]]
    BY Zenon
  <2>4. Upto(n + 1, h)
    <3> HIDE DEF h
    <3> QED
      BY <2>2, <2>3, Zenon
  <2> HIDE DEF Upto
  <2> QED
    BY <2>4
<1>3. Len(s) \in A
  <2> HIDE DEF A
  <2>1. \A i \in 0 .. Len(s) : i \in A
    BY <1>1, <1>2, UpTo
  <2> QED
    BY <2>1
<1>4. DOMAIN s = 1 .. Len(s)
  OBVIOUS
<1> QED
  BY <1>3, <1>4 DEF Steps

\* And it stays where the step stays.
LEMMA FoldStays ==
  ASSUME NEW E, NEW s \in Seq(E), NEW T, NEW F, NEW base \in T, NEW g,
         Steps(F, base, s, g), \A t \in T, e \in E : F[<<t, e>>] \in T
  PROVE  \A S \in SUBSET DOMAIN s : g[S] \in T
<1>0. DOMAIN s = 1 .. Len(s) /\ \A i \in 1 .. Len(s) : s[i] \in E
  OBVIOUS
<1> DEFINE A == {n \in 0 .. Len(s) : \A S \in SUBSET (1 .. n) : g[S] \in T}
<1>1. 0 \in A
  <2>1. g[{}] = base
    BY DEF Steps
  <2>2. \A S \in SUBSET (1 .. 0) : S = {}
    OBVIOUS
  <2>3. \A S \in SUBSET (1 .. 0) : g[S] \in T
    BY <2>1, <2>2, Zenon
  <2>4. 0 \in 0 .. Len(s)
    OBVIOUS
  <2> QED
    BY <2>3, <2>4, Zenon
<1>2. ASSUME NEW n \in 0 .. Len(s) - 1, n \in A PROVE n + 1 \in A
  <2>1. ASSUME NEW S \in SUBSET (1 .. n + 1), n + 1 \in S PROVE g[S] \in T
    <3>1. Max(S) = n + 1
      <4>1. S # {} /\ n + 1 \in Nat
        BY <2>1
      <4>2. Max(S) \in S /\ n + 1 <= Max(S)
        BY <2>1, <4>1, MaxIsGreatest
      <4>3. Max(S) \in 1 .. n + 1
        BY <4>2
      <4> QED
        BY <4>2, <4>3
    <3>2. g[S \ {n + 1}] \in T
      <4>1. S \ {n + 1} \in SUBSET (1 .. n)
        OBVIOUS
      <4> QED
        BY <1>2, <4>1
    <3>3. S \in SUBSET DOMAIN s /\ S # {} /\ s[n + 1] \in E
      <4>1. n + 1 \in 1 .. Len(s)
        OBVIOUS
      <4>2. 1 .. n + 1 \in SUBSET (1 .. Len(s))
        OBVIOUS
      <4> QED
        BY <2>1, <1>0, <4>1, <4>2
    <3>4. g[S] = F[<<g[S \ {n + 1}], s[n + 1]>>]
      BY <3>1, <3>3 DEF Steps
    <3> QED
      BY <3>2, <3>3, <3>4
  <2>2. ASSUME NEW S \in SUBSET (1 .. n + 1), n + 1 \notin S PROVE g[S] \in T
    BY <1>2, <2>2
  <2> QED
    BY <2>1, <2>2
<1> QED
  <2> HIDE DEF A
  <2>1. \A i \in 0 .. Len(s) : i \in A
    BY <1>1, <1>2, UpTo
  <2>2. Len(s) \in A
    BY <2>1
  <2> QED
    BY <2>2, <1>0 DEF A

\* A bucket, filled element by element.
Filling(a, s, P) ==
  /\ a[0] = << >> /\ a[Len(s)] = Bucket(s, P)
  /\ \A i \in 1 .. Len(s) : a[i] = IF s[i] \in P THEN Append(a[i - 1], s[i]) ELSE a[i - 1]

\* Bucket picks the elements of T one by one.
LEMMA BucketFold ==
  ASSUME NEW E, NEW s \in Seq(E), NEW P
  PROVE  \E a \in [0 .. Len(s) -> Seq(E)] : Filling(a, s, P)
<1> DEFINE F == [x \in Seq(E) \X E |-> IF x[2] \in P THEN Append(x[1], x[2]) ELSE x[1]]
           D == DOMAIN s
<1>0. D = 1 .. Len(s) /\ Len(s) \in Nat /\ \A i \in 1 .. Len(s) : s[i] \in E
  OBVIOUS
<1>1. ASSUME NEW t \in Seq(E), NEW e \in E PROVE (IF e \in P THEN Append(t, e) ELSE t) \in Seq(E)
  OBVIOUS
<1>2. \A t \in Seq(E), e \in E : F[<<t, e>>] = IF e \in P THEN Append(t, e) ELSE t
  OBVIOUS
<1>3. \A t \in Seq(E), e \in E : F[<<t, e>>] \in Seq(E)
  <2> HIDE DEF F
  <2> QED
    BY <1>1, <1>2
<1>4. << >> \in Seq(E)
  OBVIOUS
<1>5. PICK h : Steps(F, << >>, s, h)
  BY FoldExists
<1>6. \A S \in SUBSET D : h[S] \in Seq(E)
  <2> HIDE DEF F
  <2> QED
    BY <1>3, <1>4, <1>5, FoldStays, Zenon
<1>7. h = [S \in SUBSET D |->
                        IF S = {} THEN << >> ELSE IF s[Max(S)] \in P THEN Append(h[S \ {Max(S)}], s[Max(S)]) ELSE h[S \ {Max(S)}]]
  <2>1. ASSUME NEW S \in SUBSET D, S # {}
        PROVE  F[<<h[S \ {Max(S)}], s[Max(S)]>>] =
                 IF s[Max(S)] \in P THEN Append(h[S \ {Max(S)}], s[Max(S)]) ELSE h[S \ {Max(S)}]
    <3>1. Max(S) \in S
      BY <1>0, <2>1, MaxIsGreatest
    <3>2. h[S \ {Max(S)}] \in Seq(E) /\ s[Max(S)] \in E
      BY <1>0, <1>6, <3>1
    <3> HIDE DEF F
    <3> QED
      BY <1>2, <3>2
  <2> HIDE DEF F
  <2> QED
    BY <1>5, <2>1, Zenon DEF Steps
<1>8. PICK g : /\ g = [S \in SUBSET D |->
                        IF S = {} THEN << >> ELSE IF s[Max(S)] \in P THEN Append(g[S \ {Max(S)}], s[Max(S)]) ELSE g[S \ {Max(S)}]]
               /\ Bucket(s, P) = g[D]
  <2> HIDE DEF F
  <2> QED
    BY <1>7 DEF FoldLeft, MapThenFoldSet, Bucket
<1> DEFINE a == [i \in 0 .. Len(s) |-> g[1 .. i]]
<1>9. a[0] = << >>
  <2>1. 1 .. 0 = {} /\ {} \in SUBSET D
    OBVIOUS
  <2>2. g[{}] = << >>
    BY <1>8, <2>1, Zenon
  <2> QED
    BY <2>1, <2>2
<1>10. ASSUME NEW i \in 1 .. Len(s) PROVE a[i] = IF s[i] \in P THEN Append(a[i - 1], s[i]) ELSE a[i - 1]
  <2>1. /\ 1 .. i \in SUBSET D /\ 1 .. i # {} /\ Max(1 .. i) = i
        /\ (1 .. i) \ {i} = 1 .. i - 1
    BY <1>0, Segments
  <2>2. g[1 .. i] = IF s[i] \in P THEN Append(g[1 .. i - 1], s[i]) ELSE g[1 .. i - 1]
    BY <1>8, <2>1, Zenon
  <2>3. i - 1 \in 0 .. Len(s) /\ i \in 0 .. Len(s)
    OBVIOUS
  <2> QED
    BY <2>2, <2>3, Zenon
<1>11. \A i \in 0 .. Len(s) : a[i] \in Seq(E)
  <2> DEFINE A == {i \in 0 .. Len(s) : a[i] \in Seq(E)}
  <2>1. 0 \in A
    <3>1. 0 \in 0 .. Len(s)
      OBVIOUS
    <3> QED
      BY <1>4, <1>9, <3>1, Zenon
  <2>2. ASSUME NEW i \in 0 .. Len(s) - 1, i \in A PROVE i + 1 \in A
    <3>1. /\ i + 1 \in 1 .. Len(s) /\ (i + 1) - 1 = i /\ i + 1 \in 0 .. Len(s)
          /\ a[i] \in Seq(E) /\ s[i + 1] \in E
      BY <1>0, <2>2
    <3> HIDE DEF a
    <3>2. a[i + 1] = IF s[i + 1] \in P THEN Append(a[i], s[i + 1]) ELSE a[i]
      BY <1>10, <3>1
    <3>3. a[i + 1] \in Seq(E)
      BY <1>1, <3>1, <3>2
    <3> QED
      BY <3>1, <3>3
  <2> HIDE DEF A
  <2>3. \A i \in 0 .. Len(s) : i \in A
    BY <1>0, <2>1, <2>2, UpTo, Zenon
  <2> QED
    BY <2>3 DEF A
<1>12. a \in [0 .. Len(s) -> Seq(E)]
  BY <1>11
<1>13. a[Len(s)] = Bucket(s, P)
  BY <1>0, <1>8
<1> HIDE DEF a
<1> QED
  BY <1>9, <1>10, <1>12, <1>13 DEF Filling

-----------------------------------------------------------------------------
(* Sequences and the sets of their elements. *)

\* The elements of a sequence, as ToSet gives them.
LEMMA ElementsOf ==
  ASSUME NEW E, NEW s \in Seq(E)
  PROVE  /\ ToSet(s) = {s[i] : i \in 1 .. Len(s)} /\ ToSet(s) \in SUBSET E
         /\ s = << >> <=> ToSet(s) = {}
<1>1. DOMAIN s = 1 .. Len(s) /\ \A i \in 1 .. Len(s) : s[i] \in E
  OBVIOUS
<1>2. s # << >> => 1 \in 1 .. Len(s)
  OBVIOUS
<1>3. ToSet(s) = {s[i] : i \in 1 .. Len(s)}
  BY <1>1 DEF ToSet
<1>4. ToSet(s) \in SUBSET E
  BY <1>1, <1>3
<1>5. s # << >> => s[1] \in ToSet(s)
  BY <1>2, <1>3
<1>6. s = << >> => ToSet(s) = {}
  BY DEF ToSet
<1> QED
  BY <1>3, <1>4, <1>5, <1>6, Zenon

LEMMA Appended ==
  ASSUME NEW E, NEW s \in Seq(E), NEW x \in E
  PROVE  ToSet(Append(s, x)) = ToSet(s) \union {x} /\ Append(s, x) \in Seq(E)
<1> DEFINE a == Append(s, x)
<1>1. a \in Seq(E) /\ Len(a) = Len(s) + 1
  OBVIOUS
<1>2. \A i \in 1 .. Len(s) : a[i] = s[i]
  OBVIOUS
<1>3. a[Len(s) + 1] = x
  OBVIOUS
<1> HIDE DEF a
<1>4. 1 .. Len(s) + 1 = (1 .. Len(s)) \union {Len(s) + 1}
  OBVIOUS
<1>5. ToSet(s) = {s[i] : i \in 1 .. Len(s)}
  BY ElementsOf
<1>6. ToSet(a) = {a[i] : i \in 1 .. Len(s) + 1}
  BY <1>1, ElementsOf
<1>7. ToSet(a) = ToSet(s) \union {x}
  BY <1>2, <1>3, <1>4, <1>5, <1>6
<1> QED
  BY <1>1, <1>7 DEF a

LEMMA Joined ==
  ASSUME NEW E, NEW s \in Seq(E), NEW t \in Seq(E)
  PROVE  ToSet(s \o t) = ToSet(s) \union ToSet(t) /\ s \o t \in Seq(E)
<1> DEFINE a == s \o t
<1>1. a \in Seq(E) /\ Len(a) = Len(s) + Len(t)
  OBVIOUS
<1>2. \A i \in 1 .. Len(s) : a[i] = s[i]
  OBVIOUS
<1>3. \A i \in 1 .. Len(t) : a[Len(s) + i] = t[i] /\ Len(s) + i \in 1 .. Len(s) + Len(t)
  OBVIOUS
<1> HIDE DEF a
<1>4. \A i \in 1 .. Len(s) + Len(t) : i \in 1 .. Len(s) \/ (i - Len(s) \in 1 .. Len(t) /\ Len(s) + (i - Len(s)) = i)
  OBVIOUS
<1>5. 1 .. Len(s) \in SUBSET (1 .. Len(s) + Len(t))
  OBVIOUS
<1>6. /\ ToSet(s) = {s[i] : i \in 1 .. Len(s)} /\ ToSet(t) = {t[i] : i \in 1 .. Len(t)}
      /\ ToSet(a) = {a[i] : i \in 1 .. Len(s) + Len(t)}
  <2>1. ToSet(a) = {a[i] : i \in 1 .. Len(a)}
    BY <1>1, ElementsOf
  <2>2. ToSet(s) = {s[i] : i \in 1 .. Len(s)}
    BY ElementsOf
  <2>3. ToSet(t) = {t[i] : i \in 1 .. Len(t)}
    BY ElementsOf
  <2> QED
    BY <1>1, <2>1, <2>2, <2>3, Zenon
<1>7. ToSet(a) \subseteq ToSet(s) \union ToSet(t)
  <2>1. ASSUME NEW i \in 1 .. Len(s) + Len(t) PROVE a[i] \in ToSet(s) \union ToSet(t)
    <3>1. CASE i \in 1 .. Len(s)
      BY <1>2, <1>6, <3>1, Zenon
    <3>2. CASE i - Len(s) \in 1 .. Len(t) /\ Len(s) + (i - Len(s)) = i
      <4>1. a[i] = t[i - Len(s)]
        BY <1>3, <3>2
      <4> QED
        BY <1>6, <3>2, <4>1, Zenon
    <3> QED
      BY <1>4, <3>1, <3>2
  <2> QED
    BY <1>6, <2>1, Zenon
<1>8. ToSet(s) \union ToSet(t) \subseteq ToSet(a)
  BY <1>2, <1>3, <1>5, <1>6
<1> QED
  BY <1>1, <1>7, <1>8 DEF a

LEMMA JoinedThenAppended ==
  ASSUME NEW l \in Seq(Planned), NEW d \in Seq(Planned), NEW x \in Planned
  PROVE  Append(l \o d, x) = l \o Append(d, x)
<1> DEFINE L == Append(l \o d, x)
           R == l \o Append(d, x)
<1>1. L \in Seq(Planned) /\ R \in Seq(Planned) /\ Len(L) = Len(l) + Len(d) + 1 /\ Len(R) = Len(L)
  OBVIOUS
<1>2. ASSUME NEW i \in 1 .. Len(L) PROVE L[i] = R[i]
  <2>1. CASE i <= Len(l)
    BY <2>1
  <2>2. CASE i > Len(l) /\ i <= Len(l) + Len(d)
    BY <2>2
  <2>3. CASE i = Len(l) + Len(d) + 1
    BY <2>3
  <2> QED
    BY <1>1, <2>1, <2>2, <2>3
<1> HIDE DEF L, R
<1>3. L = R
  BY <1>1, <1>2
<1> QED
  BY <1>3 DEF L, R

LEMMA HeadAndTail ==
  ASSUME NEW E, NEW s \in Seq(E), s # << >>
  PROVE  /\ Head(s) \in ToSet(s) /\ Tail(s) \in Seq(E)
         /\ ToSet(s) = {Head(s)} \union ToSet(Tail(s))
<1>1. Tail(s) \in Seq(E) /\ Len(Tail(s)) = Len(s) - 1 /\ Head(s) = s[1] /\ 1 \in 1 .. Len(s)
  OBVIOUS
<1>2. \A i \in 1 .. Len(s) - 1 : Tail(s)[i] = s[i + 1] /\ i + 1 \in 1 .. Len(s)
  OBVIOUS
<1>3. ToSet(s) = {s[i] : i \in 1 .. Len(s)}
  BY ElementsOf
<1> DEFINE t == Tail(s)
<1>4. ToSet(t) = {t[i] : i \in 1 .. Len(s) - 1}
  <2>1. t \in Seq(E) /\ Len(t) = Len(s) - 1
    BY <1>1
  <2> HIDE DEF t
  <2> QED
    BY <2>1, ElementsOf
<1>5. ToSet(s) \subseteq {Head(s)} \union ToSet(Tail(s))
  <2>1. \A i \in 1 .. Len(s) : s[i] = Head(s) \/ s[i] \in ToSet(Tail(s))
    <3>1. ASSUME NEW i \in 1 .. Len(s), i # 1 PROVE s[i] \in ToSet(Tail(s))
      <4>1. i - 1 \in 1 .. Len(s) - 1 /\ (i - 1) + 1 = i
        BY <3>1
      <4>2. Tail(s)[i - 1] = s[i]
        BY <1>2, <4>1
      <4> QED
        BY <1>4, <4>1, <4>2
    <3> QED
      BY <1>1, <3>1
  <2> QED
    BY <1>3, <2>1, Zenon
<1>6. {Head(s)} \union ToSet(Tail(s)) \subseteq ToSet(s)
  BY <1>1, <1>2, <1>3, <1>4
<1> QED
  BY <1>1, <1>5, <1>6

\* The targets are finitely many, and so a set of them can be made a sequence.
LEMMA TargetsInSequence ==
  ASSUME NEW S \in SUBSET Targets
  PROVE  SetToSeq(S) \in Seq(Targets) /\ ToSet(SetToSeq(S)) = S
<1>1. IsFiniteSet(Targets)
  <2>1. TargetKeys \in Seq(Targets) /\ Targets = {TargetKeys[i] : i \in 1 .. Len(TargetKeys)}
    BY BulkAssumption, ElementsOf DEF Targets
  <2>2. TargetKeys \in Surjection(1 .. Len(TargetKeys), Targets)
    <3>1. TargetKeys \in [1 .. Len(TargetKeys) -> Targets]
      BY <2>1
    <3>2. \A t \in Targets : \E i \in 1 .. Len(TargetKeys) : TargetKeys[i] = t
      BY <2>1, Zenon
    <3> QED
      BY <3>1, <3>2 DEF Surjection
  <2>3. Len(TargetKeys) \in Nat
    BY <2>1
  <2>4. ExistsSurjection(1 .. Len(TargetKeys), Targets)
    BY <2>2, Zenon DEF ExistsSurjection
  <2> QED
    BY <2>3, <2>4, FS_NatSurjection, Zenon
<1>2. IsFiniteSet(S)
  BY <1>1, FS_Subset
<1> DEFINE n == Cardinality(S)
<1>3. n \in Nat /\ ExistsBijection(1 .. n, S)
  BY <1>2, FS_CardinalityType
<1>4. \E f \in [1 .. n -> S] : IsInjective(f)
  BY <1>3 DEF ExistsBijection, Bijection, Injection
<1>5. SetToSeq(S) \in [1 .. n -> S] /\ IsInjective(SetToSeq(S))
  BY <1>4 DEF SetToSeq
<1>6. SetToSeq(S) \in Surjection(1 .. n, S)
  <2>1. SetToSeq(S) \in Injection(1 .. n, S)
    BY <1>5 DEF Injection
  <2>2. Cardinality(1 .. n) = n
    BY <1>3, FS_Interval
  <2> QED
    BY <1>2, <2>1, <2>2, FS_Injection
<1>7. SetToSeq(S) \in Seq(S)
  BY <1>3, <1>5
<1>8. SetToSeq(S) \in Seq(Targets)
  BY <1>3, <1>5
<1> QED
  BY <1>6, <1>7, <1>8 DEF ToSet, Surjection

\* A bucket holds the elements of the sequence that are in T, no others.
LEMMA BucketElements ==
  ASSUME NEW E, NEW s \in Seq(E), NEW P
  PROVE  Bucket(s, P) \in Seq(E) /\ ToSet(Bucket(s, P)) = ToSet(s) \cap P
<1>0. PICK a \in [0 .. Len(s) -> Seq(E)] : Filling(a, s, P)
  BY BucketFold
<1>1. /\ a[0] = << >> /\ a[Len(s)] = Bucket(s, P)
      /\ \A i \in 1 .. Len(s) : a[i] = IF s[i] \in P THEN Append(a[i - 1], s[i]) ELSE a[i - 1]
  BY <1>0 DEF Filling
<1> DEFINE A == {i \in 0 .. Len(s) : ToSet(a[i]) = {s[j] : j \in 1 .. i} \cap P}
<1>2. 0 \in A
  BY <1>1 DEF ToSet
<1>3. ASSUME NEW i \in 0 .. Len(s) - 1, i \in A PROVE i + 1 \in A
  <2>1. i + 1 \in 1 .. Len(s) /\ (i + 1) - 1 = i /\ i \in 0 .. Len(s) /\ s[i + 1] \in E
    OBVIOUS
  <2>a. a[i] \in Seq(E)
    BY <2>1
  <2>2. a[i + 1] = IF s[i + 1] \in P THEN Append(a[i], s[i + 1]) ELSE a[i]
    BY <1>1, <2>1
  <2>3. {s[j] : j \in 1 .. i + 1} = {s[j] : j \in 1 .. i} \union {s[i + 1]}
    <3>1. 1 .. i + 1 = (1 .. i) \union {i + 1}
      OBVIOUS
    <3> QED
      BY <3>1
  <2>4. ToSet(Append(a[i], s[i + 1])) = ToSet(a[i]) \union {s[i + 1]}
    BY <2>1, <2>a, Appended
  <2> QED
    BY <1>3, <2>1, <2>2, <2>3, <2>4
<1>4. Len(s) \in A
  <2> HIDE DEF A
  <2>1. Len(s) \in Nat
    OBVIOUS
  <2> QED
    BY <1>2, <1>3, <2>1, AtTheEnd, Zenon
<1>5. a[Len(s)] \in Seq(E)
  BY <1>1
<1> QED
  BY <1>1, <1>4, <1>5, ElementsOf

\* Planned events in the order of their seqs.
Ascending(s) == \A i, j \in 1 .. Len(s) : i < j => s[i].seq < s[j].seq

LEMMA AscendingAppended ==
  ASSUME NEW s \in Seq(Planned), Ascending(s), NEW x \in Planned,
         \A y \in ToSet(s) : y.seq < x.seq
  PROVE  Ascending(Append(s, x))
<1> DEFINE a == Append(s, x)
<1>1. Len(a) = Len(s) + 1 /\ a[Len(s) + 1] = x /\ \A i \in 1 .. Len(s) : a[i] = s[i]
  OBVIOUS
<1>2. \A i \in 1 .. Len(s) : s[i] \in ToSet(s)
  BY ElementsOf
<1> HIDE DEF a
<1>3. ASSUME NEW i \in 1 .. Len(a), NEW j \in 1 .. Len(a), i < j PROVE a[i].seq < a[j].seq
  <2>1. i \in 1 .. Len(s)
    BY <1>1, <1>3
  <2>2. CASE j \in 1 .. Len(s)
    BY <1>1, <1>3, <2>1, <2>2 DEF Ascending
  <2>3. CASE j = Len(s) + 1
    BY <1>1, <1>2, <2>1, <2>3
  <2> QED
    BY <1>1, <2>2, <2>3
<1>4. Ascending(a)
  BY <1>3 DEF Ascending
<1> QED
  BY <1>4 DEF a

LEMMA AscendingTail ==
  ASSUME NEW s \in Seq(Planned), Ascending(s), s # << >>
  PROVE  Ascending(Tail(s)) /\ \A y \in ToSet(Tail(s)) : Head(s).seq < y.seq
<1>1. Len(Tail(s)) = Len(s) - 1 /\ Head(s) = s[1] /\ 1 \in 1 .. Len(s) /\ Tail(s) \in Seq(Planned)
  OBVIOUS
<1>2. \A i \in 1 .. Len(s) - 1 : Tail(s)[i] = s[i + 1] /\ i + 1 \in 1 .. Len(s) /\ 1 < i + 1
  OBVIOUS
<1>3. \A i, j \in 1 .. Len(s) - 1 : i < j => i + 1 < j + 1
  OBVIOUS
<1>4. Ascending(Tail(s))
  BY <1>1, <1>2, <1>3 DEF Ascending
<1>5. \A i \in 1 .. Len(s) - 1 : Head(s).seq < Tail(s)[i].seq
  BY <1>1, <1>2 DEF Ascending
<1> DEFINE t == Tail(s)
<1>6. ToSet(t) = {t[i] : i \in 1 .. Len(s) - 1}
  <2>1. t \in Seq(Planned) /\ Len(t) = Len(s) - 1
    BY <1>1
  <2> HIDE DEF t
  <2> QED
    BY <2>1, ElementsOf
<1> QED
  BY <1>4, <1>5, <1>6

\* A bucket keeps the order.
LEMMA BucketAscending ==
  ASSUME NEW s \in Seq(Planned), NEW P, Ascending(s)
  PROVE  Ascending(Bucket(s, P))
<1>0. PICK a \in [0 .. Len(s) -> Seq(Planned)] : Filling(a, s, P)
  BY BucketFold
<1>1. /\ a[0] = << >> /\ a[Len(s)] = Bucket(s, P)
      /\ \A i \in 1 .. Len(s) : a[i] = IF s[i] \in P THEN Append(a[i - 1], s[i]) ELSE a[i - 1]
  BY <1>0 DEF Filling
<1> DEFINE A == {i \in 0 .. Len(s) : Ascending(a[i]) /\ ToSet(a[i]) \subseteq {s[j] : j \in 1 .. i}}
<1>2. 0 \in A
  BY <1>1 DEF ToSet, Ascending
<1>3. ASSUME NEW i \in 0 .. Len(s) - 1, i \in A PROVE i + 1 \in A
  <2>1. i + 1 \in 1 .. Len(s) /\ (i + 1) - 1 = i /\ i \in 0 .. Len(s) /\ s[i + 1] \in Planned
    OBVIOUS
  <2>a. a[i] \in Seq(Planned)
    BY <2>1
  <2>2. a[i + 1] = IF s[i + 1] \in P THEN Append(a[i], s[i + 1]) ELSE a[i]
    BY <1>1, <2>1
  <2>3. {s[j] : j \in 1 .. i} \union {s[i + 1]} \subseteq {s[j] : j \in 1 .. i + 1}
    <3>1. (1 .. i) \union {i + 1} \in SUBSET (1 .. i + 1)
      OBVIOUS
    <3> QED
      BY <3>1
  <2>4. ToSet(Append(a[i], s[i + 1])) = ToSet(a[i]) \union {s[i + 1]}
    BY <2>1, <2>a, Appended
  <2>5. ASSUME NEW j \in 1 .. i PROVE s[j].seq < s[i + 1].seq
    <3>1. j \in 1 .. Len(s) /\ j < i + 1
      OBVIOUS
    <3> QED
      BY <2>1, <3>1 DEF Ascending
  <2>6. Ascending(Append(a[i], s[i + 1]))
    <3>1. \A y \in ToSet(a[i]) : y.seq < s[i + 1].seq
      BY <1>3, <2>5
    <3> QED
      BY <1>3, <2>1, <2>a, <3>1, AscendingAppended
  <2> QED
    BY <1>3, <2>1, <2>2, <2>3, <2>4, <2>6
<1>4. Len(s) \in A
  <2> HIDE DEF A
  <2>1. Len(s) \in Nat
    OBVIOUS
  <2> QED
    BY <1>2, <1>3, <2>1, AtTheEnd, Zenon
<1> QED
  BY <1>1, <1>4

\* The group of a target: its events of the step, in their order.
LEMMA GroupOfTarget ==
  ASSUME NEW step \in Seq(Planned), NEW t \in Targets
  PROVE  /\ OfTarget(step, t) \in Seq(Planned)
         /\ ToSet(OfTarget(step, t)) = {x \in ToSet(step) : x.ev.on = t}
         /\ Ascending(step) => Ascending(OfTarget(step, t))
<1>1. OfTarget(step, t) \in Seq(Planned)
  BY BucketElements DEF OfTarget
<1>2. ToSet(OfTarget(step, t)) = ToSet(step) \cap {x \in ToSet(step) : x.ev.on = t}
  BY BucketElements DEF OfTarget
<1>3. Ascending(step) => Ascending(OfTarget(step, t))
  BY BucketAscending DEF OfTarget
<1> QED
  BY <1>1, <1>2, <1>3

\* The waves of a batch: the INS are a wave of their own.
Pure(w) == (\A e \in ToSet(w) : e.op = "INS") \/ (\A e \in ToSet(w) : e.op # "INS")

\* A wave of sortByHelixLevel holds events of the batch, and either INS only or none.
LEMMA WavesArePure ==
  ASSUME NEW b \in Seq(Event)
  PROVE  /\ sortByHelixLevel(b) \in Seq(Seq(Event))
         /\ \A w \in ToSet(sortByHelixLevel(b)) : ToSet(w) \subseteq ToSet(b) /\ Pure(w)
<1> DEFINE P(l) == {e \in ToSet(b) : HELIX_LEVEL[e.op] = l - 1}
           W == sortByHelixLevel(b)
<1>1. \A l \in 1 .. 6 : Bucket(b, P(l)) \in Seq(Event) /\ ToSet(Bucket(b, P(l))) = ToSet(b) \cap P(l)
  BY BucketElements
<1>2. W = [l \in 1 .. 6 |-> Bucket(b, P(l))]
  BY DEF sortByHelixLevel
<1>3. W \in Seq(Seq(Event)) /\ DOMAIN W = 1 .. 6
  BY <1>1, <1>2
<1>4. \A op \in Ops : HELIX_LEVEL[op] = 1 <=> op = "INS"
  <2>1. /\ HELIX_LEVEL["NUL"] = 0 /\ HELIX_LEVEL["INS"] = 1 /\ HELIX_LEVEL["SEG"] = 2
        /\ HELIX_LEVEL["CON"] = 2 /\ HELIX_LEVEL["SYN"] = 3 /\ HELIX_LEVEL["DEF"] = 4
        /\ HELIX_LEVEL["EVA"] = 5
    BY DEF HELIX_LEVEL, Ops
  <2> QED
    BY <2>1 DEF Ops
<1>5. \A e \in ToSet(b) : e.op \in Ops
  <2>1. ToSet(b) \in SUBSET Event
    BY ElementsOf
  <2> QED
    BY <2>1 DEF Event
<1>6. ASSUME NEW l \in 1 .. 6 PROVE ToSet(W[l]) \subseteq ToSet(b) /\ Pure(W[l])
  <2>1. W[l] = Bucket(b, P(l)) /\ ToSet(W[l]) = ToSet(b) \cap P(l)
    BY <1>1, <1>2
  <2>2. CASE l = 2
    BY <1>4, <1>5, <2>1, <2>2 DEF Pure
  <2>3. CASE l # 2
    <3>1. l - 1 # 1
      BY <2>3
    <3>2. \A e \in ToSet(W[l]) : HELIX_LEVEL[e.op] # 1 /\ e.op \in Ops
      BY <1>5, <2>1, <3>1
    <3> QED
      BY <1>4, <2>1, <3>2 DEF Pure
  <2> QED
    BY <2>2, <2>3
<1> QED
  BY <1>3, <1>6 DEF ToSet

-----------------------------------------------------------------------------
(* The effect of one event on a store. *)

RowOp == [do : {"apply", "metrics", "declare", "cache"}, row : Targets]

LEMMA RowOpsType ==
  ASSUME NEW e \in Event
  PROVE  RowOps(e) \in Seq(RowOp)
<1> DEFINE metrics(t) == [do |-> "metrics", row |-> t]
           dests == SetToSeq(e.to)
           app  == IF e.op \in {"NUL", "SYN"} THEN << >> ELSE << [do |-> "apply", row |-> e.on] >>
           all  == [i \in 1 .. Len(dests) |-> metrics(dests[i])]
           con  == IF e.op = "CON" THEN <<metrics(e.on)>> \o all ELSE << >>
           done == << [do |-> "declare", row |-> e.on], [do |-> "cache", row |-> e.on] >>
<1>1. e.on \in Targets /\ e.to \in SUBSET Targets
  BY DEF Event
<1>2. dests \in Seq(Targets)
  BY <1>1, TargetsInSequence
<1>3. \A t \in Targets : metrics(t) \in RowOp
  BY DEF RowOp
<1>4. all \in Seq(RowOp)
  <2> HIDE DEF dests
  <2>1. Len(dests) \in Nat /\ \A i \in 1 .. Len(dests) : dests[i] \in Targets
    BY <1>2
  <2> HIDE DEF metrics
  <2>2. \A i \in 1 .. Len(dests) : metrics(dests[i]) \in RowOp
    BY <1>3, <2>1
  <2> QED
    BY <2>1, <2>2
<1>5. app \in Seq(RowOp)
  <2>1. [do |-> "apply", row |-> e.on] \in RowOp
    BY <1>1 DEF RowOp
  <2>2. << [do |-> "apply", row |-> e.on] >> \in Seq(RowOp)
    BY <2>1
  <2> QED
    BY <2>2
<1>6. con \in Seq(RowOp)
  <2>1. <<metrics(e.on)>> \in Seq(RowOp)
    BY <1>1, <1>3
  <2> HIDE DEF all, metrics
  <2> QED
    BY <1>4, <2>1
<1>7. done \in Seq(RowOp)
  BY <1>1 DEF RowOp
<1>8. RowOps(e) = app \o con \o done
  BY Zenon DEF RowOps
<1> HIDE DEF app, con, done
<1> QED
  BY <1>5, <1>6, <1>7, <1>8

LEMMA PutType ==
  ASSUME NEW o \in RowOp, NEW e \in Event, NEW copy \in Row, NEW now \in Row,
         NEW edges \in SUBSET (Targets \X Targets)
  PROVE  Put(o, e, copy, now, edges) \in Row
<1>1. e.id \in Nat /\ e.on \in Targets
  BY DEF Event
<1> DEFINE whole == [now EXCEPT !.on = TRUE, !.base = e.id, !.def = 0, !.edges = {}]
           merge == [now EXCEPT !.base = copy.base, !.def = copy.def, !.edges = copy.edges]
<1>2. whole \in Row /\ merge \in Row
  BY <1>1 DEF Row
<1>3. [copy EXCEPT !.metrics = {x \in edges : o.row \in {x[1], x[2]}}] \in Row
  <2> DEFINE M == {x \in edges : o.row \in {x[1], x[2]}}
  <2>1. M \in SUBSET (Targets \X Targets)
    OBVIOUS
  <2> HIDE DEF M
  <2>2. [copy EXCEPT !.metrics = M] \in Row
    BY <2>1 DEF Row
  <2> QED
    BY <2>2 DEF M
<1>4. [copy EXCEPT !.fold = Append(@, e.id)] \in Row
  <2>1. copy.fold \in Seq(Nat)
    BY DEF Row
  <2> DEFINE f == Append(copy.fold, e.id)
  <2>2. f \in Seq(Nat)
    BY <1>1, <2>1
  <2> HIDE DEF f
  <2>3. [copy EXCEPT !.fold = f] \in Row
    BY <2>2 DEF Row
  <2> QED
    BY <2>3 DEF f
<1>5. [merge EXCEPT !.def = e.id] \in Row
  BY <1>1, <1>2 DEF Row
<1>6. [merge EXCEPT !.edges = {d \in Targets : <<e.on, d>> \in edges}] \in Row
  BY <1>2 DEF Row
<1> HIDE DEF whole, merge
<1> QED
  BY <1>2, <1>3, <1>4, <1>5, <1>6 DEF Put, whole, merge

\* The stores that differ from s in rows, edges, and the helix position of an INS' target.
Beyond(s, e) ==
  {r \in Store : /\ r.log = s.log /\ r.seq = s.seq /\ r.idem = s.idem
                 /\ s.helix \subseteq r.helix
                 /\ r.helix \subseteq s.helix \union (IF e.op = "INS" THEN {e.on} ELSE {})}

\* One read and write of a row changes rows and helix positions only.
LEMMA DoRowOpKeeps ==
  ASSUME NEW s \in Store, NEW e \in Event, NEW r \in Beyond(s, e), NEW o \in RowOp
  PROVE  DoRowOp(r, o, e) \in Beyond(s, e)
<1>0. r \in Store /\ r.rows \in [Targets -> Row] /\ o.row \in Targets /\ e.on \in Targets
  BY DEF Beyond, Store, RowOp, Event
<1>1. CASE o.do = "declare"
  <2>1. DoRowOp(r, o, e) = [r EXCEPT !.helix = IF e.op = "INS" THEN @ \union {e.on} ELSE @]
    BY <1>1 DEF DoRowOp, Declared
  <2> DEFINE pos == IF e.op = "INS" THEN r.helix \union {e.on} ELSE r.helix
             q   == [r EXCEPT !.helix = pos]
  <2>2. r.helix \in SUBSET Targets
    BY <1>0 DEF Store
  <2>3. pos \in SUBSET Targets /\ r.helix \subseteq pos
    BY <1>0, <2>2
  <2>4. pos \subseteq s.helix \union (IF e.op = "INS" THEN {e.on} ELSE {}) /\ s.helix \subseteq pos
    BY <2>3 DEF Beyond
  <2>5. DoRowOp(r, o, e) = q
    BY <2>1
  <2> HIDE DEF pos
  <2>6. /\ q \in Store /\ q.log = r.log /\ q.seq = r.seq /\ q.idem = r.idem
        /\ q.helix = pos
    BY <1>0, <2>3 DEF Store
  <2>7. r.log = s.log /\ r.seq = s.seq /\ r.idem = s.idem
    BY DEF Beyond
  <2> HIDE DEF q
  <2> QED
    BY <2>4, <2>5, <2>6, <2>7 DEF Beyond
<1>2. CASE o.do # "declare" /\ Skips(o, e, r.rows[o.row])
  BY <1>0, <1>2 DEF DoRowOp
<1>3. CASE o.do # "declare" /\ ~Skips(o, e, r.rows[o.row])
  <2> DEFINE row == Put(o, e, r.rows[o.row], r.rows[o.row], r.edges)
  <2>1. DoRowOp(r, o, e) = [r EXCEPT !.rows[o.row] = row]
    BY <1>3, Zenon DEF DoRowOp
  <2>2. row \in Row
    <3>1. r.edges \in SUBSET (Targets \X Targets) /\ r.rows[o.row] \in Row
      BY <1>0 DEF Store
    <3> QED
      BY <3>1, PutType
  <2> HIDE DEF row
  <2>3. [r EXCEPT !.rows[o.row] = row] \in Store
    BY <1>0, <2>2 DEF Store
  <2>4. [r EXCEPT !.rows[o.row] = row] = [r EXCEPT !.rows = [r.rows EXCEPT ![o.row] = row]]
    BY Zenon
  <2>5. \A f \in {"log", "seq", "idem", "helix"} : [r EXCEPT !.rows[o.row] = row][f] = r[f]
    BY <1>0 DEF Store
  <2> QED
    BY <2>1, <2>3, <2>5 DEF Beyond
<1> QED
  BY <1>1, <1>2, <1>3

\* The row operations of an event, one after the other.
Executing(a, s, e, ops) ==
  /\ a[0] = s /\ a[Len(ops)] = Executed(s, e)
  /\ \A i \in 1 .. Len(ops) : a[i] = DoRowOp(a[i - 1], ops[i], e)

\* The rows of an event are read and written one after the other.
LEMMA ExecutionRuns ==
  ASSUME NEW s \in Store, NEW e \in Event, NEW ops \in Seq(RowOp), ops = RowOps(e)
  PROVE  \E a \in [0 .. Len(ops) -> Beyond(s, e)] : Executing(a, s, e, ops)
<1> DEFINE F == [x \in Beyond(s, e) \X RowOp |-> DoRowOp(x[1], x[2], e)]
           D == DOMAIN ops
<1>0. D = 1 .. Len(ops) /\ Len(ops) \in Nat /\ \A i \in 1 .. Len(ops) : ops[i] \in RowOp
  OBVIOUS
<1>1. ASSUME NEW t \in Beyond(s, e), NEW o \in RowOp PROVE (DoRowOp(t, o, e)) \in Beyond(s, e)
  BY <1>1, DoRowOpKeeps
<1>2. \A t \in Beyond(s, e), o \in RowOp : F[<<t, o>>] = DoRowOp(t, o, e)
  OBVIOUS
<1>3. \A t \in Beyond(s, e), o \in RowOp : F[<<t, o>>] \in Beyond(s, e)
  <2> HIDE DEF F
  <2> QED
    BY <1>1, <1>2
<1>4. s \in Beyond(s, e)
  BY DEF Beyond, Store
<1>5. PICK h : Steps(F, s, ops, h)
  BY FoldExists
<1>6. \A S \in SUBSET D : h[S] \in Beyond(s, e)
  <2> HIDE DEF F
  <2> QED
    BY <1>3, <1>4, <1>5, FoldStays, Zenon
<1>7. h = [S \in SUBSET D |->
                        IF S = {} THEN s ELSE DoRowOp(h[S \ {Max(S)}], ops[Max(S)], e)]
  <2>1. ASSUME NEW S \in SUBSET D, S # {}
        PROVE  F[<<h[S \ {Max(S)}], ops[Max(S)]>>] =
                 DoRowOp(h[S \ {Max(S)}], ops[Max(S)], e)
    <3>1. Max(S) \in S
      BY <1>0, <2>1, MaxIsGreatest
    <3>2. h[S \ {Max(S)}] \in Beyond(s, e) /\ ops[Max(S)] \in RowOp
      BY <1>0, <1>6, <3>1
    <3> HIDE DEF F
    <3> QED
      BY <1>2, <3>2
  <2> HIDE DEF F
  <2> QED
    BY <1>5, <2>1, Zenon DEF Steps
<1>8. PICK g : /\ g = [S \in SUBSET D |->
                        IF S = {} THEN s ELSE DoRowOp(g[S \ {Max(S)}], ops[Max(S)], e)]
               /\ Executed(s, e) = g[D]
  <2> HIDE DEF F
  <2>1. Executed(s, e) = FoldLeft(LAMBDA acc, o : DoRowOp(acc, o, e), s, ops)
    BY DEF Executed
  <2> QED
    BY <1>7, <2>1 DEF FoldLeft, MapThenFoldSet
<1> DEFINE a == [i \in 0 .. Len(ops) |-> g[1 .. i]]
<1>9. a[0] = s
  <2>1. 1 .. 0 = {} /\ {} \in SUBSET D
    OBVIOUS
  <2>2. g[{}] = s
    BY <1>8, <2>1, Zenon
  <2> QED
    BY <2>1, <2>2
<1>10. ASSUME NEW i \in 1 .. Len(ops) PROVE a[i] = DoRowOp(a[i - 1], ops[i], e)
  <2>1. /\ 1 .. i \in SUBSET D /\ 1 .. i # {} /\ Max(1 .. i) = i
        /\ (1 .. i) \ {i} = 1 .. i - 1
    BY <1>0, Segments
  <2>2. g[1 .. i] = DoRowOp(g[1 .. i - 1], ops[i], e)
    BY <1>8, <2>1, Zenon
  <2>3. i - 1 \in 0 .. Len(ops) /\ i \in 0 .. Len(ops)
    OBVIOUS
  <2> QED
    BY <2>2, <2>3, Zenon
<1>11. \A i \in 0 .. Len(ops) : a[i] \in Beyond(s, e)
  <2> DEFINE A == {i \in 0 .. Len(ops) : a[i] \in Beyond(s, e)}
  <2>1. 0 \in A
    <3>1. 0 \in 0 .. Len(ops)
      OBVIOUS
    <3> QED
      BY <1>4, <1>9, <3>1, Zenon
  <2>2. ASSUME NEW i \in 0 .. Len(ops) - 1, i \in A PROVE i + 1 \in A
    <3>1. /\ i + 1 \in 1 .. Len(ops) /\ (i + 1) - 1 = i /\ i + 1 \in 0 .. Len(ops)
          /\ a[i] \in Beyond(s, e) /\ ops[i + 1] \in RowOp
      BY <1>0, <2>2
    <3> HIDE DEF a
    <3>2. a[i + 1] = DoRowOp(a[i], ops[i + 1], e)
      BY <1>10, <3>1
    <3>3. a[i + 1] \in Beyond(s, e)
      BY <1>1, <3>1, <3>2
    <3> QED
      BY <3>1, <3>3
  <2> HIDE DEF A
  <2>3. \A i \in 0 .. Len(ops) : i \in A
    BY <1>0, <2>1, <2>2, UpTo, Zenon
  <2> QED
    BY <2>3 DEF A
<1>12. a \in [0 .. Len(ops) -> Beyond(s, e)]
  BY <1>11
<1>13. a[Len(ops)] = Executed(s, e)
  BY <1>0, <1>8
<1> HIDE DEF a
<1> QED
  BY <1>9, <1>10, <1>12, <1>13 DEF Executing


\* The result of processEventCoreWithSeq: the event is known, or it is appended to the log.
LEMMA CoreEffect ==
  ASSUME NEW s \in Store, NEW x \in Planned
  PROVE  LET r == processEventCoreWithSeq(s, x)
         IN  /\ r \in Store /\ r.seq = s.seq
             /\ Known(s, x.ev) => r = s
             /\ ~Known(s, x.ev) => /\ r.log = Append(s.log, x)
                                   /\ r.idem = s.idem \union {x.ev.id}
                                   /\ s.helix \subseteq r.helix
                                   /\ r.helix \subseteq s.helix \union
                                        (IF x.ev.op = "INS" THEN {x.ev.on} ELSE {})
<1> DEFINE e == x.ev
           u == WithEdges(Logged(s, x), e)
           r == processEventCoreWithSeq(s, x)
<1>1. e \in Event /\ e.on \in Targets /\ e.id \in Nat /\ e.to \in SUBSET Targets
  BY DEF Planned, Event
<1>2. CASE Known(s, e)
  BY <1>2 DEF processEventCoreWithSeq
<1>3. CASE ~Known(s, e)
  <2>1. r = Executed(u, e)
    BY <1>3, Zenon DEF processEventCoreWithSeq
  <2>2. /\ u \in Store /\ u.log = Append(s.log, x) /\ u.idem = s.idem \union {e.id}
        /\ u.seq = s.seq /\ u.helix = s.helix
    <3>1. s.log \in Seq(Planned) /\ Append(s.log, x) \in Seq(Planned)
      BY DEF Store
    <3> DEFINE log == Append(s.log, x)
               edges == s.edges \union ({e.on} \X e.to)
    <3>2. edges \in SUBSET (Targets \X Targets)
      <4>1. s.edges \in SUBSET (Targets \X Targets)
        BY DEF Store
      <4>2. {e.on} \X e.to \in SUBSET (Targets \X Targets)
        BY <1>1
      <4> QED
        BY <4>1, <4>2
    <3>3. u = [s EXCEPT !.log = log, !.idem = @ \union {e.id}, !.edges = edges]
      BY DEF WithEdges, Logged, Store
    <3>4. log \in Seq(Planned)
      BY <3>1
    <3> HIDE DEF log, edges, u
    <3>5. u \in Store
      BY <1>1, <3>2, <3>3, <3>4 DEF Store
    <3>6. u.log = log /\ u.idem = s.idem \union {e.id} /\ u.seq = s.seq /\ u.helix = s.helix
      BY <3>3 DEF Store
    <3> QED
      BY <3>5, <3>6 DEF log
  <2> HIDE DEF u
  <2>3. Executed(u, e) \in Beyond(u, e)
    <3> DEFINE ops == RowOps(e)
    <3>1. ops \in Seq(RowOp)
      BY <1>1, RowOpsType
    <3> HIDE DEF ops
    <3>2. PICK a \in [0 .. Len(ops) -> Beyond(u, e)] : Executing(a, u, e, ops)
      BY <1>1, <2>2, <3>1, ExecutionRuns DEF ops
    <3>3. a[Len(ops)] = Executed(u, e) /\ Len(ops) \in 0 .. Len(ops)
      BY <3>1, <3>2 DEF Executing
    <3> QED
      BY <3>2, <3>3
  <2> QED
    BY <1>3, <2>1, <2>2, <2>3 DEF Beyond
<1> QED
  BY <1>2, <1>3

-----------------------------------------------------------------------------
(* What a log holds. *)

Synthetics == {SyntheticINS(t) : t \in Targets}
Usable     == Given \union Synthetics

HasINS(P, t)       == \E y \in P : y.ev.op = "INS" /\ y.ev.on = t
INSBefore(P, t, n) == \E y \in P : y.ev.op = "INS" /\ y.ev.on = t /\ y.seq < n

\* A store whose log is in order: an operator behind the INS of its target; and whose ids
\* and helix positions come from the log.
LogOrdered(s) ==
  \A x \in ToSet(s.log) :
    /\ x.ev \in Usable /\ x.seq <= s.seq
    /\ x.ev.op \in NeedsINS => INSBefore(ToSet(s.log), x.ev.on, x.seq)
IdsLogged(s)   == \A i \in s.idem : i # 0 => \E x \in ToSet(s.log) : x.ev.id = i
HelixLogged(s) == \A t \in s.helix : HasINS(ToSet(s.log), t)
Sound(s)       == LogOrdered(s) /\ IdsLogged(s) /\ HelixLogged(s)

LEMMA EventsInUse ==
  /\ Given \subseteq Event /\ Usable \subseteq Event
  /\ \A t \in Targets : LET e == SyntheticINS(t)
                        IN  e \in Usable /\ e.op = "INS" /\ e.on = t /\ e.id = 0
  /\ \A e \in Usable, f \in Usable : e.id # 0 /\ f.id = e.id => f = e
<1>1. Given \subseteq Event
  <2>1. \A b \in Imports : b \in Seq(Event) /\ ToSet(b) \in SUBSET Event
    BY BulkAssumption, ElementsOf
  <2> QED
    BY <2>1, BulkAssumption DEF Given
<1>2. \A t \in Targets : LET e == SyntheticINS(t)
                         IN  e \in Event /\ e.op = "INS" /\ e.on = t /\ e.id = 0
  BY DEF SyntheticINS, Event, Ops
<1>3. \A e \in Synthetics : e \in Event /\ e.id = 0
  BY <1>2 DEF Synthetics
<1>4. \A e \in Usable, f \in Usable : e.id # 0 /\ f.id = e.id => f = e
  BY <1>3, IdsAssumption DEF Usable
<1> QED
  BY <1>1, <1>2, <1>3, <1>4 DEF Usable, Synthetics

\* An event whose id is known is in the log of a sound store.
LEMMA KnownIsLogged ==
  ASSUME NEW s \in Store, Sound(s), NEW e \in Usable, Known(s, e)
  PROVE  \E y \in ToSet(s.log) : y.ev = e
<1>1. e.id # 0 /\ e.id \in s.idem
  BY DEF Known
<1>2. PICK y \in ToSet(s.log) : y.ev.id = e.id
  BY <1>1 DEF Sound, IdsLogged
<1>3. y.ev \in Usable
  BY DEF Sound, LogOrdered
<1> QED
  BY <1>1, <1>2, <1>3, EventsInUse

\* An event with a seq of its own, brought in order, leaves the log in order.
LEMMA CoreIsSound ==
  ASSUME NEW s \in Store, Sound(s), NEW x \in Planned, x.ev \in Usable, x.seq <= s.seq,
         x.ev.op \in NeedsINS => INSBefore(ToSet(s.log), x.ev.on, x.seq)
  PROVE  LET r == processEventCoreWithSeq(s, x)
         IN  /\ r \in Store /\ Sound(r) /\ r.seq = s.seq
             /\ ToSet(s.log) \subseteq ToSet(r.log)
             /\ \E y \in ToSet(r.log) : y.ev = x.ev
<1> DEFINE r == processEventCoreWithSeq(s, x)
<1>1. CASE Known(s, x.ev)
  <2>1. r = s
    BY <1>1, CoreEffect
  <2>2. \E y \in ToSet(s.log) : y.ev = x.ev
    BY <1>1, KnownIsLogged
  <2> QED
    BY <2>1, <2>2
<1>2. CASE ~Known(s, x.ev)
  <2>1. /\ r \in Store /\ r.seq = s.seq /\ r.log = Append(s.log, x)
        /\ r.idem = s.idem \union {x.ev.id}
        /\ r.helix \subseteq s.helix \union (IF x.ev.op = "INS" THEN {x.ev.on} ELSE {})
    BY <1>2, CoreEffect
  <2>2. ToSet(r.log) = ToSet(s.log) \union {x}
    <3>1. s.log \in Seq(Planned)
      BY DEF Store
    <3> QED
      BY <2>1, <3>1, Appended
  <2> HIDE DEF r
  <2>3. LogOrdered(r)
    BY <2>1, <2>2 DEF Sound, LogOrdered, INSBefore
  <2>4. IdsLogged(r)
    BY <2>1, <2>2 DEF Sound, IdsLogged
  <2>5. HelixLogged(r)
    BY <2>1, <2>2 DEF Sound, HelixLogged, HasINS
  <2> QED
    BY <2>1, <2>2, <2>3, <2>4, <2>5 DEF Sound, r
<1> QED
  BY <1>1, <1>2

-----------------------------------------------------------------------------
(* The serial fold. *)

\* Sequenced takes the next seq, above all in the log.
LEMMA SequencedIsSound ==
  ASSUME NEW s \in Store, Sound(s), NEW e \in Usable,
         e.op \in NeedsINS => HasINS(ToSet(s.log), e.on)
  PROVE  /\ Sequenced(s, e) \in Store /\ Sound(Sequenced(s, e))
         /\ ToSet(s.log) \subseteq ToSet(Sequenced(s, e).log)
         /\ e.op = "INS" => HasINS(ToSet(Sequenced(s, e).log), e.on)
<1> DEFINE u == [s EXCEPT !.seq = @ + 1]
           x == [seq |-> s.seq + 1, ev |-> e]
<1>1. s.seq \in Nat /\ s.log \in Seq(Planned) /\ ToSet(s.log) \in SUBSET Planned
  <2>1. s.seq \in Nat /\ s.log \in Seq(Planned)
    BY DEF Store
  <2> QED
    BY <2>1, ElementsOf
<1>2. /\ u \in Store /\ u.log = s.log /\ u.seq = s.seq + 1 /\ u.idem = s.idem
      /\ u.helix = s.helix
  <2> DEFINE n == s.seq + 1
  <2>1. n \in Nat
    BY <1>1
  <2> HIDE DEF n
  <2>2. u = [s EXCEPT !.seq = n]
    BY DEF n
  <2>3. /\ u \in Store /\ u.log = s.log /\ u.seq = n /\ u.idem = s.idem
        /\ u.helix = s.helix
    BY <2>1, <2>2 DEF Store
  <2> QED
    BY <2>3 DEF n
<1>3. x \in Planned /\ x.ev = e /\ x.seq = s.seq + 1
  BY <1>1, EventsInUse DEF Planned
<1>4. \A y \in ToSet(s.log) : y.seq \in Nat /\ y.seq < s.seq + 1
  BY <1>1 DEF Sound, LogOrdered, Planned
<1> HIDE DEF u, x
<1>5. Sound(u)
  <2>1. LogOrdered(u)
    BY <1>1, <1>2, <1>4 DEF Sound, LogOrdered
  <2> QED
    BY <1>2, <2>1 DEF Sound, IdsLogged, HelixLogged
<1>6. e.op \in NeedsINS => INSBefore(ToSet(u.log), e.on, s.seq + 1)
  BY <1>2, <1>4 DEF HasINS, INSBefore
<1>7. Sequenced(s, e) = processEventCoreWithSeq(u, x)
  BY Zenon DEF Sequenced, u, x
<1>8. x.seq <= u.seq
  BY <1>1, <1>2, <1>3
<1>9. LET r == processEventCoreWithSeq(u, x)
      IN  /\ r \in Store /\ Sound(r) /\ ToSet(u.log) \subseteq ToSet(r.log)
          /\ \E y \in ToSet(r.log) : y.ev = e
  BY <1>2, <1>3, <1>5, <1>6, <1>8, CoreIsSound
<1> QED
  BY <1>2, <1>7, <1>9 DEF HasINS

\* The events of a promotion, one after the other.
Sequencing(a, s, evs) ==
  /\ a[0] = s /\ a[Len(evs)] = FoldLeft(Sequenced, s, evs)
  /\ \A i \in 1 .. Len(evs) : a[i] = Sequenced(a[i - 1], evs[i])

\* The events of a serial fold are given their seqs and folded one after the other.
LEMMA SerialRuns ==
  ASSUME NEW s \in Store, NEW evs \in Seq(Event)
  PROVE  \E a \in [0 .. Len(evs) -> Store] : Sequencing(a, s, evs)
<1> DEFINE F == [x \in Store \X Event |-> Sequenced(x[1], x[2])]
           D == DOMAIN evs
<1>0. D = 1 .. Len(evs) /\ Len(evs) \in Nat /\ \A i \in 1 .. Len(evs) : evs[i] \in Event
  OBVIOUS
<1>1. ASSUME NEW t \in Store, NEW e \in Event PROVE (Sequenced(t, e)) \in Store
  <2>1. t.seq \in Nat /\ t.seq + 1 \in Nat /\ t.log \in Seq(Planned)
    BY DEF Store
  <2> DEFINE m == t.seq + 1
  <2>2. [t EXCEPT !.seq = @ + 1] \in Store
    <3>1. [t EXCEPT !.seq = @ + 1] = [t EXCEPT !.seq = m]
      BY DEF Store
    <3>2. m \in Nat
      BY <2>1
    <3> HIDE DEF m
    <3>3. [t EXCEPT !.seq = m] \in Store
      BY <3>2 DEF Store
    <3> QED
      BY <3>1, <3>3
  <2>3. [seq |-> t.seq + 1, ev |-> e] \in Planned
    BY <2>1 DEF Planned
  <2> QED
    BY <2>2, <2>3, CoreEffect DEF Sequenced
<1>2. \A t \in Store, e \in Event : F[<<t, e>>] = Sequenced(t, e)
  OBVIOUS
<1>3. \A t \in Store, e \in Event : F[<<t, e>>] \in Store
  <2> HIDE DEF F
  <2> QED
    BY <1>1, <1>2
<1>4. s \in Store
  OBVIOUS
<1>5. PICK h : Steps(F, s, evs, h)
  BY FoldExists
<1>6. \A S \in SUBSET D : h[S] \in Store
  <2> HIDE DEF F
  <2> QED
    BY <1>3, <1>4, <1>5, FoldStays, Zenon
<1>7. h = [S \in SUBSET D |->
                        IF S = {} THEN s ELSE Sequenced(h[S \ {Max(S)}], evs[Max(S)])]
  <2>1. ASSUME NEW S \in SUBSET D, S # {}
        PROVE  F[<<h[S \ {Max(S)}], evs[Max(S)]>>] =
                 Sequenced(h[S \ {Max(S)}], evs[Max(S)])
    <3>1. Max(S) \in S
      BY <1>0, <2>1, MaxIsGreatest
    <3>2. h[S \ {Max(S)}] \in Store /\ evs[Max(S)] \in Event
      BY <1>0, <1>6, <3>1
    <3> HIDE DEF F
    <3> QED
      BY <1>2, <3>2
  <2> HIDE DEF F
  <2> QED
    BY <1>5, <2>1, Zenon DEF Steps
<1>8. PICK g : /\ g = [S \in SUBSET D |->
                        IF S = {} THEN s ELSE Sequenced(g[S \ {Max(S)}], evs[Max(S)])]
               /\ FoldLeft(Sequenced, s, evs) = g[D]
  <2> HIDE DEF F
  <2> QED
    BY <1>7 DEF FoldLeft, MapThenFoldSet
<1> DEFINE a == [i \in 0 .. Len(evs) |-> g[1 .. i]]
<1>9. a[0] = s
  <2>1. 1 .. 0 = {} /\ {} \in SUBSET D
    OBVIOUS
  <2>2. g[{}] = s
    BY <1>8, <2>1, Zenon
  <2> QED
    BY <2>1, <2>2
<1>10. ASSUME NEW i \in 1 .. Len(evs) PROVE a[i] = Sequenced(a[i - 1], evs[i])
  <2>1. /\ 1 .. i \in SUBSET D /\ 1 .. i # {} /\ Max(1 .. i) = i
        /\ (1 .. i) \ {i} = 1 .. i - 1
    BY <1>0, Segments
  <2>2. g[1 .. i] = Sequenced(g[1 .. i - 1], evs[i])
    BY <1>8, <2>1, Zenon
  <2>3. i - 1 \in 0 .. Len(evs) /\ i \in 0 .. Len(evs)
    OBVIOUS
  <2> QED
    BY <2>2, <2>3, Zenon
<1>11. \A i \in 0 .. Len(evs) : a[i] \in Store
  <2> DEFINE A == {i \in 0 .. Len(evs) : a[i] \in Store}
  <2>1. 0 \in A
    <3>1. 0 \in 0 .. Len(evs)
      OBVIOUS
    <3> QED
      BY <1>4, <1>9, <3>1, Zenon
  <2>2. ASSUME NEW i \in 0 .. Len(evs) - 1, i \in A PROVE i + 1 \in A
    <3>1. /\ i + 1 \in 1 .. Len(evs) /\ (i + 1) - 1 = i /\ i + 1 \in 0 .. Len(evs)
          /\ a[i] \in Store /\ evs[i + 1] \in Event
      BY <1>0, <2>2
    <3> HIDE DEF a
    <3>2. a[i + 1] = Sequenced(a[i], evs[i + 1])
      BY <1>10, <3>1
    <3>3. a[i + 1] \in Store
      BY <1>1, <3>1, <3>2
    <3> QED
      BY <3>1, <3>3
  <2> HIDE DEF A
  <2>3. \A i \in 0 .. Len(evs) : i \in A
    BY <1>0, <2>1, <2>2, UpTo, Zenon
  <2> QED
    BY <2>3 DEF A
<1>12. a \in [0 .. Len(evs) -> Store]
  BY <1>11
<1>13. a[Len(evs)] = FoldLeft(Sequenced, s, evs)
  BY <1>0, <1>8
<1> HIDE DEF a
<1> QED
  BY <1>9, <1>10, <1>12, <1>13 DEF Sequencing


\* Missing enumerates the targets without an INS.
LEMMA MissingTargets ==
  ASSUME NEW e \in Event, NEW have \in SUBSET Targets
  PROVE  LET ts == Missing(e, have)
         IN  /\ ts \in Seq(Targets)
             /\ ToSet(ts) = IF e.op \in NeedsINS THEN ({e.on} \union e.to) \ have ELSE {}
             /\ INSsOf(ts) \in Seq(Usable) /\ Len(INSsOf(ts)) = Len(ts)
             /\ \A i \in 1 .. Len(ts) : INSsOf(ts)[i] = SyntheticINS(ts[i])
             /\ ToSet(INSsOf(ts)) = {SyntheticINS(t) : t \in ToSet(ts)}
<1> DEFINE S  == IF e.op \in NeedsINS THEN ({e.on} \union e.to) \ have ELSE {}
           ts == Missing(e, have)
<1>1. S \in SUBSET Targets
  BY DEF Event
<1>2. ts \in Seq(Targets) /\ ToSet(ts) = S
  <2> HIDE DEF S
  <2>1. SetToSeq(S) \in Seq(Targets) /\ ToSet(SetToSeq(S)) = S
    BY <1>1, TargetsInSequence
  <2> QED
    BY <2>1 DEF Missing, S
<1> HIDE DEF ts, S
<1>3. Len(ts) \in Nat /\ \A i \in 1 .. Len(ts) : ts[i] \in Targets
  BY <1>2
<1>4. \A i \in 1 .. Len(ts) : SyntheticINS(ts[i]) \in Usable
  BY <1>3, EventsInUse
<1>5. INSsOf(ts) = [i \in 1 .. Len(ts) |-> SyntheticINS(ts[i])]
  BY Zenon DEF INSsOf
<1>6. INSsOf(ts) \in Seq(Usable) /\ Len(INSsOf(ts)) = Len(ts)
  BY <1>3, <1>4, <1>5
<1>7. ToSet(INSsOf(ts)) = {SyntheticINS(ts[i]) : i \in 1 .. Len(ts)}
  BY <1>5, Zenon DEF ToSet
<1>8. ToSet(ts) = {ts[i] : i \in 1 .. Len(ts)}
  BY <1>2, ElementsOf
<1>9. ToSet(INSsOf(ts)) = {SyntheticINS(t) : t \in ToSet(ts)}
  BY <1>7, <1>8
<1> QED
  BY <1>2, <1>5, <1>6, <1>9 DEF ts, S

\* processEvent: the promotions first, then the event.
LEMMA SerialIsSound ==
  ASSUME NEW s \in Store, Sound(s), NEW e \in Usable
  PROVE  processEvent(s, e) \in Store /\ Sound(processEvent(s, e))
<1>1. CASE Known(s, e)
  BY <1>1 DEF processEvent
<1>2. CASE ~Known(s, e)
  <2> DEFINE ts  == Missing(e, s.helix)
             evs == INSsOf(ts) \o <<e>>
             n   == Len(ts)
  <2>1. /\ ts \in Seq(Targets)
        /\ ToSet(ts) = IF e.op \in NeedsINS THEN ({e.on} \union e.to) \ s.helix ELSE {}
        /\ INSsOf(ts) \in Seq(Usable) /\ Len(INSsOf(ts)) = n
        /\ \A i \in 1 .. n : INSsOf(ts)[i] = SyntheticINS(ts[i])
    <3>1. e \in Event /\ s.helix \in SUBSET Targets
      BY EventsInUse DEF Store
    <3> QED
      BY <3>1, MissingTargets
  <2> HIDE DEF ts
  <2>2. /\ evs \in Seq(Event) /\ Len(evs) = n + 1 /\ n \in Nat /\ evs[n + 1] = e
        /\ \A i \in 1 .. n : evs[i] = SyntheticINS(ts[i]) /\ ts[i] \in Targets
    <3>1. INSsOf(ts) \in Seq(Event) /\ <<e>> \in Seq(Event)
      BY <2>1, EventsInUse
    <3> QED
      BY <2>1, <3>1
  <2>3. processEvent(s, e) = FoldLeft(Sequenced, s, evs)
    BY <1>2, Zenon DEF processEvent, ts
  <2> HIDE DEF evs, n
  <2>4. PICK a \in [0 .. Len(evs) -> Store] : Sequencing(a, s, evs)
    BY <2>2, SerialRuns
  <2>5. /\ a[0] = s /\ a[Len(evs)] = FoldLeft(Sequenced, s, evs)
        /\ \A i \in 1 .. Len(evs) : a[i] = Sequenced(a[i - 1], evs[i])
    BY <2>4 DEF Sequencing
  <2> DEFINE A == {i \in 0 .. n : /\ a[i] \in Store /\ Sound(a[i])
                                  /\ ToSet(s.log) \subseteq ToSet(a[i].log)
                                  /\ \A j \in 1 .. i : HasINS(ToSet(a[i].log), ts[j])}
  <2>6. 0 \in A
    BY <2>2, <2>5
  <2>7. ASSUME NEW i \in 0 .. n - 1, i \in A PROVE i + 1 \in A
    <3>1. /\ i + 1 \in 1 .. n /\ i + 1 \in 1 .. Len(evs) /\ (i + 1) - 1 = i
          /\ \A j \in 1 .. i + 1 : j \in 1 .. i \/ j = i + 1
      BY <2>2
    <3>2. a[i + 1] = Sequenced(a[i], SyntheticINS(ts[i + 1])) /\ ts[i + 1] \in Targets
      BY <2>2, <2>5, <3>1
    <3>3. /\ SyntheticINS(ts[i + 1]) \in Usable /\ SyntheticINS(ts[i + 1]).op = "INS"
          /\ SyntheticINS(ts[i + 1]).on = ts[i + 1]
      BY <3>2, EventsInUse
    <3>4. "INS" \notin NeedsINS
      BY DEF NeedsINS
    <3>5. /\ a[i + 1] \in Store /\ Sound(a[i + 1]) /\ ToSet(a[i].log) \subseteq ToSet(a[i + 1].log)
          /\ HasINS(ToSet(a[i + 1].log), ts[i + 1])
      BY <2>7, <3>2, <3>3, <3>4, SequencedIsSound
    <3>6. \A j \in 1 .. i : HasINS(ToSet(a[i + 1].log), ts[j])
      BY <2>7, <3>5 DEF HasINS
    <3>7. \A j \in 1 .. i + 1 : HasINS(ToSet(a[i + 1].log), ts[j])
      BY <3>1, <3>5, <3>6
    <3>8. ToSet(s.log) \subseteq ToSet(a[i + 1].log) /\ i + 1 \in 0 .. n
      BY <2>7, <3>1, <3>5
    <3> QED
      BY <3>5, <3>7, <3>8
  <2>8. n \in A
    <3> HIDE DEF A
    <3> QED
      BY <2>2, <2>6, <2>7, AtTheEnd, Zenon
  <2>9. e.op \in NeedsINS => HasINS(ToSet(a[n].log), e.on)
    <3>1. SUFFICES ASSUME e.op \in NeedsINS PROVE HasINS(ToSet(a[n].log), e.on)
      OBVIOUS
    <3>2. CASE e.on \in s.helix
      <4>1. HasINS(ToSet(s.log), e.on)
        BY <3>2 DEF Sound, HelixLogged
      <4> QED
        BY <2>8, <4>1 DEF HasINS
    <3>3. CASE e.on \notin s.helix
      <4>1. e.on \in ToSet(ts)
        BY <2>1, <3>1, <3>3
      <4>2. PICK j \in 1 .. n : e.on = ts[j]
        <5>1. ToSet(ts) = {ts[j] : j \in 1 .. Len(ts)}
          BY <2>1, ElementsOf
        <5> QED
          BY <4>1, <5>1 DEF n
      <4> QED
        BY <2>8, <4>2
    <3> QED
      BY <3>2, <3>3
  <2>10. a[n + 1] = Sequenced(a[n], e)
    <3>1. n + 1 \in 1 .. Len(evs) /\ (n + 1) - 1 = n
      BY <2>2
    <3> QED
      BY <2>2, <2>5, <3>1
  <2>11. a[n + 1] \in Store /\ Sound(a[n + 1])
    BY <2>8, <2>9, <2>10, SequencedIsSound
  <2> QED
    BY <2>2, <2>3, <2>5, <2>11
<1> QED
  BY <1>1, <1>2

-----------------------------------------------------------------------------
(* The pre-pass. *)

\* In a list of events, each operator has the INS of its target made before it, or needs none.
Prepared(out, have) ==
  \A i \in 1 .. Len(out) : out[i].op \in NeedsINS =>
    out[i].on \in have \/ \E j \in 1 .. i - 1 : out[j] = SyntheticINS(out[i].on)

\* Adding one event to a prepared wave.
LEMMA PreparedAppended ==
  ASSUME NEW out \in Seq(Usable), NEW have, Prepared(out, have), NEW e \in Usable,
         e.op \in NeedsINS => e.on \in have \/ SyntheticINS(e.on) \in ToSet(out)
  PROVE  Prepared(Append(out, e), have)
<1> DEFINE a == Append(out, e)
<1>1. Len(a) = Len(out) + 1 /\ Len(out) \in Nat /\ a[Len(out) + 1] = e /\ \A i \in 1 .. Len(out) : a[i] = out[i]
  OBVIOUS
<1>2. ToSet(out) = {out[i] : i \in 1 .. Len(out)}
  BY ElementsOf
<1> HIDE DEF a
<1>3. ASSUME NEW i \in 1 .. Len(a), a[i].op \in NeedsINS, a[i].on \notin have
      PROVE  \E j \in 1 .. i - 1 : a[j] = SyntheticINS(a[i].on)
  <2>1. CASE i \in 1 .. Len(out)
    <3>1. PICK j \in 1 .. i - 1 : out[j] = SyntheticINS(out[i].on)
      BY <1>1, <1>3, <2>1 DEF Prepared
    <3>2. j \in 1 .. Len(out)
      BY <1>1, <2>1
    <3> QED
      BY <1>1, <2>1, <3>1, <3>2
  <2>2. CASE i = Len(out) + 1
    <3>1. SyntheticINS(e.on) \in ToSet(out)
      BY <1>1, <1>3, <2>2
    <3>2. PICK j \in 1 .. Len(out) : out[j] = SyntheticINS(e.on)
      BY <1>2, <3>1
    <3>3. j \in 1 .. i - 1
      BY <1>1, <2>2
    <3> QED
      BY <1>1, <2>2, <3>2, <3>3
  <2> QED
    BY <1>1, <2>1, <2>2
<1>4. Prepared(a, have)
  BY <1>3 DEF Prepared
<1> QED
  BY <1>4 DEF a

LEMMA PreparedJoined ==
  ASSUME NEW out \in Seq(Usable), NEW have, Prepared(out, have), NEW ins \in Seq(Usable),
         \A e \in ToSet(ins) : e.op = "INS"
  PROVE  Prepared(out \o ins, have)
<1> DEFINE a == out \o ins
<1>1. /\ Len(a) = Len(out) + Len(ins) /\ Len(out) \in Nat /\ Len(ins) \in Nat
      /\ \A i \in 1 .. Len(out) : a[i] = out[i]
  OBVIOUS
<1>2. \A i \in 1 .. Len(ins) : a[Len(out) + i] = ins[i] /\ ins[i].op = "INS"
  <2>1. \A i \in 1 .. Len(ins) : ins[i] \in ToSet(ins)
    BY ElementsOf
  <2> QED
    BY <2>1
<1> HIDE DEF a
<1>3. ASSUME NEW i \in 1 .. Len(a), a[i].op \in NeedsINS, a[i].on \notin have
      PROVE  \E j \in 1 .. i - 1 : a[j] = SyntheticINS(a[i].on)
  <2>1. CASE i \in 1 .. Len(out)
    <3>1. PICK j \in 1 .. i - 1 : out[j] = SyntheticINS(out[i].on)
      BY <1>1, <1>3, <2>1 DEF Prepared
    <3>2. j \in 1 .. Len(out)
      BY <1>1, <2>1
    <3> QED
      BY <1>1, <2>1, <3>1, <3>2
  <2>2. CASE i \notin 1 .. Len(out)
    <3>1. i - Len(out) \in 1 .. Len(ins) /\ Len(out) + (i - Len(out)) = i
      BY <1>1, <2>2
    <3>2. a[i].op = "INS"
      BY <1>2, <3>1
    <3> QED
      BY <1>3, <3>2 DEF NeedsINS
  <2> QED
    BY <2>1, <2>2
<1>4. Prepared(a, have)
  BY <1>3 DEF Prepared
<1> QED
  BY <1>4 DEF a

\* The accumulators of the pre-pass over a wave.
Expansions(wave, have) ==
  {acc \in [out : Seq(Usable), insed : SUBSET Targets] :
     /\ \A t \in acc.insed : t \in have \/ \E e \in ToSet(acc.out) : e.op = "INS" /\ e.on = t
     /\ Prepared(acc.out, have)
     /\ (\A e \in ToSet(wave) : e.op # "INS") =>
          \A e \in ToSet(acc.out) : e.op = "INS" => e = SyntheticINS(e.on)}

\* One event of the pre-pass keeps the wave prepared.
LEMMA VisitKeeps ==
  ASSUME NEW wave \in Seq(Usable), Pure(wave), NEW have \in SUBSET Targets,
         NEW acc \in Expansions(wave, have), NEW e \in ToSet(wave)
  PROVE  Visit(acc, e) \in Expansions(wave, have)
<1> DEFINE ts  == Missing(e, acc.insed)
           ins == INSsOf(ts)
           mid == acc.out \o ins
           out == mid \o <<e>>
           new == acc.insed \union ToSet(ts) \union (IF e.op = "INS" THEN {e.on} ELSE {})
<1>1. /\ acc.out \in Seq(Usable) /\ acc.insed \in SUBSET Targets
      /\ \A t \in acc.insed : t \in have \/ \E f \in ToSet(acc.out) : f.op = "INS" /\ f.on = t
      /\ Prepared(acc.out, have)
      /\ (\A f \in ToSet(wave) : f.op # "INS") =>
           \A f \in ToSet(acc.out) : f.op = "INS" => f = SyntheticINS(f.on)
  BY DEF Expansions
<1>2. e \in Usable /\ e \in Event /\ e.on \in Targets
  <2>1. e \in Usable
    BY ElementsOf
  <2> QED
    BY <2>1, EventsInUse DEF Event
<1>3. /\ ts \in Seq(Targets) /\ ins \in Seq(Usable)
      /\ ToSet(ts) = IF e.op \in NeedsINS THEN ({e.on} \union e.to) \ acc.insed ELSE {}
      /\ ToSet(ins) = {SyntheticINS(t) : t \in ToSet(ts)}
  BY <1>1, <1>2, MissingTargets
<1>4. Visit(acc, e) = [out |-> out, insed |-> new]
  BY Zenon DEF Visit, Insed
<1>5. ToSet(ts) \in SUBSET Targets
  BY <1>3, ElementsOf
<1> HIDE DEF ts, ins
<1>6. \A f \in ToSet(ins) : f.op = "INS" /\ f = SyntheticINS(f.on)
  BY <1>3, <1>5, EventsInUse
<1>7. mid \in Seq(Usable) /\ ToSet(mid) = ToSet(acc.out) \union ToSet(ins)
  BY <1>1, <1>3, Joined
<1>8. Prepared(mid, have)
  BY <1>1, <1>3, <1>6, PreparedJoined
<1> HIDE DEF mid
<1>9. out = Append(mid, e)
  BY <1>2, <1>7
<1>10. out \in Seq(Usable) /\ ToSet(out) = ToSet(acc.out) \union ToSet(ins) \union {e}
  <2>1. Append(mid, e) \in Seq(Usable) /\ ToSet(Append(mid, e)) = ToSet(mid) \union {e}
    BY <1>2, <1>7, Appended
  <2> HIDE DEF out
  <2> QED
    BY <1>7, <1>9, <2>1
<1>11. Prepared(out, have)
  <2>1. SUFFICES ASSUME e.op \in NeedsINS, e.on \notin have
                 PROVE  SyntheticINS(e.on) \in ToSet(mid)
    BY <1>2, <1>7, <1>8, <1>9, PreparedAppended
  <2>2. e.op # "INS"
    BY <2>1 DEF NeedsINS
  <2>3. \A f \in ToSet(wave) : f.op # "INS"
    BY <2>2 DEF Pure
  <2>4. CASE e.on \in acc.insed
    BY <1>1, <1>7, <2>1, <2>3, <2>4
  <2>5. CASE e.on \notin acc.insed
    BY <1>3, <1>7, <2>1, <2>5
  <2> QED
    BY <2>4, <2>5
<1> HIDE DEF out
<1>12. ASSUME NEW t \in new PROVE t \in have \/ \E f \in ToSet(out) : f.op = "INS" /\ f.on = t
  <2>1. CASE t \in acc.insed
    BY <1>1, <1>10, <2>1
  <2>2. CASE t \in ToSet(ts)
    BY <1>3, <1>5, <1>10, <2>2, EventsInUse
  <2>3. CASE e.op = "INS" /\ t = e.on
    BY <1>10, <2>3
  <2> QED
    BY <2>1, <2>2, <2>3
<1>13. new \in SUBSET Targets
  BY <1>1, <1>2, <1>5
<1>14. (\A f \in ToSet(wave) : f.op # "INS") =>
         \A f \in ToSet(out) : f.op = "INS" => f = SyntheticINS(f.on)
  BY <1>1, <1>6, <1>10
<1> HIDE DEF new
<1> QED
  BY <1>4, <1>10, <1>11, <1>12, <1>13, <1>14 DEF Expansions

\* The pre-pass, event by event.
Visiting(a, wave, have) ==
  /\ a[0] = [out |-> << >>, insed |-> have] /\ a[Len(wave)] = Expanded(wave, have)
  /\ \A i \in 1 .. Len(wave) : a[i] = Visit(a[i - 1], wave[i])

\* The pre-pass, event by event.
LEMMA VisitRuns ==
  ASSUME NEW wave \in Seq(Usable), Pure(wave), NEW have \in SUBSET Targets
  PROVE  \E a \in [0 .. Len(wave) -> Expansions(wave, have)] : Visiting(a, wave, have)
<1> DEFINE F == [x \in Expansions(wave, have) \X ToSet(wave) |-> Visit(x[1], x[2])]
           D == DOMAIN wave
<1>0. D = 1 .. Len(wave) /\ Len(wave) \in Nat /\ \A i \in 1 .. Len(wave) : wave[i] \in ToSet(wave)
  BY ElementsOf
<1>1. ASSUME NEW t \in Expansions(wave, have), NEW e \in ToSet(wave) PROVE (Visit(t, e)) \in Expansions(wave, have)
  BY <1>1, VisitKeeps
<1>2. \A t \in Expansions(wave, have), e \in ToSet(wave) : F[<<t, e>>] = Visit(t, e)
  OBVIOUS
<1>3. \A t \in Expansions(wave, have), e \in ToSet(wave) : F[<<t, e>>] \in Expansions(wave, have)
  <2> HIDE DEF F
  <2> QED
    BY <1>1, <1>2
<1>4. [out |-> << >>, insed |-> have] \in Expansions(wave, have)
  <2>1. << >> \in Seq(Usable) /\ ToSet(<< >>) = {} /\ Prepared(<< >>, have)
    BY DEF ToSet, Prepared
  <2> QED
    BY <2>1 DEF Expansions
<1>a. wave \in Seq(ToSet(wave))
  BY <1>0
<1>5. PICK h : Steps(F, [out |-> << >>, insed |-> have], wave, h)
  BY FoldExists
<1>6. \A S \in SUBSET D : h[S] \in Expansions(wave, have)
  <2> HIDE DEF F
  <2> QED
    BY <1>3, <1>4, <1>5, <1>a, FoldStays, Zenon
<1>7. h = [S \in SUBSET D |->
                        IF S = {} THEN [out |-> << >>, insed |-> have] ELSE Visit(h[S \ {Max(S)}], wave[Max(S)])]
  <2>1. ASSUME NEW S \in SUBSET D, S # {}
        PROVE  F[<<h[S \ {Max(S)}], wave[Max(S)]>>] =
                 Visit(h[S \ {Max(S)}], wave[Max(S)])
    <3>1. Max(S) \in S
      BY <1>0, <2>1, MaxIsGreatest
    <3>2. h[S \ {Max(S)}] \in Expansions(wave, have) /\ wave[Max(S)] \in ToSet(wave)
      BY <1>0, <1>6, <3>1
    <3> HIDE DEF F
    <3> QED
      BY <1>2, <3>2
  <2> HIDE DEF F
  <2> QED
    BY <1>5, <2>1, Zenon DEF Steps
<1>8. PICK g : /\ g = [S \in SUBSET D |->
                        IF S = {} THEN [out |-> << >>, insed |-> have] ELSE Visit(g[S \ {Max(S)}], wave[Max(S)])]
               /\ Expanded(wave, have) = g[D]
  <2> HIDE DEF F
  <2> QED
    BY <1>7 DEF FoldLeft, MapThenFoldSet, Expanded
<1> DEFINE a == [i \in 0 .. Len(wave) |-> g[1 .. i]]
<1>9. a[0] = [out |-> << >>, insed |-> have]
  <2>1. 1 .. 0 = {} /\ {} \in SUBSET D
    OBVIOUS
  <2>2. g[{}] = [out |-> << >>, insed |-> have]
    BY <1>8, <2>1, Zenon
  <2> QED
    BY <2>1, <2>2
<1>10. ASSUME NEW i \in 1 .. Len(wave) PROVE a[i] = Visit(a[i - 1], wave[i])
  <2>1. /\ 1 .. i \in SUBSET D /\ 1 .. i # {} /\ Max(1 .. i) = i
        /\ (1 .. i) \ {i} = 1 .. i - 1
    BY <1>0, Segments
  <2>2. g[1 .. i] = Visit(g[1 .. i - 1], wave[i])
    BY <1>8, <2>1, Zenon
  <2>3. i - 1 \in 0 .. Len(wave) /\ i \in 0 .. Len(wave)
    OBVIOUS
  <2> QED
    BY <2>2, <2>3, Zenon
<1>11. \A i \in 0 .. Len(wave) : a[i] \in Expansions(wave, have)
  <2> DEFINE A == {i \in 0 .. Len(wave) : a[i] \in Expansions(wave, have)}
  <2>1. 0 \in A
    <3>1. 0 \in 0 .. Len(wave)
      OBVIOUS
    <3> QED
      BY <1>4, <1>9, <3>1, Zenon
  <2>2. ASSUME NEW i \in 0 .. Len(wave) - 1, i \in A PROVE i + 1 \in A
    <3>1. /\ i + 1 \in 1 .. Len(wave) /\ (i + 1) - 1 = i /\ i + 1 \in 0 .. Len(wave)
          /\ a[i] \in Expansions(wave, have) /\ wave[i + 1] \in ToSet(wave)
      BY <1>0, <2>2
    <3> HIDE DEF a
    <3>2. a[i + 1] = Visit(a[i], wave[i + 1])
      BY <1>10, <3>1
    <3>3. a[i + 1] \in Expansions(wave, have)
      BY <1>1, <3>1, <3>2
    <3> QED
      BY <3>1, <3>3
  <2> HIDE DEF A
  <2>3. \A i \in 0 .. Len(wave) : i \in A
    BY <1>0, <2>1, <2>2, UpTo, Zenon
  <2> QED
    BY <2>3 DEF A
<1>12. a \in [0 .. Len(wave) -> Expansions(wave, have)]
  BY <1>11
<1>13. a[Len(wave)] = Expanded(wave, have)
  BY <1>0, <1>8
<1> HIDE DEF a
<1> QED
  BY <1>9, <1>10, <1>12, <1>13 DEF Visiting


\* A wave leaves the pre-pass prepared.
LEMMA ExpandedWave ==
  ASSUME NEW wave \in Seq(Usable), Pure(wave), NEW have \in SUBSET Targets
  PROVE  Expanded(wave, have) \in Expansions(wave, have)
<1>1. PICK a \in [0 .. Len(wave) -> Expansions(wave, have)] : Visiting(a, wave, have)
  BY VisitRuns
<1>2. Len(wave) \in 0 .. Len(wave) /\ a[Len(wave)] = Expanded(wave, have)
  BY <1>1 DEF Visiting
<1> QED
  BY <1>1, <1>2

\* Reserved gives consecutive seqs, above all that were given.
LEMMA ReservedSeqs ==
  ASSUME NEW out \in Seq(Event), NEW seq \in Nat
  PROVE  LET p == Reserved(out, seq)
         IN  /\ p \in Seq(Planned) /\ Len(p) = Len(out) /\ Ascending(p)
             /\ \A i \in 1 .. Len(p) : p[i].seq = seq + i /\ p[i].ev = out[i]
<1> DEFINE p == Reserved(out, seq)
<1>1. p = [i \in 1 .. Len(out) |-> [seq |-> seq + i, ev |-> out[i]]]
  BY Zenon DEF Reserved
<1>2. Len(out) \in Nat /\ \A i \in 1 .. Len(out) : out[i] \in Event
  OBVIOUS
<1>3. \A i \in 1 .. Len(out) : [seq |-> seq + i, ev |-> out[i]] \in Planned
  BY <1>2 DEF Planned
<1>4. p \in Seq(Planned) /\ Len(p) = Len(out)
  BY <1>1, <1>2, <1>3
<1> HIDE DEF p
<1>5. \A i \in 1 .. Len(p) : p[i].seq = seq + i /\ p[i].ev = out[i]
  BY <1>1, <1>4
<1>6. Ascending(p)
  BY <1>2, <1>4, <1>5 DEF Ascending
<1> QED
  BY <1>4, <1>5, <1>6 DEF p

\* All events of some steps, and steps in the order of their seqs.
Rest(steps) == UNION {ToSet(steps[m]) : m \in 1 .. Len(steps)}
StepsSorted(steps) ==
  \A m \in 1 .. Len(steps) :
    /\ Ascending(steps[m])
    /\ \A l \in 1 .. Len(steps) : m < l =>
         \A x \in ToSet(steps[m]), y \in ToSet(steps[l]) : x.seq < y.seq

\* One event more keeps the steps in order and loses none.
LEMMA InStepKeeps ==
  ASSUME NEW st \in Seq(Seq(Planned)), StepsSorted(st), NEW x \in Planned,
         \A y \in Rest(st) : y.seq < x.seq
  PROVE  /\ InStep(st, x) \in Seq(Seq(Planned)) /\ StepsSorted(InStep(st, x))
         /\ Rest(InStep(st, x)) = Rest(st) \union {x}
<1> DEFINE n == Len(st)
           r == InStep(st, x)
<1>1. n \in Nat /\ \A m \in 1 .. n : st[m] \in Seq(Planned)
  OBVIOUS
<1>2. \A m \in 1 .. n : \A y \in ToSet(st[m]) : y.seq < x.seq
  BY DEF Rest
<1>3. CASE r = Append(st, <<x>>)
  <2>1. <<x>> \in Seq(Planned) /\ ToSet(<<x>>) = {x} /\ Ascending(<<x>>)
    BY DEF ToSet, Ascending
  <2>2. /\ r \in Seq(Seq(Planned)) /\ Len(r) = n + 1 /\ r[n + 1] = <<x>>
        /\ \A m \in 1 .. n : r[m] = st[m]
    <3> DEFINE u == <<x>>
    <3>1. u \in Seq(Planned)
      BY <2>1
    <3> HIDE DEF u
    <3>2. /\ Append(st, u) \in Seq(Seq(Planned)) /\ Len(Append(st, u)) = n + 1
          /\ Append(st, u)[n + 1] = u /\ \A m \in 1 .. n : Append(st, u)[m] = st[m]
      BY <3>1
    <3>3. r = Append(st, u)
      BY <1>3 DEF u
    <3> HIDE DEF r
    <3> QED
      BY <3>2, <3>3 DEF u
  <2> HIDE DEF r
  <2>3. Rest(r) = Rest(st) \union {x}
    <3>1. 1 .. n + 1 = (1 .. n) \union {n + 1}
      BY <1>1
    <3> QED
      BY <2>1, <2>2, <3>1 DEF Rest
  <2>4. StepsSorted(r)
    <3>1. ASSUME NEW m \in 1 .. n + 1 PROVE Ascending(r[m])
      <4>1. m \in 1 .. n \/ m = n + 1
        BY <1>1
      <4> QED
        BY <2>1, <2>2, <4>1 DEF StepsSorted
    <3>2. ASSUME NEW m \in 1 .. n + 1, NEW l \in 1 .. n + 1, m < l,
                 NEW y \in ToSet(r[m]), NEW z \in ToSet(r[l])
          PROVE  y.seq < z.seq
      <4>1. m \in 1 .. n /\ (l \in 1 .. n \/ l = n + 1)
        BY <1>1, <3>2
      <4>2. CASE l \in 1 .. n
        BY <2>2, <3>2, <4>1, <4>2 DEF StepsSorted
      <4>3. CASE l = n + 1
        BY <1>2, <2>1, <2>2, <4>1, <4>3
      <4> QED
        BY <4>1, <4>2, <4>3
    <3> QED
      BY <2>2, <3>1, <3>2 DEF StepsSorted
  <2> QED
    BY <2>2, <2>3, <2>4 DEF r
<1>4. CASE st # << >> /\ r = [st EXCEPT ![Len(st)] = Append(@, x)]
  <2> DEFINE last == Append(st[n], x)
  <2>1. n \in 1 .. n /\ st[n] \in Seq(Planned)
    BY <1>1, <1>4
  <2>2. last \in Seq(Planned) /\ ToSet(last) = ToSet(st[n]) \union {x}
    BY <2>1, Appended
  <2>3. Ascending(last)
    <3>1. Ascending(st[n]) /\ \A y \in ToSet(st[n]) : y.seq < x.seq
      BY <1>2, <2>1 DEF StepsSorted
    <3> QED
      BY <2>1, <3>1, AscendingAppended
  <2>4. r = [st EXCEPT ![n] = last]
    BY <1>4, <2>1, Zenon
  <2> HIDE DEF last, r
  <2>5. /\ r \in Seq(Seq(Planned)) /\ Len(r) = n /\ r[n] = last
        /\ \A m \in 1 .. n : m # n => r[m] = st[m]
    BY <2>1, <2>2, <2>4
  <2>6. \A m \in 1 .. n : m < n \/ m = n
    BY <1>1
  <2>7. Rest(r) = Rest(st) \union {x}
    <3>1. Rest(st) \subseteq Rest(r) /\ x \in Rest(r)
      BY <2>1, <2>2, <2>5 DEF Rest
    <3>2. Rest(r) \subseteq Rest(st) \union {x}
      BY <2>1, <2>2, <2>5 DEF Rest
    <3> QED
      BY <3>1, <3>2
  <2>8. StepsSorted(r)
    <3>1. ASSUME NEW m \in 1 .. n PROVE Ascending(r[m])
      BY <2>3, <2>5 DEF StepsSorted
    <3>2. ASSUME NEW m \in 1 .. n, NEW l \in 1 .. n, m < l,
                 NEW y \in ToSet(r[m]), NEW z \in ToSet(r[l])
          PROVE  y.seq < z.seq
      <4>1. m # n /\ y \in ToSet(st[m])
        BY <1>1, <2>5, <3>2
      <4>2. CASE l = n
        <5>1. z \in ToSet(st[n]) \/ z = x
          BY <2>2, <2>5, <4>2
        <5> QED
          BY <1>2, <2>1, <3>2, <4>1, <4>2, <5>1 DEF StepsSorted
      <4>3. CASE l # n
        BY <2>5, <3>2, <4>1, <4>3 DEF StepsSorted
      <4> QED
        BY <4>2, <4>3
    <3> QED
      BY <2>5, <3>1, <3>2 DEF StepsSorted
  <2> QED
    BY <2>5, <2>7, <2>8 DEF r
<1> QED
  BY <1>3, <1>4, Zenon DEF InStep

\* A wave is split event by event.
Splitting(a, wave) ==
  /\ a[0] = << >> /\ a[Len(wave)] = splitWaveIntoSteps(wave)
  /\ \A i \in 1 .. Len(wave) : a[i] = InStep(a[i - 1], wave[i])

\* splitWaveIntoSteps, event by event.
LEMMA SplitRuns ==
  ASSUME NEW wave \in Seq(Planned)
  PROVE  \E a \in [0 .. Len(wave) -> Seq(Seq(Planned))] : Splitting(a, wave)
<1> DEFINE F == [x \in Seq(Seq(Planned)) \X Planned |-> InStep(x[1], x[2])]
           D == DOMAIN wave
<1>0. D = 1 .. Len(wave) /\ Len(wave) \in Nat /\ \A i \in 1 .. Len(wave) : wave[i] \in Planned
  OBVIOUS
<1>1. ASSUME NEW t \in Seq(Seq(Planned)), NEW e \in Planned PROVE (InStep(t, e)) \in Seq(Seq(Planned))
  <2>1. Append(t, <<e>>) \in Seq(Seq(Planned))
    <3>1. <<e>> \in Seq(Planned)
      OBVIOUS
    <3> QED
      BY <3>1
  <2>2. ASSUME t # << >> PROVE [t EXCEPT ![Len(t)] = Append(@, e)] \in Seq(Seq(Planned))
    <3>1. Len(t) \in 1 .. Len(t) /\ t[Len(t)] \in Seq(Planned)
      BY <2>2
    <3> DEFINE u == Append(t[Len(t)], e)
    <3>2. u \in Seq(Planned)
      BY <3>1
    <3>3. [t EXCEPT ![Len(t)] = Append(@, e)] = [t EXCEPT ![Len(t)] = u]
      BY <3>1, Zenon
    <3> HIDE DEF u
    <3> QED
      BY <3>1, <3>2, <3>3
  <2> QED
    BY <2>1, <2>2, Zenon DEF InStep
<1>2. \A t \in Seq(Seq(Planned)), e \in Planned : F[<<t, e>>] = InStep(t, e)
  OBVIOUS
<1>3. \A t \in Seq(Seq(Planned)), e \in Planned : F[<<t, e>>] \in Seq(Seq(Planned))
  <2> HIDE DEF F
  <2> QED
    BY <1>1, <1>2
<1>4. << >> \in Seq(Seq(Planned))
  OBVIOUS
<1>5. PICK h : Steps(F, << >>, wave, h)
  BY FoldExists
<1>6. \A S \in SUBSET D : h[S] \in Seq(Seq(Planned))
  <2> HIDE DEF F
  <2> QED
    BY <1>3, <1>4, <1>5, FoldStays, Zenon
<1>7. h = [S \in SUBSET D |->
                        IF S = {} THEN << >> ELSE InStep(h[S \ {Max(S)}], wave[Max(S)])]
  <2>1. ASSUME NEW S \in SUBSET D, S # {}
        PROVE  F[<<h[S \ {Max(S)}], wave[Max(S)]>>] =
                 InStep(h[S \ {Max(S)}], wave[Max(S)])
    <3>1. Max(S) \in S
      BY <1>0, <2>1, MaxIsGreatest
    <3>2. h[S \ {Max(S)}] \in Seq(Seq(Planned)) /\ wave[Max(S)] \in Planned
      BY <1>0, <1>6, <3>1
    <3> HIDE DEF F
    <3> QED
      BY <1>2, <3>2
  <2> HIDE DEF F
  <2> QED
    BY <1>5, <2>1, Zenon DEF Steps
<1>8. PICK g : /\ g = [S \in SUBSET D |->
                        IF S = {} THEN << >> ELSE InStep(g[S \ {Max(S)}], wave[Max(S)])]
               /\ splitWaveIntoSteps(wave) = g[D]
  <2> HIDE DEF F
  <2> QED
    BY <1>7 DEF FoldLeft, MapThenFoldSet, splitWaveIntoSteps
<1> DEFINE a == [i \in 0 .. Len(wave) |-> g[1 .. i]]
<1>9. a[0] = << >>
  <2>1. 1 .. 0 = {} /\ {} \in SUBSET D
    OBVIOUS
  <2>2. g[{}] = << >>
    BY <1>8, <2>1, Zenon
  <2> QED
    BY <2>1, <2>2
<1>10. ASSUME NEW i \in 1 .. Len(wave) PROVE a[i] = InStep(a[i - 1], wave[i])
  <2>1. /\ 1 .. i \in SUBSET D /\ 1 .. i # {} /\ Max(1 .. i) = i
        /\ (1 .. i) \ {i} = 1 .. i - 1
    BY <1>0, Segments
  <2>2. g[1 .. i] = InStep(g[1 .. i - 1], wave[i])
    BY <1>8, <2>1, Zenon
  <2>3. i - 1 \in 0 .. Len(wave) /\ i \in 0 .. Len(wave)
    OBVIOUS
  <2> QED
    BY <2>2, <2>3, Zenon
<1>11. \A i \in 0 .. Len(wave) : a[i] \in Seq(Seq(Planned))
  <2> DEFINE A == {i \in 0 .. Len(wave) : a[i] \in Seq(Seq(Planned))}
  <2>1. 0 \in A
    <3>1. 0 \in 0 .. Len(wave)
      OBVIOUS
    <3> QED
      BY <1>4, <1>9, <3>1, Zenon
  <2>2. ASSUME NEW i \in 0 .. Len(wave) - 1, i \in A PROVE i + 1 \in A
    <3>1. /\ i + 1 \in 1 .. Len(wave) /\ (i + 1) - 1 = i /\ i + 1 \in 0 .. Len(wave)
          /\ a[i] \in Seq(Seq(Planned)) /\ wave[i + 1] \in Planned
      BY <1>0, <2>2
    <3> HIDE DEF a
    <3>2. a[i + 1] = InStep(a[i], wave[i + 1])
      BY <1>10, <3>1
    <3>3. a[i + 1] \in Seq(Seq(Planned))
      BY <1>1, <3>1, <3>2
    <3> QED
      BY <3>1, <3>3
  <2> HIDE DEF A
  <2>3. \A i \in 0 .. Len(wave) : i \in A
    BY <1>0, <2>1, <2>2, UpTo, Zenon
  <2> QED
    BY <2>3 DEF A
<1>12. a \in [0 .. Len(wave) -> Seq(Seq(Planned))]
  BY <1>11
<1>13. a[Len(wave)] = splitWaveIntoSteps(wave)
  BY <1>0, <1>8
<1> HIDE DEF a
<1> QED
  BY <1>9, <1>10, <1>12, <1>13 DEF Splitting


\* The steps of a wave come in seq order and hold all of it.
LEMMA StepsOfWave ==
  ASSUME NEW wave \in Seq(Planned), Ascending(wave)
  PROVE  LET st == splitWaveIntoSteps(wave)
         IN  st \in Seq(Seq(Planned)) /\ StepsSorted(st) /\ Rest(st) = ToSet(wave)
<1>1. PICK a \in [0 .. Len(wave) -> Seq(Seq(Planned))] : Splitting(a, wave)
  BY SplitRuns
<1>2. /\ a[0] = << >> /\ a[Len(wave)] = splitWaveIntoSteps(wave)
      /\ \A i \in 1 .. Len(wave) : a[i] = InStep(a[i - 1], wave[i])
  BY <1>1 DEF Splitting
<1> DEFINE A == {i \in 0 .. Len(wave) : /\ a[i] \in Seq(Seq(Planned)) /\ StepsSorted(a[i])
                                        /\ Rest(a[i]) = {wave[j] : j \in 1 .. i}}
<1>3. 0 \in A
  <2>1. << >> \in Seq(Seq(Planned)) /\ Len(<< >>) = 0 /\ 1 .. 0 = {}
    OBVIOUS
  <2>2. StepsSorted(<< >>) /\ Rest(<< >>) = {}
    BY <2>1, Zenon DEF Rest, StepsSorted
  <2> QED
    BY <1>2, <2>1, <2>2
<1>4. ASSUME NEW i \in 0 .. Len(wave) - 1, i \in A PROVE i + 1 \in A
  <2>1. i + 1 \in 1 .. Len(wave) /\ (i + 1) - 1 = i /\ i + 1 \in 0 .. Len(wave)
    OBVIOUS
  <2>2. wave[i + 1] \in Planned
    BY <2>1
  <2>3. \A y \in Rest(a[i]) : y.seq < wave[i + 1].seq
    <3>1. ASSUME NEW j \in 1 .. i PROVE wave[j].seq < wave[i + 1].seq
      <4>1. j \in 1 .. Len(wave) /\ j < i + 1
        OBVIOUS
      <4> QED
        BY <2>1, <4>1 DEF Ascending
    <3> QED
      BY <1>4, <3>1
  <2>4. {wave[j] : j \in 1 .. i + 1} = {wave[j] : j \in 1 .. i} \union {wave[i + 1]}
    <3>1. 1 .. i + 1 = (1 .. i) \union {i + 1}
      OBVIOUS
    <3> QED
      BY <3>1
  <2>5. a[i + 1] = InStep(a[i], wave[i + 1])
    BY <1>2, <2>1
  <2>6. /\ a[i + 1] \in Seq(Seq(Planned)) /\ StepsSorted(a[i + 1])
        /\ Rest(a[i + 1]) = Rest(a[i]) \union {wave[i + 1]}
    BY <1>4, <2>2, <2>3, <2>5, InStepKeeps
  <2>7. Rest(a[i + 1]) = {wave[j] : j \in 1 .. i + 1}
    BY <1>4, <2>4, <2>6
  <2> QED
    BY <2>1, <2>6, <2>7
<1>5. Len(wave) \in A
  <2> HIDE DEF A
  <2>1. Len(wave) \in Nat
    OBVIOUS
  <2> QED
    BY <1>3, <1>4, <2>1, AtTheEnd, Zenon
<1>6. ToSet(wave) = {wave[j] : j \in 1 .. Len(wave)}
  BY ElementsOf
<1> QED
  BY <1>2, <1>5, <1>6

\* What StartWave plans: every event with a seq above all before it, and each operator with
\* the INS of its target behind it or planned below it.
LEMMA PlannedWave ==
  ASSUME NEW wave \in Seq(Usable), Pure(wave), NEW have \in SUBSET Targets, NEW seq \in Nat
  PROVE  LET w  == Expanded(wave, have)
             st == splitWaveIntoSteps(Reserved(w.out, seq))
         IN  /\ w.insed \in SUBSET Targets /\ Len(w.out) \in Nat
             /\ st \in Seq(Seq(Planned)) /\ StepsSorted(st)
             /\ \A t \in w.insed : t \in have \/ HasINS(Rest(st), t)
             /\ \A x \in Rest(st) :
                  /\ x.ev \in Usable /\ seq < x.seq /\ x.seq <= seq + Len(w.out)
                  /\ x.ev.op \in NeedsINS =>
                       \/ x.ev.on \in have
                       \/ \E y \in Rest(st) : y.ev = SyntheticINS(x.ev.on) /\ y.seq < x.seq
<1> DEFINE w   == Expanded(wave, have)
           out == w.out
           p   == Reserved(out, seq)
           st  == splitWaveIntoSteps(p)
<1>1. /\ out \in Seq(Usable) /\ w.insed \in SUBSET Targets /\ Prepared(out, have)
      /\ \A t \in w.insed : t \in have \/ \E e \in ToSet(out) : e.op = "INS" /\ e.on = t
  BY ExpandedWave DEF Expansions
<1> HIDE DEF w, out
<1>2. Len(out) \in Nat /\ out \in Seq(Event) /\ \A i \in 1 .. Len(out) : out[i] \in Usable
  BY <1>1, EventsInUse
<1>3. /\ p \in Seq(Planned) /\ Len(p) = Len(out) /\ Ascending(p)
      /\ \A i \in 1 .. Len(p) : p[i].seq = seq + i /\ p[i].ev = out[i]
  BY <1>2, ReservedSeqs
<1> HIDE DEF p
<1>4. st \in Seq(Seq(Planned)) /\ StepsSorted(st) /\ Rest(st) = ToSet(p)
  BY <1>3, StepsOfWave
<1>5. ToSet(p) = {p[i] : i \in 1 .. Len(out)}
  BY <1>3, ElementsOf
<1> HIDE DEF st
<1>6. ASSUME NEW t \in w.insed PROVE t \in have \/ HasINS(Rest(st), t)
  <2>1. SUFFICES ASSUME NEW e \in ToSet(out), e.op = "INS", e.on = t PROVE HasINS(Rest(st), t)
    BY <1>1
  <2>2. PICK i \in 1 .. Len(out) : e = out[i]
    <3>1. ToSet(out) = {out[i] : i \in 1 .. Len(out)}
      BY <1>2, ElementsOf
    <3> QED
      BY <3>1
  <2>3. p[i] \in Rest(st) /\ p[i].ev = e
    BY <1>3, <1>4, <1>5, <2>2
  <2> QED
    BY <2>1, <2>3 DEF HasINS
<1>7. ASSUME NEW x \in Rest(st)
      PROVE  /\ x.ev \in Usable /\ seq < x.seq /\ x.seq <= seq + Len(out)
             /\ x.ev.op \in NeedsINS =>
                  \/ x.ev.on \in have
                  \/ \E y \in Rest(st) : y.ev = SyntheticINS(x.ev.on) /\ y.seq < x.seq
  <2>1. PICK i \in 1 .. Len(out) : x = p[i]
    BY <1>4, <1>5
  <2>2. x.seq = seq + i /\ x.ev = out[i]
    BY <1>3, <2>1
  <2>3. x.ev \in Usable /\ seq < x.seq /\ x.seq <= seq + Len(out)
    BY <1>2, <2>1, <2>2
  <2>4. ASSUME x.ev.op \in NeedsINS, x.ev.on \notin have
        PROVE  \E y \in Rest(st) : y.ev = SyntheticINS(x.ev.on) /\ y.seq < x.seq
    <3>1. PICK j \in 1 .. i - 1 : out[j] = SyntheticINS(x.ev.on)
      BY <1>1, <2>1, <2>2, <2>4 DEF Prepared
    <3>2. j \in 1 .. Len(out) /\ j < i
      BY <1>2, <2>1
    <3>3. p[j] \in Rest(st) /\ p[j].ev = out[j] /\ p[j].seq = seq + j
      BY <1>3, <1>4, <1>5, <3>2
    <3>4. p[j].seq < x.seq
      BY <2>1, <2>2, <3>2, <3>3
    <3> QED
      BY <3>1, <3>3, <3>4
  <2> QED
    BY <2>3, <2>4
<1> QED
  BY <1>1, <1>2, <1>4, <1>6, <1>7 DEF st, p, out, w

-----------------------------------------------------------------------------
(* The events of a shard. *)

\* The events of a shard, target by target.
Gathering(a, step, n, keys) ==
  /\ a[0] = << >> /\ a[Len(keys)] = ShardEvents(step, n)
  /\ \A i \in 1 .. Len(keys) : a[i] = IF ShardOf[keys[i]] = n THEN a[i - 1] \o OfTarget(step, keys[i]) ELSE a[i - 1]

\* ShardEvents, target by target.
LEMMA GatheringRuns ==
  ASSUME NEW step \in Seq(Planned), NEW n, NEW keys \in Seq(Targets), keys = TargetKeys
  PROVE  \E a \in [0 .. Len(keys) -> Seq(Planned)] : Gathering(a, step, n, keys)
<1> DEFINE F == [x \in Seq(Planned) \X Targets |-> IF ShardOf[x[2]] = n THEN x[1] \o OfTarget(step, x[2]) ELSE x[1]]
           D == DOMAIN keys
<1>0. D = 1 .. Len(keys) /\ Len(keys) \in Nat /\ \A i \in 1 .. Len(keys) : keys[i] \in Targets
  OBVIOUS
<1>1. ASSUME NEW t \in Seq(Planned), NEW e \in Targets PROVE (IF ShardOf[e] = n THEN t \o OfTarget(step, e) ELSE t) \in Seq(Planned)
  <2>1. OfTarget(step, e) \in Seq(Planned)
    BY GroupOfTarget
  <2> QED
    BY <2>1
<1>2. \A t \in Seq(Planned), e \in Targets : F[<<t, e>>] = IF ShardOf[e] = n THEN t \o OfTarget(step, e) ELSE t
  OBVIOUS
<1>3. \A t \in Seq(Planned), e \in Targets : F[<<t, e>>] \in Seq(Planned)
  <2> HIDE DEF F
  <2> QED
    BY <1>1, <1>2
<1>4. << >> \in Seq(Planned)
  OBVIOUS
<1>5. PICK h : Steps(F, << >>, keys, h)
  BY FoldExists
<1>6. \A S \in SUBSET D : h[S] \in Seq(Planned)
  <2> HIDE DEF F
  <2> QED
    BY <1>3, <1>4, <1>5, FoldStays, Zenon
<1>7. h = [S \in SUBSET D |->
                        IF S = {} THEN << >> ELSE IF ShardOf[keys[Max(S)]] = n THEN h[S \ {Max(S)}] \o OfTarget(step, keys[Max(S)]) ELSE h[S \ {Max(S)}]]
  <2>1. ASSUME NEW S \in SUBSET D, S # {}
        PROVE  F[<<h[S \ {Max(S)}], keys[Max(S)]>>] =
                 IF ShardOf[keys[Max(S)]] = n THEN h[S \ {Max(S)}] \o OfTarget(step, keys[Max(S)]) ELSE h[S \ {Max(S)}]
    <3>1. Max(S) \in S
      BY <1>0, <2>1, MaxIsGreatest
    <3>2. h[S \ {Max(S)}] \in Seq(Planned) /\ keys[Max(S)] \in Targets
      BY <1>0, <1>6, <3>1
    <3> HIDE DEF F
    <3> QED
      BY <1>2, <3>2
  <2> HIDE DEF F
  <2> QED
    BY <1>5, <2>1, Zenon DEF Steps
<1>8. PICK g : /\ g = [S \in SUBSET D |->
                        IF S = {} THEN << >> ELSE IF ShardOf[keys[Max(S)]] = n THEN g[S \ {Max(S)}] \o OfTarget(step, keys[Max(S)]) ELSE g[S \ {Max(S)}]]
               /\ ShardEvents(step, n) = g[D]
  <2> HIDE DEF F
  <2>1. ShardEvents(step, n) =
          FoldLeft(LAMBDA acc, t : IF ShardOf[t] = n THEN acc \o OfTarget(step, t) ELSE acc,
                   << >>, keys)
    BY DEF ShardEvents
  <2> QED
    BY <1>7, <2>1 DEF FoldLeft, MapThenFoldSet
<1> DEFINE a == [i \in 0 .. Len(keys) |-> g[1 .. i]]
<1>9. a[0] = << >>
  <2>1. 1 .. 0 = {} /\ {} \in SUBSET D
    OBVIOUS
  <2>2. g[{}] = << >>
    BY <1>8, <2>1, Zenon
  <2> QED
    BY <2>1, <2>2
<1>10. ASSUME NEW i \in 1 .. Len(keys) PROVE a[i] = IF ShardOf[keys[i]] = n THEN a[i - 1] \o OfTarget(step, keys[i]) ELSE a[i - 1]
  <2>1. /\ 1 .. i \in SUBSET D /\ 1 .. i # {} /\ Max(1 .. i) = i
        /\ (1 .. i) \ {i} = 1 .. i - 1
    BY <1>0, Segments
  <2>2. g[1 .. i] = IF ShardOf[keys[i]] = n THEN g[1 .. i - 1] \o OfTarget(step, keys[i]) ELSE g[1 .. i - 1]
    <3> DEFINE S == 1 .. i
    <3>1. g[S] = IF S = {} THEN << >>
                 ELSE IF ShardOf[keys[Max(S)]] = n THEN g[S \ {Max(S)}] \o OfTarget(step, keys[Max(S)])
                 ELSE g[S \ {Max(S)}]
      <4>1. S \in SUBSET D
        BY <2>1
      <4> HIDE DEF S, D
      <4> QED
        BY <1>8, <4>1
    <3>2. S # {} /\ Max(S) = i /\ S \ {i} = 1 .. i - 1
      BY <2>1
    <3> HIDE DEF S
    <3>3. g[S] = IF ShardOf[keys[i]] = n THEN g[1 .. i - 1] \o OfTarget(step, keys[i]) ELSE g[1 .. i - 1]
      BY <3>1, <3>2
    <3> QED
      BY <3>3 DEF S
  <2>3. i - 1 \in 0 .. Len(keys) /\ i \in 0 .. Len(keys)
    OBVIOUS
  <2> QED
    BY <2>2, <2>3, Zenon
<1>11. \A i \in 0 .. Len(keys) : a[i] \in Seq(Planned)
  <2> DEFINE A == {i \in 0 .. Len(keys) : a[i] \in Seq(Planned)}
  <2>1. 0 \in A
    <3>1. 0 \in 0 .. Len(keys)
      OBVIOUS
    <3> QED
      BY <1>4, <1>9, <3>1, Zenon
  <2>2. ASSUME NEW i \in 0 .. Len(keys) - 1, i \in A PROVE i + 1 \in A
    <3>1. /\ i + 1 \in 1 .. Len(keys) /\ (i + 1) - 1 = i /\ i + 1 \in 0 .. Len(keys)
          /\ a[i] \in Seq(Planned) /\ keys[i + 1] \in Targets
      BY <1>0, <2>2
    <3> HIDE DEF a
    <3>2. a[i + 1] = IF ShardOf[keys[i + 1]] = n THEN a[i] \o OfTarget(step, keys[i + 1]) ELSE a[i]
      BY <1>10, <3>1
    <3>3. a[i + 1] \in Seq(Planned)
      BY <1>1, <3>1, <3>2
    <3> QED
      BY <3>1, <3>3
  <2> HIDE DEF A
  <2>3. \A i \in 0 .. Len(keys) : i \in A
    BY <1>0, <2>1, <2>2, UpTo, Zenon
  <2> QED
    BY <2>3 DEF A
<1>12. a \in [0 .. Len(keys) -> Seq(Planned)]
  BY <1>11
<1>13. a[Len(keys)] = ShardEvents(step, n)
  BY <1>0, <1>8
<1> HIDE DEF a
<1> QED
  BY <1>9, <1>10, <1>12, <1>13 DEF Gathering


\* A shard gets exactly the events of its targets.
LEMMA EventsOfShard ==
  ASSUME NEW step \in Seq(Planned), NEW n
  PROVE  /\ ShardEvents(step, n) \in Seq(Planned)
         /\ ToSet(ShardEvents(step, n)) = {x \in ToSet(step) : ShardOf[x.ev.on] = n}
<1> DEFINE keys == TargetKeys
<1>0. keys \in Seq(Targets) /\ ToSet(keys) = Targets
  BY BulkAssumption DEF Targets
<1> HIDE DEF keys
<1>1. PICK a \in [0 .. Len(keys) -> Seq(Planned)] : Gathering(a, step, n, keys)
  BY <1>0, GatheringRuns DEF keys
<1>2. /\ a[0] = << >> /\ a[Len(keys)] = ShardEvents(step, n)
      /\ \A i \in 1 .. Len(keys) :
           a[i] = IF ShardOf[keys[i]] = n THEN a[i - 1] \o OfTarget(step, keys[i]) ELSE a[i - 1]
  BY <1>1 DEF Gathering
<1> DEFINE Of(i) == {x \in ToSet(step) : ShardOf[x.ev.on] = n /\ \E j \in 1 .. i : x.ev.on = keys[j]}
           A == {i \in 0 .. Len(keys) : ToSet(a[i]) = Of(i)}
<1>3. Len(keys) \in Nat /\ \A i \in 1 .. Len(keys) : keys[i] \in Targets
  BY <1>0
<1>4. 0 \in A
  <2>1. ToSet(<< >>) = {}
    BY DEF ToSet
  <2>2. Of(0) = {}
    OBVIOUS
  <2> QED
    BY <1>2, <1>3, <2>1, <2>2
<1>5. ASSUME NEW i \in 0 .. Len(keys) - 1, i \in A PROVE i + 1 \in A
  <2>1. i + 1 \in 1 .. Len(keys) /\ (i + 1) - 1 = i /\ i + 1 \in 0 .. Len(keys) /\ i \in 0 .. Len(keys)
    BY <1>3
  <2>2. keys[i + 1] \in Targets /\ a[i] \in Seq(Planned)
    BY <1>3, <2>1
  <2> DEFINE g == OfTarget(step, keys[i + 1])
  <2>3. g \in Seq(Planned) /\ ToSet(g) = {x \in ToSet(step) : x.ev.on = keys[i + 1]}
    BY <2>2, GroupOfTarget
  <2>4. a[i + 1] = IF ShardOf[keys[i + 1]] = n THEN a[i] \o g ELSE a[i]
    BY <1>2, <2>1
  <2> HIDE DEF g
  <2>5. ToSet(a[i] \o g) = ToSet(a[i]) \union ToSet(g)
    BY <2>2, <2>3, Joined
  <2>6. 1 .. i + 1 = (1 .. i) \union {i + 1}
    OBVIOUS
  <2>7. Of(i + 1) = Of(i) \union (IF ShardOf[keys[i + 1]] = n
                                  THEN {x \in ToSet(step) : x.ev.on = keys[i + 1]} ELSE {})
    BY <2>6
  <2>8. ToSet(a[i]) = Of(i)
    BY <1>5
  <2> HIDE DEF Of
  <2>9. ToSet(a[i + 1]) = Of(i + 1)
    BY <2>3, <2>4, <2>5, <2>7, <2>8
  <2> QED
    BY <2>1, <2>9
<1>6. Len(keys) \in A
  <2> HIDE DEF A
  <2> QED
    BY <1>3, <1>4, <1>5, AtTheEnd, Zenon
<1>7. Of(Len(keys)) = {x \in ToSet(step) : ShardOf[x.ev.on] = n}
  <2>1. \A x \in ToSet(step) : x.ev.on \in Targets
    <3>1. ToSet(step) \in SUBSET Planned
      BY ElementsOf
    <3> QED
      BY <3>1 DEF Planned, Event
  <2>2. Targets = {keys[j] : j \in 1 .. Len(keys)}
    BY <1>0, ElementsOf
  <2> QED
    BY <2>1, <2>2
<1>8. a[Len(keys)] \in Seq(Planned)
  BY <1>3
<1> QED
  BY <1>2, <1>6, <1>7, <1>8

-----------------------------------------------------------------------------
(* What a shard answers. *)

\* A store that vouches for its ids and helix positions, with no order asked of its log.
Recorded(s) == (\A x \in ToSet(s.log) : x.ev \in Usable) /\ IdsLogged(s) /\ HelixLogged(s)

LEMMA SoundIsRecorded ==
  ASSUME NEW s, Sound(s)
  PROVE  Recorded(s)
BY DEF Sound, Recorded, LogOrdered

\* After an event its id is in the log, under this seq or an earlier one.
LEMMA CoreIsRecorded ==
  ASSUME NEW s \in Store, Recorded(s), NEW x \in Planned, x.ev \in Usable
  PROVE  LET r == processEventCoreWithSeq(s, x)
         IN  /\ r \in Store /\ Recorded(r)
             /\ r.log = s.log \/ r.log = Append(s.log, x)
             /\ \E y \in ToSet(r.log) : y.ev = x.ev
             /\ x.ev.id = 0 => x \in ToSet(r.log)
<1> DEFINE r == processEventCoreWithSeq(s, x)
<1>1. CASE Known(s, x.ev)
  <2>1. r = s
    BY <1>1, CoreEffect
  <2>2. x.ev.id # 0 /\ x.ev.id \in s.idem
    BY <1>1 DEF Known
  <2>3. PICK y \in ToSet(s.log) : y.ev.id = x.ev.id
    BY <2>2 DEF Recorded, IdsLogged
  <2>4. y.ev = x.ev
    BY <2>2, <2>3, EventsInUse DEF Recorded
  <2> QED
    BY <2>1, <2>2, <2>4
<1>2. CASE ~Known(s, x.ev)
  <2>1. /\ r \in Store /\ r.log = Append(s.log, x)
        /\ r.idem = s.idem \union {x.ev.id}
        /\ r.helix \subseteq s.helix \union (IF x.ev.op = "INS" THEN {x.ev.on} ELSE {})
    BY <1>2, CoreEffect
  <2>2. ToSet(r.log) = ToSet(s.log) \union {x}
    <3>1. s.log \in Seq(Planned)
      BY DEF Store
    <3> QED
      BY <2>1, <3>1, Appended
  <2> HIDE DEF r
  <2>3. IdsLogged(r)
    BY <2>1, <2>2 DEF Recorded, IdsLogged
  <2>4. HelixLogged(r)
    BY <2>1, <2>2 DEF Recorded, HelixLogged, HasINS
  <2>5. Recorded(r)
    BY <2>2, <2>3, <2>4 DEF Recorded
  <2> QED
    BY <2>1, <2>2, <2>5 DEF r
<1> QED
  BY <1>1, <1>2

\* What a shard may hold: the snapshot, and behind its log events of the shard.
Shardings(snap, evs) ==
  {r \in [ok : BOOLEAN, s : Store] :
     /\ Recorded(r.s)
     /\ \E d \in Seq(Planned) : r.s.log = snap.log \o d /\ ToSet(d) \subseteq ToSet(evs)}

\* One event of a shard leaves a recorded store behind.
LEMMA InShardKeeps ==
  ASSUME NEW snap \in Store, NEW evs \in Seq(Planned), NEW acc \in Shardings(snap, evs),
         NEW x \in ToSet(evs), x.ev \in Usable
  PROVE  LET r == InShard(acc, x)
         IN  /\ r \in Shardings(snap, evs)
             /\ ToSet(acc.s.log) \subseteq ToSet(r.s.log)
             /\ \E y \in ToSet(r.s.log) : y.ev = x.ev
             /\ x.ev.id = 0 => x \in ToSet(r.s.log)
<1> DEFINE s == acc.s
           q == processEventCoreWithSeq(s, x)
           r == InShard(acc, x)
<1>1. s \in Store /\ Recorded(s) /\ acc.ok \in BOOLEAN
  BY DEF Shardings
<1>2. PICK d \in Seq(Planned) : s.log = snap.log \o d /\ ToSet(d) \subseteq ToSet(evs)
  BY DEF Shardings
<1>3. x \in Planned
  BY ElementsOf
<1>4. r.s = q /\ r = [ok |-> acc.ok /\ ~Throws(s, x.ev), s |-> q]
  BY DEF InShard
<1> HIDE DEF s, q, r
<1>5. /\ q \in Store /\ Recorded(q)
      /\ q.log = s.log \/ q.log = Append(s.log, x)
      /\ \E y \in ToSet(q.log) : y.ev = x.ev
      /\ x.ev.id = 0 => x \in ToSet(q.log)
  BY <1>1, <1>3, CoreIsRecorded DEF q
<1>6. s.log \in Seq(Planned) /\ snap.log \in Seq(Planned)
  BY <1>1 DEF Store
<1>7. /\ \E f \in Seq(Planned) : q.log = snap.log \o f /\ ToSet(f) \subseteq ToSet(evs)
      /\ ToSet(s.log) \subseteq ToSet(q.log)
  <2>1. CASE q.log = s.log
    BY <1>2, <2>1
  <2>2. CASE q.log = Append(s.log, x)
    <3> DEFINE f == Append(d, x)
               l == snap.log
    <3>1. f \in Seq(Planned) /\ ToSet(f) = ToSet(d) \union {x}
      BY <1>3, Appended
    <3>2. Append(l \o d, x) = l \o f
      <4>1. l \in Seq(Planned)
        BY <1>6
      <4> HIDE DEF l
      <4> QED
        BY <1>3, <4>1, JoinedThenAppended
    <3>3. ToSet(q.log) = ToSet(s.log) \union {x}
      BY <1>3, <1>6, <2>2, Appended
    <3> HIDE DEF f
    <3> QED
      BY <1>2, <2>2, <3>1, <3>2, <3>3
  <2> QED
    BY <1>5, <2>1, <2>2
<1>8. r \in [ok : BOOLEAN, s : Store]
  BY <1>1, <1>4, <1>5
<1>9. r \in Shardings(snap, evs)
  BY <1>4, <1>5, <1>7, <1>8 DEF Shardings
<1> QED
  BY <1>4, <1>5, <1>7, <1>9 DEF s, r

\* The events of a shard, one after the other.
Folding(a, snap, evs) ==
  /\ a[0] = [ok |-> TRUE, s |-> snap] /\ a[Len(evs)] = ShardRun(snap, evs)
  /\ \A i \in 1 .. Len(evs) : a[i] = InShard(a[i - 1], evs[i])

\* A shard ends with the log it was shipped and entries for events of its own.
LEMMA ShardRuns ==
  ASSUME NEW snap \in Store, Recorded(snap), NEW evs \in Seq(Planned),
         \A x \in ToSet(evs) : x.ev \in Usable
  PROVE  \E a \in [0 .. Len(evs) -> Shardings(snap, evs)] : Folding(a, snap, evs)
<1> DEFINE F == [x \in Shardings(snap, evs) \X ToSet(evs) |-> InShard(x[1], x[2])]
           D == DOMAIN evs
<1>0. D = 1 .. Len(evs) /\ Len(evs) \in Nat /\ \A i \in 1 .. Len(evs) : evs[i] \in ToSet(evs)
  BY ElementsOf
<1>1. ASSUME NEW t \in Shardings(snap, evs), NEW e \in ToSet(evs) PROVE (InShard(t, e)) \in Shardings(snap, evs)
  BY <1>1, InShardKeeps
<1>2. \A t \in Shardings(snap, evs), e \in ToSet(evs) : F[<<t, e>>] = InShard(t, e)
  OBVIOUS
<1>3. \A t \in Shardings(snap, evs), e \in ToSet(evs) : F[<<t, e>>] \in Shardings(snap, evs)
  <2> HIDE DEF F
  <2> QED
    BY <1>1, <1>2
<1>4. [ok |-> TRUE, s |-> snap] \in Shardings(snap, evs)
  <2> DEFINE l == snap.log
  <2>1. l \in Seq(Planned) /\ << >> \in Seq(Planned) /\ ToSet(<< >>) = {}
    BY DEF ToSet, Store
  <2>2. l = l \o << >>
    BY <2>1
  <2>3. [ok |-> TRUE, s |-> snap] \in [ok : BOOLEAN, s : Store]
    OBVIOUS
  <2> QED
    BY <2>1, <2>2, <2>3 DEF Shardings
<1>a. evs \in Seq(ToSet(evs))
  BY <1>0
<1>5. PICK h : Steps(F, [ok |-> TRUE, s |-> snap], evs, h)
  BY FoldExists
<1>6. \A S \in SUBSET D : h[S] \in Shardings(snap, evs)
  <2> HIDE DEF F
  <2> QED
    BY <1>3, <1>4, <1>5, <1>a, FoldStays, Zenon
<1>7. h = [S \in SUBSET D |->
                        IF S = {} THEN [ok |-> TRUE, s |-> snap] ELSE InShard(h[S \ {Max(S)}], evs[Max(S)])]
  <2>1. ASSUME NEW S \in SUBSET D, S # {}
        PROVE  F[<<h[S \ {Max(S)}], evs[Max(S)]>>] =
                 InShard(h[S \ {Max(S)}], evs[Max(S)])
    <3>1. Max(S) \in S
      BY <1>0, <2>1, MaxIsGreatest
    <3>2. h[S \ {Max(S)}] \in Shardings(snap, evs) /\ evs[Max(S)] \in ToSet(evs)
      BY <1>0, <1>6, <3>1
    <3> HIDE DEF F
    <3> QED
      BY <1>2, <3>2
  <2> HIDE DEF F
  <2> QED
    BY <1>5, <2>1, Zenon DEF Steps
<1>8. PICK g : /\ g = [S \in SUBSET D |->
                        IF S = {} THEN [ok |-> TRUE, s |-> snap] ELSE InShard(g[S \ {Max(S)}], evs[Max(S)])]
               /\ ShardRun(snap, evs) = g[D]
  <2> HIDE DEF F
  <2> QED
    BY <1>7 DEF FoldLeft, MapThenFoldSet, ShardRun
<1> DEFINE a == [i \in 0 .. Len(evs) |-> g[1 .. i]]
<1>9. a[0] = [ok |-> TRUE, s |-> snap]
  <2>1. 1 .. 0 = {} /\ {} \in SUBSET D
    OBVIOUS
  <2>2. g[{}] = [ok |-> TRUE, s |-> snap]
    BY <1>8, <2>1, Zenon
  <2> QED
    BY <2>1, <2>2
<1>10. ASSUME NEW i \in 1 .. Len(evs) PROVE a[i] = InShard(a[i - 1], evs[i])
  <2>1. /\ 1 .. i \in SUBSET D /\ 1 .. i # {} /\ Max(1 .. i) = i
        /\ (1 .. i) \ {i} = 1 .. i - 1
    BY <1>0, Segments
  <2>2. g[1 .. i] = InShard(g[1 .. i - 1], evs[i])
    BY <1>8, <2>1, Zenon
  <2>3. i - 1 \in 0 .. Len(evs) /\ i \in 0 .. Len(evs)
    OBVIOUS
  <2> QED
    BY <2>2, <2>3, Zenon
<1>11. \A i \in 0 .. Len(evs) : a[i] \in Shardings(snap, evs)
  <2> DEFINE A == {i \in 0 .. Len(evs) : a[i] \in Shardings(snap, evs)}
  <2>1. 0 \in A
    <3>1. 0 \in 0 .. Len(evs)
      OBVIOUS
    <3> QED
      BY <1>4, <1>9, <3>1, Zenon
  <2>2. ASSUME NEW i \in 0 .. Len(evs) - 1, i \in A PROVE i + 1 \in A
    <3>1. /\ i + 1 \in 1 .. Len(evs) /\ (i + 1) - 1 = i /\ i + 1 \in 0 .. Len(evs)
          /\ a[i] \in Shardings(snap, evs) /\ evs[i + 1] \in ToSet(evs)
      BY <1>0, <2>2
    <3> HIDE DEF a
    <3>2. a[i + 1] = InShard(a[i], evs[i + 1])
      BY <1>10, <3>1
    <3>3. a[i + 1] \in Shardings(snap, evs)
      BY <1>1, <3>1, <3>2
    <3> QED
      BY <3>1, <3>3
  <2> HIDE DEF A
  <2>3. \A i \in 0 .. Len(evs) : i \in A
    BY <1>0, <2>1, <2>2, UpTo, Zenon
  <2> QED
    BY <2>3 DEF A
<1>12. a \in [0 .. Len(evs) -> Shardings(snap, evs)]
  BY <1>11
<1>13. a[Len(evs)] = ShardRun(snap, evs)
  BY <1>0, <1>8
<1> HIDE DEF a
<1> QED
  BY <1>9, <1>10, <1>12, <1>13 DEF Folding


\* A shard answers with a store whose log holds the snapshot's and the events it was given,
\* those it knew already under an earlier seq.
LEMMA ShardResult ==
  ASSUME NEW snap \in Store, Recorded(snap), NEW evs \in Seq(Planned),
         \A x \in ToSet(evs) : x.ev \in Usable
  PROVE  LET r == ShardRun(snap, evs)
         IN  /\ r \in Shardings(snap, evs)
             /\ \A x \in ToSet(evs) : /\ \E y \in ToSet(r.s.log) : y.ev = x.ev
                                      /\ x.ev.id = 0 => x \in ToSet(r.s.log)
<1>1. PICK a \in [0 .. Len(evs) -> Shardings(snap, evs)] : Folding(a, snap, evs)
  BY ShardRuns
<1>2. /\ a[Len(evs)] = ShardRun(snap, evs)
      /\ \A i \in 1 .. Len(evs) : a[i] = InShard(a[i - 1], evs[i])
  BY <1>1 DEF Folding
<1>3. /\ Len(evs) \in Nat /\ Len(evs) \in 0 .. Len(evs)
      /\ ToSet(evs) = {evs[j] : j \in 1 .. Len(evs)} /\ \A j \in 1 .. Len(evs) : evs[j] \in ToSet(evs)
  BY ElementsOf
<1> DEFINE Held(i, x) == /\ \E y \in ToSet(a[i].s.log) : y.ev = x.ev
                         /\ x.ev.id = 0 => x \in ToSet(a[i].s.log)
           A == {i \in 0 .. Len(evs) : \A j \in 1 .. i : Held(i, evs[j])}
<1>4. 0 \in A
  BY <1>3
<1>5. ASSUME NEW i \in 0 .. Len(evs) - 1, i \in A PROVE i + 1 \in A
  <2>1. i + 1 \in 1 .. Len(evs) /\ (i + 1) - 1 = i /\ i + 1 \in 0 .. Len(evs) /\ i \in 0 .. Len(evs)
    BY <1>3
  <2>2. a[i] \in Shardings(snap, evs) /\ evs[i + 1] \in ToSet(evs) /\ a[i + 1] = InShard(a[i], evs[i + 1])
    BY <1>2, <1>3, <2>1
  <2>3. ToSet(a[i].s.log) \subseteq ToSet(a[i + 1].s.log) /\ Held(i + 1, evs[i + 1])
    <3> DEFINE acc == a[i]
               x   == evs[i + 1]
    <3>1. acc \in Shardings(snap, evs) /\ x \in ToSet(evs) /\ x.ev \in Usable
      BY <2>2
    <3>2. a[i + 1] = InShard(acc, x)
      BY <2>2
    <3> DEFINE r == InShard(acc, x)
    <3> HIDE DEF acc, x
    <3>3. /\ ToSet(acc.s.log) \subseteq ToSet(r.s.log)
          /\ \E y \in ToSet(r.s.log) : y.ev = x.ev
          /\ x.ev.id = 0 => x \in ToSet(r.s.log)
      BY <3>1, InShardKeeps
    <3> HIDE DEF r
    <3>4. a[i + 1] = r
      BY <3>2 DEF r
    <3> QED
      BY <3>3, <3>4 DEF acc, x
  <2>4. \A j \in 1 .. i : Held(i, evs[j])
    BY <1>5
  <2>5. \A j \in 1 .. i : Held(i + 1, evs[j])
    BY <2>3, <2>4
  <2> HIDE DEF Held
  <2>6. \A j \in 1 .. i + 1 : Held(i + 1, evs[j])
    BY <2>1, <2>3, <2>5
  <2> QED
    BY <2>1, <2>6
<1>6. Len(evs) \in A
  <2> HIDE DEF A
  <2> QED
    BY <1>3, <1>4, <1>5, AtTheEnd, Zenon
<1>7. \A x \in ToSet(evs) : Held(Len(evs), x)
  <2> HIDE DEF Held
  <2> QED
    BY <1>3, <1>6
<1> QED
  BY <1>1, <1>2, <1>3, <1>7

-----------------------------------------------------------------------------
(* The merge. *)

\* What a shard appended is what its log has beyond the snapshot.
LEMMA BehindTheSnapshot ==
  ASSUME NEW l \in Seq(Planned), NEW d \in Seq(Planned)
  PROVE  SubSeq(l \o d, Len(l) + 1, Len(l \o d)) = d
<1> DEFINE c == l \o d
           r == SubSeq(c, Len(l) + 1, Len(c))
<1>1. /\ c \in Seq(Planned) /\ Len(c) = Len(l) + Len(d) /\ Len(l) \in Nat /\ Len(d) \in Nat
      /\ \A i \in 1 .. Len(d) : c[Len(l) + i] = d[i]
  OBVIOUS
<1> HIDE DEF c
<1>2. r \in Seq(Planned) /\ Len(r) = Len(d) /\ \A i \in 1 .. Len(d) : r[i] = c[Len(l) + i]
  BY <1>1
<1> HIDE DEF r
<1>3. \A i \in 1 .. Len(d) : r[i] = d[i]
  BY <1>1, <1>2
<1>4. r = d
  BY <1>2, <1>3
<1> QED
  BY <1>4 DEF r, c

MergeAdds(m, s, done, d) ==
  /\ m \in Store /\ m.seq = s.seq /\ m.log = s.log \o d
  /\ m.idem = s.idem \union done.idem /\ m.helix = s.helix \union done.helix

\* Merge adds what a shard logged behind the snapshot, its ids and its helix positions.
LEMMA MergeEffect ==
  ASSUME NEW s \in Store, NEW snap \in Store, NEW done \in Store, NEW evs,
         NEW d \in Seq(Planned), done.log = snap.log \o d
  PROVE  MergeAdds(Merge(s, snap, evs, done), s, done, d)
<1> DEFINE m    == Merge(s, snap, evs, done)
           rows == [t \in Targets |-> IF t \in Touched(snap, evs, done) THEN done.rows[t] ELSE s.rows[t]]
           l    == s.log
           k    == snap.log
           n    == l \o d
           ids  == s.idem \union done.idem
           pos  == s.helix \union done.helix
           es   == s.edges \union done.edges
<1>1. /\ s.rows \in [Targets -> Row] /\ done.rows \in [Targets -> Row]
      /\ l \in Seq(Planned) /\ k \in Seq(Planned) /\ s.seq \in Nat
      /\ ids \in SUBSET Nat /\ pos \in SUBSET Targets /\ es \in SUBSET (Targets \X Targets)
  BY DEF Store
<1>2. rows \in [Targets -> Row]
  BY <1>1
<1>3. n \in Seq(Planned)
  BY <1>1
<1>4. SubSeq(k \o d, Len(k) + 1, Len(k \o d)) = d
  <2> HIDE DEF k
  <2> QED
    BY <1>1, BehindTheSnapshot
<1>5. SubSeq(done.log, Len(snap.log) + 1, Len(done.log)) = d
  BY <1>4
<1>6. m = [s EXCEPT !.rows = rows, !.edges = es, !.helix = pos, !.idem = ids, !.log = n]
  <2>1. DOMAIN s = {"rows", "edges", "helix", "idem", "log", "seq"}
    BY DEF Store
  <2> QED
    BY <1>5, <2>1 DEF Merge
<1> HIDE DEF rows, n, ids, pos, es, m
<1>7. m = [rows |-> rows, edges |-> es, helix |-> pos, idem |-> ids, log |-> n, seq |-> s.seq]
  BY <1>6 DEF Store
<1>8. m \in Store
  BY <1>1, <1>2, <1>3, <1>7 DEF Store
<1>9. m.seq = s.seq /\ m.log = n /\ m.idem = ids /\ m.helix = pos
  BY <1>7
<1> QED
  BY <1>8, <1>9 DEF m, n, ids, pos, MergeAdds

\* Reconciled touches rows only.
LEMMA ReconciledEffect ==
  ASSUME NEW s \in Store, NEW dests
  PROVE  LET r == Reconciled(s, dests)
         IN  /\ r \in Store /\ r.seq = s.seq /\ r.log = s.log
             /\ r.idem = s.idem /\ r.helix = s.helix
<1> DEFINE new(t) == IF t \in dests /\ s.rows[t].on
                     THEN [s.rows[t] EXCEPT !.metrics = {x \in s.edges : t \in {x[1], x[2]}}]
                     ELSE s.rows[t]
           rows == [t \in Targets |-> new(t)]
           r    == Reconciled(s, dests)
<1>1. /\ s.rows \in [Targets -> Row] /\ s.edges \in SUBSET (Targets \X Targets)
  BY DEF Store
<1>2. ASSUME NEW t \in Targets PROVE new(t) \in Row
  <2> DEFINE row == s.rows[t]
             es  == {x \in s.edges : t \in {x[1], x[2]}}
  <2>1. row \in Row /\ es \in SUBSET (Targets \X Targets)
    BY <1>1
  <2> HIDE DEF row, es
  <2>2. [row EXCEPT !.metrics = es] \in Row
    BY <2>1 DEF Row
  <2> QED
    BY <2>1, <2>2 DEF row, es
<1> HIDE DEF new
<1>3. rows \in [Targets -> Row]
  BY <1>2
<1>4. r = [s EXCEPT !.rows = rows]
  BY DEF Reconciled, new, Store
<1> HIDE DEF rows, r
<1>5. r \in Store /\ r.seq = s.seq /\ r.log = s.log /\ r.idem = s.idem /\ r.helix = s.helix
  BY <1>3, <1>4 DEF Store
<1> QED
  BY <1>5 DEF r

\* A step that was shipped: the snapshot is a past state of the store, and every event of
\* the step is one the fold uses.
Shipped(step) ==
  /\ store \in Store /\ Recorded(store)
  /\ imp.snap \in Store /\ Recorded(imp.snap) /\ ToSet(imp.snap.log) \subseteq ToSet(store.log)
  /\ step = Head(imp.steps) /\ step \in Seq(Planned) /\ \A x \in ToSet(step) : x.ev \in Usable

\* What the merge may hold: the store, and behind its log events of the step.
Merged(s, step) ==
  {m \in Store : /\ m.seq = s.seq /\ Recorded(m)
                 /\ ToSet(s.log) \subseteq ToSet(m.log)
                 /\ ToSet(m.log) \subseteq ToSet(s.log) \union ToSet(step)}

\* What a shard answers, as MergeStep uses it.
LEMMA ResultOfShard ==
  ASSUME NEW step, Shipped(step), NEW i
  PROVE  /\ Result(i) \in Shardings(imp.snap, ShardEvents(step, i))
         /\ ToSet(ShardEvents(step, i)) = {x \in ToSet(step) : ShardOf[x.ev.on] = i}
         /\ \A x \in ToSet(ShardEvents(step, i)) :
              /\ \E y \in ToSet(Result(i).s.log) : y.ev = x.ev
              /\ x.ev.id = 0 => x \in ToSet(Result(i).s.log)
<1> DEFINE evs == ShardEvents(step, i)
           snap == imp.snap
<1>1. evs \in Seq(Planned) /\ ToSet(evs) = {x \in ToSet(step) : ShardOf[x.ev.on] = i}
  BY EventsOfShard DEF Shipped
<1>2. /\ snap \in Store /\ Recorded(snap) /\ \A x \in ToSet(evs) : x.ev \in Usable
      /\ Result(i) = ShardRun(snap, evs)
  BY <1>1 DEF Shipped, Result
<1> DEFINE r == ShardRun(snap, evs)
<1> HIDE DEF evs, snap
<1>3. /\ r \in Shardings(snap, evs)
      /\ \A x \in ToSet(evs) : /\ \E y \in ToSet(r.s.log) : y.ev = x.ev
                               /\ x.ev.id = 0 => x \in ToSet(r.s.log)
  BY <1>1, <1>2, ShardResult
<1> HIDE DEF r
<1> QED
  BY <1>1, <1>2, <1>3 DEF evs, snap, r

\* Merging the answer of one shard keeps the store sound.
LEMMA MergingKeeps ==
  ASSUME NEW step, Shipped(step), NEW acc \in Merged(store, step), NEW i
  PROVE  /\ Merging(acc, i) \in Merged(store, step)
         /\ ToSet(acc.log) \subseteq ToSet(Merging(acc, i).log)
         /\ ToSet(Result(i).s.log) \subseteq ToSet(Merging(acc, i).log)
<1> DEFINE evs  == ShardEvents(step, i)
           snap == imp.snap
           done == Result(i).s
           m    == Merging(acc, i)
<1>1. /\ Result(i) \in Shardings(snap, evs)
      /\ ToSet(evs) \subseteq ToSet(step)
  BY ResultOfShard
<1>2. done \in Store /\ Recorded(done)
  BY <1>1 DEF Shardings
<1>3. PICK d \in Seq(Planned) : done.log = snap.log \o d /\ ToSet(d) \subseteq ToSet(evs)
  BY <1>1 DEF Shardings
<1>4. snap \in Store /\ ToSet(snap.log) \subseteq ToSet(store.log)
  BY DEF Shipped
<1>5. m = Merge(acc, snap, evs, done)
  BY DEF Merging, Shipped
<1>6. /\ acc \in Store /\ acc.seq = store.seq /\ Recorded(acc)
      /\ ToSet(store.log) \subseteq ToSet(acc.log)
      /\ ToSet(acc.log) \subseteq ToSet(store.log) \union ToSet(step)
  BY DEF Merged
<1> HIDE DEF evs, snap, done, m
<1>7. /\ m \in Store /\ m.seq = acc.seq /\ m.log = acc.log \o d
      /\ m.idem = acc.idem \union done.idem /\ m.helix = acc.helix \union done.helix
  <2>1. acc \in Store /\ snap \in Store /\ done \in Store /\ d \in Seq(Planned)
    BY <1>2, <1>3, <1>4, <1>6
  <2>2. MergeAdds(Merge(acc, snap, evs, done), acc, done, d)
    BY <1>3, <2>1, MergeEffect
  <2> QED
    BY <1>5, <2>2 DEF MergeAdds
<1>8. acc.log \in Seq(Planned) /\ snap.log \in Seq(Planned)
  BY <1>4, <1>6 DEF Store
<1>9. /\ ToSet(m.log) = ToSet(acc.log) \union ToSet(d)
      /\ ToSet(done.log) = ToSet(snap.log) \union ToSet(d)
  BY <1>3, <1>7, <1>8, Joined
<1>10. ToSet(done.log) \subseteq ToSet(m.log)
  BY <1>4, <1>6, <1>9
<1>11. Recorded(m)
  <2>1. \A x \in ToSet(m.log) : x.ev \in Usable
    BY <1>1, <1>3, <1>6, <1>9 DEF Shipped, Recorded
  <2>2. IdsLogged(m)
    BY <1>2, <1>6, <1>7, <1>9, <1>10 DEF Recorded, IdsLogged
  <2>3. HelixLogged(m)
    BY <1>2, <1>6, <1>7, <1>9, <1>10 DEF Recorded, HelixLogged, HasINS
  <2> QED
    BY <2>1, <2>2, <2>3 DEF Recorded
<1>12. m \in Merged(store, step)
  BY <1>1, <1>3, <1>6, <1>7, <1>9, <1>11 DEF Merged
<1> QED
  BY <1>9, <1>10, <1>12 DEF m, done

\* The shards, merged one after the other.
Collecting(a, shards) ==
  /\ a[0] = store /\ a[Len(shards)] = FoldLeft(Merging, store, shards)
  /\ \A i \in 1 .. Len(shards) : a[i] = Merging(a[i - 1], shards[i])

\* All answers are merged, one shard after the other.
LEMMA MergeRuns ==
  ASSUME NEW step, Shipped(step), NEW shards \in Seq(Nat), shards = Shards
  PROVE  \E a \in [0 .. Len(shards) -> Merged(store, step)] : Collecting(a, shards)
<1> DEFINE F == [x \in Merged(store, step) \X Nat |-> Merging(x[1], x[2])]
           D == DOMAIN shards
<1>0. D = 1 .. Len(shards) /\ Len(shards) \in Nat /\ \A i \in 1 .. Len(shards) : shards[i] \in Nat
  OBVIOUS
<1>1. ASSUME NEW t \in Merged(store, step), NEW e \in Nat PROVE (Merging(t, e)) \in Merged(store, step)
  BY <1>1, MergingKeeps
<1>2. \A t \in Merged(store, step), e \in Nat : F[<<t, e>>] = Merging(t, e)
  OBVIOUS
<1>3. \A t \in Merged(store, step), e \in Nat : F[<<t, e>>] \in Merged(store, step)
  <2> HIDE DEF F
  <2> QED
    BY <1>1, <1>2
<1>4. store \in Merged(store, step)
  BY DEF Shipped, Merged
<1>5. PICK h : Steps(F, store, shards, h)
  BY FoldExists
<1>6. \A S \in SUBSET D : h[S] \in Merged(store, step)
  <2> HIDE DEF F
  <2> QED
    BY <1>3, <1>4, <1>5, FoldStays, Zenon
<1>7. h = [S \in SUBSET D |->
                        IF S = {} THEN store ELSE Merging(h[S \ {Max(S)}], shards[Max(S)])]
  <2>1. ASSUME NEW S \in SUBSET D, S # {}
        PROVE  F[<<h[S \ {Max(S)}], shards[Max(S)]>>] =
                 Merging(h[S \ {Max(S)}], shards[Max(S)])
    <3>1. Max(S) \in S
      BY <1>0, <2>1, MaxIsGreatest
    <3>2. h[S \ {Max(S)}] \in Merged(store, step) /\ shards[Max(S)] \in Nat
      BY <1>0, <1>6, <3>1
    <3> HIDE DEF F
    <3> QED
      BY <1>2, <3>2
  <2> HIDE DEF F
  <2> QED
    BY <1>5, <2>1, Zenon DEF Steps
<1>8. PICK g : /\ g = [S \in SUBSET D |->
                        IF S = {} THEN store ELSE Merging(g[S \ {Max(S)}], shards[Max(S)])]
               /\ FoldLeft(Merging, store, shards) = g[D]
  <2> HIDE DEF F
  <2> QED
    BY <1>7 DEF FoldLeft, MapThenFoldSet
<1> DEFINE a == [i \in 0 .. Len(shards) |-> g[1 .. i]]
<1>9. a[0] = store
  <2>1. 1 .. 0 = {} /\ {} \in SUBSET D
    OBVIOUS
  <2>2. g[{}] = store
    BY <1>8, <2>1, Zenon
  <2> QED
    BY <2>1, <2>2
<1>10. ASSUME NEW i \in 1 .. Len(shards) PROVE a[i] = Merging(a[i - 1], shards[i])
  <2>1. /\ 1 .. i \in SUBSET D /\ 1 .. i # {} /\ Max(1 .. i) = i
        /\ (1 .. i) \ {i} = 1 .. i - 1
    BY <1>0, Segments
  <2>2. g[1 .. i] = Merging(g[1 .. i - 1], shards[i])
    BY <1>8, <2>1, Zenon
  <2>3. i - 1 \in 0 .. Len(shards) /\ i \in 0 .. Len(shards)
    OBVIOUS
  <2> QED
    BY <2>2, <2>3, Zenon
<1>11. \A i \in 0 .. Len(shards) : a[i] \in Merged(store, step)
  <2> DEFINE A == {i \in 0 .. Len(shards) : a[i] \in Merged(store, step)}
  <2>1. 0 \in A
    <3>1. 0 \in 0 .. Len(shards)
      OBVIOUS
    <3> QED
      BY <1>4, <1>9, <3>1, Zenon
  <2>2. ASSUME NEW i \in 0 .. Len(shards) - 1, i \in A PROVE i + 1 \in A
    <3>1. /\ i + 1 \in 1 .. Len(shards) /\ (i + 1) - 1 = i /\ i + 1 \in 0 .. Len(shards)
          /\ a[i] \in Merged(store, step) /\ shards[i + 1] \in Nat
      BY <1>0, <2>2
    <3> HIDE DEF a
    <3>2. a[i + 1] = Merging(a[i], shards[i + 1])
      BY <1>10, <3>1
    <3>3. a[i + 1] \in Merged(store, step)
      BY <1>1, <3>1, <3>2
    <3> QED
      BY <3>1, <3>3
  <2> HIDE DEF A
  <2>3. \A i \in 0 .. Len(shards) : i \in A
    BY <1>0, <2>1, <2>2, UpTo, Zenon
  <2> QED
    BY <2>3 DEF A
<1>12. a \in [0 .. Len(shards) -> Merged(store, step)]
  BY <1>11
<1>13. a[Len(shards)] = FoldLeft(Merging, store, shards)
  BY <1>0, <1>8
<1> HIDE DEF a
<1> QED
  BY <1>9, <1>10, <1>12, <1>13 DEF Collecting


\* The merged store has logged every event of the step, those it knew already under an
\* earlier seq, and nothing else.
LEMMA MergeResult ==
  ASSUME NEW step, Shipped(step), NEW dests
  PROVE  LET r == Reconciled(FoldLeft(Merging, store, Shards), dests)
         IN  /\ r \in Merged(store, step)
             /\ \A x \in ToSet(step) : /\ \E y \in ToSet(r.log) : y.ev = x.ev
                                       /\ x.ev.id = 0 => x \in ToSet(r.log)
<1> DEFINE shards == Shards
<1>0. /\ shards \in Seq(Nat) /\ Len(shards) = NumShards /\ NumShards \in Nat
      /\ \A j \in 1 .. NumShards : shards[j] = j - 1
  BY BulkAssumption DEF Shards
<1> HIDE DEF shards
<1>1. PICK a \in [0 .. Len(shards) -> Merged(store, step)] : Collecting(a, shards)
  BY <1>0, MergeRuns DEF shards
<1>2. /\ a[Len(shards)] = FoldLeft(Merging, store, shards)
      /\ \A i \in 1 .. Len(shards) : a[i] = Merging(a[i - 1], shards[i])
  BY <1>1 DEF Collecting
<1> DEFINE Has(i, j) == ToSet(Result(j - 1).s.log) \subseteq ToSet(a[i].log)
           A == {i \in 0 .. Len(shards) : \A j \in 1 .. i : Has(i, j)}
<1>3. 0 \in A
  BY <1>0
<1>4. ASSUME NEW i \in 0 .. Len(shards) - 1, i \in A PROVE i + 1 \in A
  <2>1. i + 1 \in 1 .. Len(shards) /\ (i + 1) - 1 = i /\ i + 1 \in 0 .. Len(shards) /\ i \in 0 .. Len(shards)
    BY <1>0
  <2>2. a[i] \in Merged(store, step) /\ shards[i + 1] = i /\ a[i + 1] = Merging(a[i], i)
    BY <1>0, <1>2, <2>1
  <2> DEFINE acc == a[i]
             m   == Merging(acc, i)
  <2> HIDE DEF acc, m
  <2>3. ToSet(acc.log) \subseteq ToSet(m.log) /\ ToSet(Result(i).s.log) \subseteq ToSet(m.log)
    BY <2>2, MergingKeeps DEF acc, m
  <2>4. a[i + 1] = m /\ a[i] = acc
    BY <2>2 DEF acc, m
  <2>5. \A j \in 1 .. i : Has(i, j)
    BY <1>4
  <2>6. Has(i + 1, i + 1) /\ \A j \in 1 .. i : Has(i + 1, j)
    BY <2>1, <2>3, <2>4, <2>5
  <2> HIDE DEF Has
  <2>7. \A j \in 1 .. i + 1 : Has(i + 1, j)
    BY <2>1, <2>6
  <2> QED
    BY <2>1, <2>7
<1>5. Len(shards) \in A
  <2> HIDE DEF A
  <2>1. Len(shards) \in Nat
    BY <1>0
  <2> QED
    BY <1>3, <1>4, <2>1, AtTheEnd, Zenon
<1> DEFINE m == a[Len(shards)]
           r == Reconciled(m, dests)
<1>6. m \in Merged(store, step)
  BY <1>0, <1>1
<1>7. \A j \in 1 .. NumShards : ToSet(Result(j - 1).s.log) \subseteq ToSet(m.log)
  BY <1>0, <1>5
<1> HIDE DEF A, Has, m
<1>8. r \in Store /\ r.seq = m.seq /\ r.log = m.log /\ r.idem = m.idem /\ r.helix = m.helix
  BY <1>6, ReconciledEffect DEF Merged
<1> HIDE DEF r
<1>9. r \in Merged(store, step)
  BY <1>6, <1>8 DEF Merged, Recorded, IdsLogged, HelixLogged
<1>10. ASSUME NEW x \in ToSet(step)
       PROVE  /\ \E y \in ToSet(r.log) : y.ev = x.ev
              /\ x.ev.id = 0 => x \in ToSet(r.log)
  <2> DEFINE i == ShardOf[x.ev.on]
  <2>1. x.ev.on \in Targets
    BY EventsInUse DEF Shipped, Event
  <2>2. i \in 0 .. NumShards - 1 /\ i + 1 \in 1 .. NumShards /\ (i + 1) - 1 = i
    <3>1. NumShards \in Nat /\ i \in 0 .. NumShards - 1
      BY <2>1, BulkAssumption
    <3> HIDE DEF i
    <3> QED
      BY <3>1
  <2>3. x \in {z \in ToSet(step) : ShardOf[z.ev.on] = i}
    OBVIOUS
  <2> HIDE DEF i
  <2>4. /\ \E y \in ToSet(Result(i).s.log) : y.ev = x.ev
        /\ x.ev.id = 0 => x \in ToSet(Result(i).s.log)
    BY <2>3, ResultOfShard
  <2>5. ToSet(Result(i).s.log) \subseteq ToSet(m.log)
    BY <1>7, <2>2
  <2> QED
    BY <1>8, <2>4, <2>5
<1>11. r = Reconciled(FoldLeft(Merging, store, Shards), dests)
  BY <1>2 DEF r, m, shards
<1> QED
  BY <1>9, <1>10, <1>11

-----------------------------------------------------------------------------
(* The inductive invariant. *)

\* An event has an entry in the log; an INS the fold made has its own.
Settled(s, x) == /\ \E y \in ToSet(s.log) : y.ev = x.ev
                 /\ x.ev.id = 0 => x \in ToSet(s.log)

\* The target of an operator has an INS in the log, or one the fold made ahead of it, in P.
Covered(s, x, P) ==
  x.ev.op \in NeedsINS =>
    \/ INSBefore(ToSet(s.log), x.ev.on, x.seq)
    \/ \E y \in P : y.ev = SyntheticINS(x.ev.on) /\ y.seq < x.seq

\* A group works through events of its target in seq order, each covered by the log or by
\* one before it; an event whose rows are being written is in the log, a row that is being
\* written is the next in line.
GroupFine(s, k, g) ==
  /\ Ascending(g.todo)
  /\ \A x \in ToSet(g.todo) : /\ x.ev \in Usable /\ x.ev.on = k[2] /\ x.seq <= s.seq
                              /\ Covered(s, x, ToSet(g.todo))
  /\ g.pc \in {"read", "write"} /\ g.todo # << >> => Head(g.todo) \in ToSet(s.log)
  /\ g.pc = "write" => g.ops # << >>

\* What an import has still to log on a target.
Ahead(i, g, t) == Rest(i.steps) \union ToSet(g[<<i.n, t>>].todo)

\* Steps come in seq order, each event covered by the log or by one ahead of it, and a
\* target the pre-pass has marked as instantiated has its INS in the log or ahead.
PlanFine(s, i, g) ==
  /\ StepsSorted(i.steps)
  /\ \A x \in Rest(i.steps) : /\ x.ev \in Usable /\ x.seq <= s.seq
                              /\ Covered(s, x, Ahead(i, g, x.ev.on))
  /\ \A t \in i.insed : HasINS(ToSet(s.log), t) \/ HasINS(Ahead(i, g, t), t)

\* An isolated import has no groups, a finished one none left; the snapshot a step was
\* shipped with is a past state of the store.
PhaseFine(s, i, g) ==
  /\ i.n <= MaxImports /\ (i.pc # "idle" => i.n # 0)
  /\ \A w \in ToSet(i.waves) : ToSet(w) \subseteq Given /\ Pure(w)
  /\ i.pc = "idle" => i.steps = << >> /\ i.insed = {}
  /\ i.pc = "done" \/ (i.mode = "isolated" /\ i.pc # "idle") =>
       \A t \in Targets : g[<<i.n, t>>].todo = << >>
  /\ i.pc = "shipped" => /\ i.mode = "isolated" /\ i.steps # << >> /\ Recorded(i.snap)
                         /\ ToSet(i.snap.log) \subseteq ToSet(s.log)

Groups == (1 .. MaxImports) \X Targets

BulkInv ==
  /\ TypeOK
  /\ Sound(store)
  /\ \A k \in Groups : GroupFine(store, k, task[k]) /\ (k[1] > imp.n => task[k].todo = << >>)
  /\ PlanFine(store, imp, task)
  /\ PhaseFine(store, imp, task)

LEMMA NoRowType ==
  /\ NoRow \in Row
  /\ NoTask \in Task
<1>1. NoRow \in Row
  BY DEF NoRow, Row
<1> QED
  BY <1>1 DEF NoTask, Task

LEMMA EmptyStoreType ==
  EmptyStore \in Store /\ Sound(EmptyStore)
<1>1. EmptyStore \in Store
  BY NoRowType DEF EmptyStore, Store
<1>2. ToSet(EmptyStore.log) = {} /\ EmptyStore.idem = {} /\ EmptyStore.helix = {}
  BY DEF EmptyStore, ToSet
<1> QED
  BY <1>1, <1>2 DEF Sound, LogOrdered, IdsLogged, HelixLogged

LEMMA RestIsPlanned ==
  ASSUME NEW st \in Seq(Seq(Planned))
  PROVE  Rest(st) \in SUBSET Planned
<1>1. ASSUME NEW m \in 1 .. Len(st) PROVE ToSet(st[m]) \in SUBSET Planned
  <2>1. st[m] \in Seq(Planned)
    OBVIOUS
  <2> QED
    BY <2>1, ElementsOf
<1> QED
  BY <1>1 DEF Rest

\* A log that grows keeps what it covers.
LEMMA CoveredGrows ==
  ASSUME NEW s, NEW r, ToSet(s.log) \subseteq ToSet(r.log), NEW x, NEW P, Covered(s, x, P)
  PROVE  Covered(r, x, P)
BY DEF Covered, INSBefore

\* A group stays fine when the log grows and seqs are taken.
LEMMA GroupGrows ==
  ASSUME NEW s \in Store, NEW r \in Store, ToSet(s.log) \subseteq ToSet(r.log), s.seq <= r.seq,
         NEW k, NEW g \in Task, GroupFine(s, k, g)
  PROVE  GroupFine(r, k, g)
<1>1. s.seq \in Nat /\ r.seq \in Nat /\ g.todo \in Seq(Planned)
  BY DEF Store, Task
<1>2. \A x \in ToSet(g.todo) : x.seq \in Nat
  <2>1. ToSet(g.todo) \in SUBSET Planned
    BY <1>1, ElementsOf
  <2> QED
    BY <2>1 DEF Planned
<1>3. ASSUME NEW x \in ToSet(g.todo)
      PROVE  /\ x.ev \in Usable /\ x.ev.on = k[2] /\ x.seq <= r.seq
             /\ Covered(r, x, ToSet(g.todo))
  <2>1. /\ x.ev \in Usable /\ x.ev.on = k[2] /\ x.seq <= s.seq
        /\ Covered(s, x, ToSet(g.todo))
    BY DEF GroupFine
  <2>2. Covered(r, x, ToSet(g.todo))
    BY <2>1, CoveredGrows
  <2> QED
    BY <1>1, <1>2, <2>1, <2>2
<1> QED
  BY <1>3 DEF GroupFine

\* So does an import.
LEMMA ImportGrows ==
  ASSUME NEW s \in Store, NEW r \in Store, ToSet(s.log) \subseteq ToSet(r.log), s.seq <= r.seq,
         NEW i \in Import, NEW g, PlanFine(s, i, g), PhaseFine(s, i, g)
  PROVE  PlanFine(r, i, g) /\ PhaseFine(r, i, g)
<1>1. s.seq \in Nat /\ r.seq \in Nat /\ i.steps \in Seq(Seq(Planned))
  BY DEF Store, Import
<1>2. \A x \in Rest(i.steps) : x.seq \in Nat
  BY <1>1, RestIsPlanned DEF Planned
<1>3. ASSUME NEW x \in Rest(i.steps)
      PROVE  x.ev \in Usable /\ x.seq <= r.seq /\ Covered(r, x, Ahead(i, g, x.ev.on))
  <2>1. x.ev \in Usable /\ x.seq <= s.seq /\ Covered(s, x, Ahead(i, g, x.ev.on))
    BY DEF PlanFine
  <2>2. Covered(r, x, Ahead(i, g, x.ev.on))
    BY <2>1, CoveredGrows
  <2> QED
    BY <1>1, <1>2, <2>1, <2>2
<1>4. PlanFine(r, i, g)
  BY <1>3 DEF PlanFine, HasINS
<1>5. PhaseFine(r, i, g)
  BY DEF PhaseFine
<1> QED
  BY <1>4, <1>5

\* The event a group is done with no longer has to cover those behind it.
LEMMA CoverMoves ==
  ASSUME NEW s, NEW x, NEW P, NEW Q, Covered(s, x, P), \A y \in P : y \in Q \/ Settled(s, y)
  PROVE  Covered(s, x, Q)
<1> SUFFICES ASSUME x.ev.op \in NeedsINS, ~INSBefore(ToSet(s.log), x.ev.on, x.seq)
             PROVE  \E y \in Q : y.ev = SyntheticINS(x.ev.on) /\ y.seq < x.seq
  BY DEF Covered
<1>1. PICK y \in P : y.ev = SyntheticINS(x.ev.on) /\ y.seq < x.seq
  BY DEF Covered
<1>2. y.ev.id = 0 /\ y.ev.op = "INS" /\ y.ev.on = x.ev.on
  BY <1>1 DEF SyntheticINS
<1>3. y \notin ToSet(s.log)
  BY <1>1, <1>2 DEF INSBefore
<1>4. y \in Q
  BY <1>2, <1>3 DEF Settled
<1> QED
  BY <1>1, <1>4

LEMMA INSMoves ==
  ASSUME NEW s, NEW t, NEW P, NEW Q, HasINS(ToSet(s.log), t) \/ HasINS(P, t),
         \A y \in P : y \in Q \/ Settled(s, y)
  PROVE  HasINS(ToSet(s.log), t) \/ HasINS(Q, t)
BY DEF HasINS, Settled

\* A group that is done with an event stays fine.
LEMMA GroupAdvances ==
  ASSUME NEW s \in Store, NEW k, NEW g \in Task, GroupFine(s, k, g), g.todo # << >>,
         Settled(s, Head(g.todo))
  PROVE  LET q == [NoTask EXCEPT !.todo = Tail(g.todo)]
         IN  /\ q \in Task /\ GroupFine(s, k, q)
             /\ ToSet(g.todo) = {Head(g.todo)} \union ToSet(q.todo)
<1> DEFINE todo == g.todo
           left == Tail(todo)
           q    == [NoTask EXCEPT !.todo = left]
<1>1. todo \in Seq(Planned)
  BY DEF Task
<1>2. /\ Ascending(todo) /\ todo # << >>
      /\ \A x \in ToSet(todo) : /\ x.ev \in Usable /\ x.ev.on = k[2] /\ x.seq <= s.seq
                                /\ Covered(s, x, ToSet(todo))
  BY DEF GroupFine
<1> HIDE DEF todo
<1>3. left \in Seq(Planned) /\ ToSet(todo) = {Head(todo)} \union ToSet(left) /\ Ascending(left)
  BY <1>1, <1>2, HeadAndTail, AscendingTail
<1> HIDE DEF left
<1>4. q = [pc |-> "check", todo |-> left, ops |-> << >>, copy |-> NoRow]
  BY DEF NoTask
<1>5. q \in Task
  BY <1>3, <1>4, NoRowType DEF Task
<1> HIDE DEF q
<1>6. q.pc = "check" /\ q.todo = left
  BY <1>4
<1>7. ASSUME NEW x \in ToSet(left)
      PROVE  /\ x.ev \in Usable /\ x.ev.on = k[2] /\ x.seq <= s.seq /\ Covered(s, x, ToSet(left))
  <2>1. x \in ToSet(todo)
    BY <1>3
  <2>2. \A y \in ToSet(todo) : y \in ToSet(left) \/ Settled(s, y)
    BY <1>3 DEF todo
  <2>3. Covered(s, x, ToSet(todo))
    BY <1>2, <2>1
  <2>4. Covered(s, x, ToSet(left))
    BY <2>2, <2>3, CoverMoves, Zenon
  <2> QED
    BY <1>2, <2>1, <2>4
<1>8. GroupFine(s, k, q)
  BY <1>3, <1>6, <1>7 DEF GroupFine
<1> QED
  BY <1>3, <1>5, <1>6, <1>8 DEF q, left, todo

\* The import when its groups have less to do, all they dropped being settled.
LEMMA ImportAdvances ==
  ASSUME NEW s \in Store, NEW i \in Import, NEW g \in [Groups -> Task], NEW h \in [Groups -> Task],
         PlanFine(s, i, g), PhaseFine(s, i, g),
         i.pc # "idle" => \A t \in Targets :
           /\ ToSet(h[<<i.n, t>>].todo) \subseteq ToSet(g[<<i.n, t>>].todo)
           /\ \A y \in ToSet(g[<<i.n, t>>].todo) : y \in ToSet(h[<<i.n, t>>].todo) \/ Settled(s, y)
  PROVE  PlanFine(s, i, h) /\ PhaseFine(s, i, h)
<1>1. /\ i.steps \in Seq(Seq(Planned)) /\ i.insed \in SUBSET Targets /\ i.n \in Nat
  BY DEF Import
<1>2. CASE i.pc = "idle"
  <2>1. i.steps = << >> /\ i.insed = {} /\ Rest(i.steps) = {}
    BY <1>2 DEF PhaseFine, Rest
  <2>2. PlanFine(s, i, h)
    BY <2>1 DEF PlanFine
  <2>3. PhaseFine(s, i, h)
    BY <1>2 DEF PhaseFine
  <2> QED
    BY <2>2, <2>3
<1>3. CASE i.pc # "idle"
  <2>1. ASSUME NEW t \in Targets, NEW y \in Ahead(i, g, t) PROVE y \in Ahead(i, h, t) \/ Settled(s, y)
    BY <1>3, <2>1 DEF Ahead
  <2>2. ASSUME NEW x \in Rest(i.steps)
        PROVE  x.ev \in Usable /\ x.seq <= s.seq /\ Covered(s, x, Ahead(i, h, x.ev.on))
    <3>1. x.ev \in Usable /\ x.seq <= s.seq /\ Covered(s, x, Ahead(i, g, x.ev.on))
      BY DEF PlanFine
    <3>2. x.ev.on \in Targets
      BY <3>1, EventsInUse DEF Event
    <3> DEFINE P == Ahead(i, g, x.ev.on)
               Q == Ahead(i, h, x.ev.on)
    <3>3. \A y \in P : y \in Q \/ Settled(s, y)
      BY <2>1, <3>2
    <3> HIDE DEF P, Q
    <3>4. Covered(s, x, Q)
      BY <3>1, <3>3, CoverMoves DEF P
    <3> QED
      BY <3>1, <3>4 DEF Q
  <2>3. ASSUME NEW t \in i.insed PROVE HasINS(ToSet(s.log), t) \/ HasINS(Ahead(i, h, t), t)
    <3>1. t \in Targets /\ (HasINS(ToSet(s.log), t) \/ HasINS(Ahead(i, g, t), t))
      BY <1>1 DEF PlanFine
    <3> QED
      BY <2>1, <3>1, INSMoves
  <2>4. PlanFine(s, i, h)
    BY <2>2, <2>3 DEF PlanFine
  <2>5. i.n \in 1 .. MaxImports
    BY <1>1, <1>3, BulkAssumption DEF PhaseFine
  <2>6. ASSUME NEW t \in Targets, g[<<i.n, t>>].todo = << >> PROVE h[<<i.n, t>>].todo = << >>
    <3>1. <<i.n, t>> \in Groups
      BY <2>5 DEF Groups
    <3> DEFINE was == g[<<i.n, t>>].todo
               is  == h[<<i.n, t>>].todo
    <3>2. was \in Seq(Planned) /\ is \in Seq(Planned) /\ ToSet(is) \subseteq ToSet(was)
      BY <1>3, <3>1 DEF Task
    <3>3. was = << >>
      BY <2>6
    <3> HIDE DEF was, is
    <3>4. ToSet(was) = {}
      BY <3>2, <3>3, ElementsOf
    <3>5. is = << >>
      BY <3>2, <3>4, ElementsOf
    <3> QED
      BY <3>5 DEF is
  <2>7. PhaseFine(s, i, h)
    BY <1>3, <2>6 DEF PhaseFine
  <2> QED
    BY <2>4, <2>7
<1> QED
  BY <1>2, <1>3

\* No import is running.
LEMMA IdleIsFine ==
  ASSUME NEW s, NEW g, NEW n \in Nat, n <= MaxImports
  PROVE  LET i == [NoImport EXCEPT !.n = n]
         IN  i \in Import /\ i.n = n /\ i.pc = "idle" /\ PlanFine(s, i, g) /\ PhaseFine(s, i, g)
<1> DEFINE i == [NoImport EXCEPT !.n = n]
<1>1. NoImport \in Import
  BY EmptyStoreType DEF NoImport, Import
<1>2. i \in Import
  BY <1>1 DEF Import
<1>3. i.pc = "idle" /\ i.mode = "shared" /\ i.waves = << >> /\ i.steps = << >> /\ i.insed = {} /\ i.n = n
  BY DEF NoImport
<1> HIDE DEF i
<1>4. Rest(i.steps) = {} /\ StepsSorted(i.steps) /\ ToSet(i.waves) = {}
  BY <1>3 DEF Rest, StepsSorted, ToSet
<1>5. PlanFine(s, i, g)
  BY <1>3, <1>4 DEF PlanFine
<1>6. PhaseFine(s, i, g)
  BY <1>3, <1>4 DEF PhaseFine
<1> QED
  BY <1>2, <1>3, <1>5, <1>6 DEF i

-----------------------------------------------------------------------------
(* The steps of a group keep it. *)

LEMMA InvFacts ==
  ASSUME BulkInv
  PROVE  /\ store \in Store /\ Sound(store) /\ imp \in Import /\ imp.n \in Nat
         /\ task \in [Groups -> Task] /\ mixed \in BOOLEAN /\ dispatches \in Nat
         /\ \A k \in Groups : /\ GroupFine(store, k, task[k]) /\ task[k] \in Task
                              /\ k[1] > imp.n => task[k].todo = << >>
         /\ PlanFine(store, imp, task) /\ PhaseFine(store, imp, task)
         /\ imp.pc # "idle" => \A t \in Targets : <<imp.n, t>> \in Groups
<1>1. /\ store \in Store /\ Sound(store) /\ imp \in Import
      /\ task \in [Groups -> Task] /\ mixed \in BOOLEAN /\ dispatches \in Nat
      /\ \A k \in Groups : /\ GroupFine(store, k, task[k])
                           /\ k[1] > imp.n => task[k].todo = << >>
      /\ PlanFine(store, imp, task) /\ PhaseFine(store, imp, task)
  BY DEF BulkInv, TypeOK, Groups
<1>2. imp.n \in Nat
  BY <1>1 DEF Import
<1>3. imp.pc # "idle" => imp.n \in 1 .. MaxImports
  BY <1>1, <1>2, BulkAssumption DEF PhaseFine
<1> QED
  BY <1>1, <1>2, <1>3 DEF Groups

\* A group that gets on, the log growing at most, all it has dropped being settled.
LEMMA GroupKeepsInv ==
  ASSUME BulkInv, NEW k \in Groups, NEW q \in Task, NEW r \in Store,
         Sound(r), ToSet(store.log) \subseteq ToSet(r.log), r.seq = store.seq,
         store' = r, task' = [task EXCEPT ![k] = q], imp' = imp, mixed' \in BOOLEAN,
         dispatches' = dispatches, GroupFine(r, k, q),
         ToSet(q.todo) \subseteq ToSet(task[k].todo),
         k[1] = imp.n /\ imp.pc # "idle" =>
           \A y \in ToSet(task[k].todo) : y \in ToSet(q.todo) \/ Settled(r, y)
  PROVE  BulkInv'
<1> DEFINE h == [task EXCEPT ![k] = q]
<1>1. /\ store \in Store /\ imp \in Import /\ imp.n \in Nat
      /\ task \in [Groups -> Task] /\ dispatches \in Nat
      /\ \A j \in Groups : /\ GroupFine(store, j, task[j]) /\ task[j] \in Task
                           /\ j[1] > imp.n => task[j].todo = << >>
      /\ PlanFine(store, imp, task) /\ PhaseFine(store, imp, task)
      /\ imp.pc # "idle" => \A t \in Targets : <<imp.n, t>> \in Groups
  BY InvFacts
<1>2. h \in [Groups -> Task] /\ \A j \in Groups : h[j] = IF j = k THEN q ELSE task[j]
  BY <1>1
<1>3. task' = h
  OBVIOUS
<1> HIDE DEF h
<1>4. store.seq \in Nat /\ store.seq <= r.seq
  BY <1>1 DEF Store
<1>5. \A j \in Groups : GroupFine(r, j, h[j])
  <2>1. \A j \in Groups : GroupFine(r, j, task[j])
    BY <1>1, <1>4, GroupGrows
  <2> QED
    BY <1>2, <2>1
<1>6. \A j \in Groups : j[1] > imp.n => h[j].todo = << >>
  <2>1. ASSUME k[1] > imp.n PROVE q.todo = << >>
    <3> DEFINE was == task[k].todo
               is  == q.todo
    <3>1. was \in Seq(Planned) /\ is \in Seq(Planned) /\ ToSet(is) \subseteq ToSet(was)
      BY <1>1 DEF Task
    <3>2. was = << >>
      BY <1>1, <2>1
    <3> HIDE DEF was, is
    <3>3. ToSet(was) = {}
      BY <3>1, <3>2, ElementsOf
    <3>4. is = << >>
      BY <3>1, <3>3, ElementsOf
    <3> QED
      BY <3>4 DEF is
  <2> QED
    BY <1>1, <1>2, <2>1
<1>7. PlanFine(r, imp, task) /\ PhaseFine(r, imp, task)
  BY <1>1, <1>4, ImportGrows
<1>8. PlanFine(r, imp, h) /\ PhaseFine(r, imp, h)
  <2>1. ASSUME imp.pc # "idle", NEW t \in Targets
        PROVE  /\ ToSet(h[<<imp.n, t>>].todo) \subseteq ToSet(task[<<imp.n, t>>].todo)
               /\ \A y \in ToSet(task[<<imp.n, t>>].todo) : y \in ToSet(h[<<imp.n, t>>].todo) \/ Settled(r, y)
    <3> DEFINE j == <<imp.n, t>>
    <3>1. j \in Groups /\ j[1] = imp.n
      BY <1>1, <2>1
    <3> HIDE DEF j
    <3>2. /\ ToSet(h[j].todo) \subseteq ToSet(task[j].todo)
          /\ \A y \in ToSet(task[j].todo) : y \in ToSet(h[j].todo) \/ Settled(r, y)
      BY <1>2, <2>1, <3>1
    <3> QED
      BY <3>2 DEF j
  <2> QED
    BY <1>1, <1>2, <1>7, <2>1, ImportAdvances
<1> QED
  BY <1>1, <1>2, <1>3, <1>5, <1>6, <1>8, Zenon DEF BulkInv, TypeOK, Groups

\* What a group has at its head is covered by the log.
LEMMA HeadIsCovered ==
  ASSUME NEW s \in Store, NEW k, NEW g \in Task, GroupFine(s, k, g), g.todo # << >>
  PROVE  LET x == Head(g.todo)
         IN  /\ x \in Planned /\ x \in ToSet(g.todo) /\ x.ev \in Usable /\ x.ev \in Event
             /\ x.ev.on = k[2] /\ x.seq <= s.seq
             /\ x.ev.op \in NeedsINS => INSBefore(ToSet(s.log), x.ev.on, x.seq)
<1> DEFINE todo == g.todo
           x    == Head(todo)
<1>1. todo \in Seq(Planned) /\ todo # << >> /\ Ascending(todo)
  BY DEF Task, GroupFine
<1> HIDE DEF todo
<1>2. /\ x \in ToSet(todo) /\ ToSet(todo) = {x} \union ToSet(Tail(todo))
      /\ ToSet(todo) \in SUBSET Planned
  BY <1>1, HeadAndTail, ElementsOf
<1>3. \A y \in ToSet(Tail(todo)) : x.seq < y.seq
  BY <1>1, AscendingTail
<1> HIDE DEF x
<1>4. \A y \in ToSet(todo) : y.seq \in Nat
  BY <1>2 DEF Planned
<1>5. x.ev \in Usable /\ x.ev.on = k[2] /\ x.seq <= s.seq /\ Covered(s, x, ToSet(todo))
  BY <1>2 DEF GroupFine, todo
<1>6. \A y \in ToSet(todo) : ~(y.seq < x.seq)
  BY <1>2, <1>3, <1>4
<1>7. x.ev.op \in NeedsINS => INSBefore(ToSet(s.log), x.ev.on, x.seq)
  BY <1>5, <1>6 DEF Covered
<1>8. x.ev \in Event
  BY <1>5, EventsInUse
<1> QED
  BY <1>2, <1>5, <1>7, <1>8 DEF x, todo

\* Logging the event a group has come to keeps the store sound.
LEMMA LoggedIsSound ==
  ASSUME NEW s \in Store, Sound(s), NEW x \in Planned, x.ev \in Usable, x.seq <= s.seq,
         x.ev.op \in NeedsINS => INSBefore(ToSet(s.log), x.ev.on, x.seq)
  PROVE  LET r == WithEdges(Logged(s, x), x.ev)
         IN  /\ r \in Store /\ Sound(r) /\ r.seq = s.seq
             /\ ToSet(r.log) = ToSet(s.log) \union {x}
<1> DEFINE r   == WithEdges(Logged(s, x), x.ev)
           l   == Append(s.log, x)
           ids == s.idem \union {x.ev.id}
           es  == s.edges \union ({x.ev.on} \X x.ev.to)
<1>1. /\ s.log \in Seq(Planned) /\ s.idem \in SUBSET Nat /\ s.edges \in SUBSET (Targets \X Targets)
      /\ x.ev \in Event
  BY EventsInUse DEF Store
<1>2. ToSet(l) = ToSet(s.log) \union {x} /\ l \in Seq(Planned)
  BY <1>1, Appended
<1>3. ids \in SUBSET Nat /\ es \in SUBSET (Targets \X Targets)
  BY <1>1 DEF Event
<1>4. r = [s EXCEPT !.log = l, !.idem = ids, !.edges = es]
  BY DEF WithEdges, Logged, Store
<1> HIDE DEF r, l, ids, es
<1>5. /\ r \in Store /\ r.seq = s.seq /\ r.log = l /\ r.idem = ids /\ r.helix = s.helix
  BY <1>2, <1>3, <1>4 DEF Store
<1>6. LogOrdered(r)
  BY <1>2, <1>5 DEF Sound, LogOrdered, INSBefore
<1>7. IdsLogged(r)
  BY <1>2, <1>5 DEF Sound, IdsLogged, ids
<1>8. HelixLogged(r)
  BY <1>2, <1>5 DEF Sound, HelixLogged, HasINS
<1> QED
  BY <1>2, <1>5, <1>6, <1>7, <1>8 DEF Sound, r

\* A group that stays with its event.
LEMMA SameEvent ==
  ASSUME NEW s, NEW k, NEW g, GroupFine(s, k, g), NEW q, q.todo = g.todo,
         q.pc \in {"read", "write"} => Head(g.todo) \in ToSet(s.log),
         q.pc = "write" => q.ops # << >>
  PROVE  GroupFine(s, k, q)
BY DEF GroupFine

\* A group that is done with its event.
LEMMA NextEventKeepsInv ==
  ASSUME BulkInv, NEW k \in Groups, task[k].todo # << >>, Settled(store, Head(task[k].todo)),
         task' = [task EXCEPT ![k] = NextEvent(k)],
         UNCHANGED <<store, imp, mixed, dispatches>>
  PROVE  BulkInv'
<1> DEFINE q == NextEvent(k)
<1>1. /\ store \in Store /\ Sound(store) /\ mixed \in BOOLEAN
      /\ GroupFine(store, k, task[k]) /\ task[k] \in Task
  BY InvFacts
<1>2. /\ q \in Task /\ GroupFine(store, k, q)
      /\ ToSet(task[k].todo) = {Head(task[k].todo)} \union ToSet(q.todo)
  BY <1>1, GroupAdvances DEF NextEvent
<1>3. store.seq = store.seq /\ ToSet(store.log) \subseteq ToSet(store.log)
  OBVIOUS
<1>4. /\ ToSet(q.todo) \subseteq ToSet(task[k].todo)
      /\ \A y \in ToSet(task[k].todo) : y \in ToSet(q.todo) \/ Settled(store, y)
  BY <1>2
<1>5. /\ store' = store /\ task' = [task EXCEPT ![k] = q] /\ imp' = imp
      /\ mixed' \in BOOLEAN /\ dispatches' = dispatches
  BY <1>1
<1> HIDE DEF q
<1> QED
  BY <1>1, <1>2, <1>4, <1>5, GroupKeepsInv

\* A group that stays with its event, the log growing at most.
LEMMA SameEventKeepsInv ==
  ASSUME BulkInv, NEW k \in Groups, NEW q \in Task, q.todo = task[k].todo, NEW r \in Store,
         Sound(r), ToSet(store.log) \subseteq ToSet(r.log), r.seq = store.seq,
         q.pc \in {"read", "write"} => Head(task[k].todo) \in ToSet(r.log),
         q.pc = "write" => q.ops # << >>,
         store' = r, task' = [task EXCEPT ![k] = q], UNCHANGED <<imp, mixed, dispatches>>
  PROVE  BulkInv'
<1>1. /\ store \in Store /\ store.seq \in Nat /\ mixed \in BOOLEAN
      /\ GroupFine(store, k, task[k]) /\ task[k] \in Task
  BY InvFacts DEF Store
<1>2. store.seq <= r.seq
  BY <1>1
<1>3. GroupFine(r, k, task[k])
  BY <1>1, <1>2, GroupGrows
<1>4. GroupFine(r, k, q)
  BY <1>3, SameEvent
<1>5. mixed' \in BOOLEAN /\ imp' = imp /\ dispatches' = dispatches
  BY <1>1
<1>6. /\ ToSet(q.todo) \subseteq ToSet(task[k].todo)
      /\ \A y \in ToSet(task[k].todo) : y \in ToSet(q.todo) \/ Settled(r, y)
  OBVIOUS
<1> QED
  BY <1>4, <1>5, <1>6, GroupKeepsInv

\* A head that is in the log is settled.
LEMMA LoggedIsSettled ==
  ASSUME NEW s, NEW x, x \in ToSet(s.log)
  PROVE  Settled(s, x)
BY DEF Settled

LEMMA SkipKnownKeeps ==
  ASSUME BulkInv, NEW k \in Groups, SkipKnown(k)
  PROVE  BulkInv'
<1> DEFINE x == Head(task[k].todo)
<1>1. /\ task[k].todo # << >> /\ Known(store, x.ev)
      /\ task' = [task EXCEPT ![k] = NextEvent(k)] /\ UNCHANGED <<store, imp, mixed, dispatches>>
  BY DEF SkipKnown, Working, Doing, GroupOnly
<1>2. /\ store \in Store /\ Sound(store) /\ GroupFine(store, k, task[k]) /\ task[k] \in Task
  BY InvFacts
<1>3. x.ev \in Usable
  BY <1>1, <1>2, HeadIsCovered
<1> HIDE DEF x
<1>4. \E y \in ToSet(store.log) : y.ev = x.ev
  BY <1>1, <1>2, <1>3, KnownIsLogged
<1>5. Settled(store, x)
  BY <1>1, <1>4 DEF Settled, Known
<1> QED
  BY <1>1, <1>5, NextEventKeepsInv DEF x

LEMMA CheckEventKeeps ==
  ASSUME BulkInv, NEW k \in Groups, CheckEvent(k)
  PROVE  BulkInv'
<1> DEFINE g == task[k]
           q == [g EXCEPT !.pc = "log"]
<1>1. /\ store \in Store /\ Sound(store) /\ g \in Task /\ task \in [Groups -> Task]
  BY InvFacts
<1>2. /\ task' = [task EXCEPT ![k] = q] /\ store' = store /\ UNCHANGED <<imp, mixed, dispatches>>
  BY <1>1 DEF CheckEvent, GroupOnly
<1>3. q \in Task /\ q.todo = g.todo /\ q.pc = "log"
  BY <1>1 DEF Task
<1> HIDE DEF q
<1> QED
  BY <1>1, <1>2, <1>3, SameEventKeepsInv

LEMMA LogEventKeeps ==
  ASSUME BulkInv, NEW k \in Groups, LogEvent(k)
  PROVE  BulkInv'
<1> DEFINE g   == task[k]
           x   == Head(g.todo)
           ops == RowOps(x.ev)
           q   == [g EXCEPT !.pc = "read", !.ops = ops]
           r   == WithEdges(Logged(store, x), x.ev)
<1>1. /\ store \in Store /\ Sound(store) /\ g \in Task /\ task \in [Groups -> Task]
      /\ GroupFine(store, k, g) /\ g.todo # << >>
  BY InvFacts DEF LogEvent, Working
<1>2. /\ x \in Planned /\ x.ev \in Usable /\ x.ev \in Event /\ x.seq <= store.seq
      /\ x.ev.op \in NeedsINS => INSBefore(ToSet(store.log), x.ev.on, x.seq)
  BY <1>1, HeadIsCovered
<1>3. r \in Store /\ Sound(r) /\ r.seq = store.seq /\ ToSet(r.log) = ToSet(store.log) \union {x}
  <2> HIDE DEF x, r
  <2> QED
    BY <1>1, <1>2, LoggedIsSound DEF r
<1>4. ops \in Seq(RowOp)
  <2> HIDE DEF x
  <2> QED
    BY <1>2, RowOpsType
<1>5. /\ task' = [task EXCEPT ![k] = q] /\ store' = r /\ UNCHANGED <<imp, mixed, dispatches>>
  BY <1>1 DEF LogEvent, GroupOnly, Doing
<1> HIDE DEF ops
<1>6. q \in Task /\ q.todo = g.todo /\ q.pc = "read"
  BY <1>1, <1>4 DEF Task, RowOp
<1>7. Head(g.todo) \in ToSet(r.log)
  BY <1>3
<1>8. ToSet(store.log) \subseteq ToSet(r.log)
  BY <1>3
<1> HIDE DEF q, r, x
<1> QED
  BY <1>1, <1>3, <1>5, <1>6, <1>7, <1>8, SameEventKeepsInv

LEMMA EndEventKeeps ==
  ASSUME BulkInv, NEW k \in Groups, EndEvent(k)
  PROVE  BulkInv'
<1>1. /\ task[k].todo # << >> /\ task[k].pc = "read"
      /\ task' = [task EXCEPT ![k] = NextEvent(k)] /\ UNCHANGED <<store, imp, mixed, dispatches>>
  BY DEF EndEvent, Working, GroupOnly
<1>2. Head(task[k].todo) \in ToSet(store.log)
  BY <1>1, InvFacts DEF GroupFine
<1>3. Settled(store, Head(task[k].todo))
  BY <1>2, LoggedIsSettled
<1> QED
  BY <1>1, <1>3, NextEventKeepsInv

\* What a group at a row operation knows of it.
LEMMA AtRowOp ==
  ASSUME BulkInv, NEW k \in Groups, task[k].todo # << >>, task[k].ops # << >>
  PROVE  /\ Head(task[k].ops) \in RowOp /\ Tail(task[k].ops) \in Seq(RowOp)
         /\ store.rows \in [Targets -> Row] /\ store.rows[Head(task[k].ops).row] \in Row
         /\ task[k].copy \in Row /\ Doing(k) \in Event /\ Doing(k).on = k[2]
<1> DEFINE ops == task[k].ops
<1>1. /\ store \in Store /\ GroupFine(store, k, task[k]) /\ task[k] \in Task
  BY InvFacts
<1>2. ops \in Seq(RowOp) /\ ops # << >> /\ task[k].copy \in Row
  BY <1>1 DEF Task, RowOp
<1> HIDE DEF ops
<1>3. Head(ops) \in RowOp /\ Tail(ops) \in Seq(RowOp)
  BY <1>2, HeadAndTail, ElementsOf
<1>4. store.rows \in [Targets -> Row]
  BY <1>1 DEF Store
<1>5. Head(ops).row \in Targets
  BY <1>3 DEF RowOp
<1>6. Doing(k) \in Event /\ Doing(k).on = k[2]
  BY <1>1, HeadIsCovered DEF Doing
<1> QED
  BY <1>2, <1>3, <1>4, <1>5, <1>6 DEF ops

\* A row operation that is done, whether it wrote the row or not.
LEMMA NextRowKeepsInv ==
  ASSUME BulkInv, NEW k \in Groups, task[k].todo # << >>, task[k].ops # << >>,
         Head(task[k].todo) \in ToSet(store.log),
         NEW r \in Store, Sound(r), r.log = store.log, r.seq = store.seq,
         store' = r, task' = [task EXCEPT ![k] = NextRow(k)], UNCHANGED <<imp, mixed, dispatches>>
  PROVE  BulkInv'
<1> DEFINE g    == task[k]
           left == Tail(g.ops)
           q    == [g EXCEPT !.pc = "read", !.ops = left, !.copy = NoRow]
<1>1. g \in Task /\ left \in Seq(RowOp)
  BY InvFacts, AtRowOp
<1>2. NextRow(k) = q
  BY DEF NextRow
<1> HIDE DEF left
<1>3. q \in Task /\ q.todo = g.todo /\ q.pc = "read"
  BY <1>1, NoRowType DEF Task, RowOp
<1> HIDE DEF q
<1>4. ToSet(store.log) \subseteq ToSet(r.log) /\ Head(g.todo) \in ToSet(r.log)
  OBVIOUS
<1> QED
  BY <1>2, <1>3, <1>4, SameEventKeepsInv

LEMMA ReadRowKeeps ==
  ASSUME BulkInv, NEW k \in Groups, ReadRow(k)
  PROVE  BulkInv'
<1> DEFINE g   == task[k]
           o   == Head(g.ops)
           row == store.rows[o.row]
<1>1. /\ g.todo # << >> /\ g.ops # << >> /\ g.pc = "read"
      /\ task' = [task EXCEPT ![k] =
                    IF ~Skips(o, Doing(k), row) THEN [@ EXCEPT !.pc = "write", !.copy = row]
                    ELSE IF o.do = "apply" THEN NextEvent(k) ELSE NextRow(k)]
      /\ UNCHANGED <<store, imp, mixed, dispatches>>
  BY DEF ReadRow, Working, GroupOnly
<1>2. /\ store \in Store /\ Sound(store) /\ g \in Task /\ task \in [Groups -> Task]
      /\ GroupFine(store, k, g)
  BY InvFacts
<1>3. row \in Row
  BY <1>1, AtRowOp
<1>4. Head(g.todo) \in ToSet(store.log)
  BY <1>1, <1>2 DEF GroupFine
<1>5. CASE ~Skips(o, Doing(k), row)
  <2> DEFINE q == [g EXCEPT !.pc = "write", !.copy = row]
  <2>1. task' = [task EXCEPT ![k] = q]
    BY <1>1, <1>2, <1>5
  <2> HIDE DEF row
  <2>2. q \in Task /\ q.todo = g.todo /\ q.ops # << >>
    BY <1>1, <1>2, <1>3 DEF Task
  <2> HIDE DEF q
  <2> QED
    BY <1>1, <1>2, <1>4, <2>1, <2>2, SameEventKeepsInv
<1>6. CASE Skips(o, Doing(k), row) /\ o.do = "apply"
  <2>1. task' = [task EXCEPT ![k] = NextEvent(k)]
    BY <1>1, <1>6
  <2>2. Settled(store, Head(g.todo))
    BY <1>4, LoggedIsSettled
  <2> QED
    BY <1>1, <2>1, <2>2, NextEventKeepsInv
<1>7. CASE Skips(o, Doing(k), row) /\ o.do # "apply"
  <2>1. task' = [task EXCEPT ![k] = NextRow(k)]
    BY <1>1, <1>7
  <2> QED
    BY <1>1, <1>2, <1>4, <2>1, NextRowKeepsInv
<1> QED
  BY <1>5, <1>6, <1>7

LEMMA WriteRowKeeps ==
  ASSUME BulkInv, NEW k \in Groups, WriteRow(k)
  PROVE  BulkInv'
<1> DEFINE g   == task[k]
           o   == Head(g.ops)
           e   == Doing(k)
           put == Put(o, e, g.copy, store.rows[o.row], store.edges)
           r   == [store EXCEPT !.rows[o.row] = put]
<1>1. /\ g.todo # << >> /\ g.pc = "write" /\ task' = [task EXCEPT ![k] = NextRow(k)]
      /\ store' = r /\ UNCHANGED <<imp, mixed, dispatches>>
  BY DEF WriteRow, Working, GroupOnly
<1>2. /\ store \in Store /\ Sound(store) /\ GroupFine(store, k, g)
  BY InvFacts
<1>3. g.ops # << >> /\ Head(g.todo) \in ToSet(store.log)
  BY <1>1, <1>2 DEF GroupFine
<1>4. /\ o \in RowOp /\ e \in Event /\ g.copy \in Row /\ store.rows \in [Targets -> Row]
      /\ store.rows[o.row] \in Row
  BY <1>1, <1>3, AtRowOp
<1>5. store.edges \in SUBSET (Targets \X Targets) /\ o.row \in Targets
  BY <1>2, <1>4 DEF Store, RowOp
<1> HIDE DEF o, e
<1>6. put \in Row
  BY <1>4, <1>5, PutType
<1> HIDE DEF put
<1>7. /\ r \in Store /\ r.log = store.log /\ r.seq = store.seq /\ r.idem = store.idem
      /\ r.helix = store.helix
  BY <1>2, <1>4, <1>5, <1>6 DEF Store
<1> HIDE DEF r
<1>8. Sound(r)
  BY <1>2, <1>7 DEF Sound, LogOrdered, IdsLogged, HelixLogged
<1> QED
  BY <1>1, <1>3, <1>7, <1>8, NextRowKeepsInv

LEMMA DeclareTargetKeeps ==
  ASSUME BulkInv, NEW k \in Groups, DeclareTarget(k)
  PROVE  BulkInv'
<1> DEFINE g   == task[k]
           x   == Head(g.todo)
           pos == IF x.ev.op = "INS" THEN store.helix \union {x.ev.on} ELSE store.helix
           r   == [store EXCEPT !.helix = pos]
<1>1. /\ g.todo # << >> /\ g.ops # << >> /\ g.pc = "read"
      /\ task' = [task EXCEPT ![k] = NextRow(k)] /\ UNCHANGED <<imp, mixed, dispatches>>
      /\ store' = Declared(store, x.ev)
  BY DEF DeclareTarget, Working, GroupOnly, Doing
<1>2. /\ store \in Store /\ Sound(store) /\ g \in Task /\ GroupFine(store, k, g)
  BY InvFacts
<1>3. x \in ToSet(store.log)
  BY <1>1, <1>2 DEF GroupFine
<1>4. x.ev \in Event /\ store.helix \in SUBSET Targets
  BY <1>1, <1>2, HeadIsCovered DEF Store
<1>5. store' = r
  BY <1>1 DEF Declared
<1>6. pos \in SUBSET Targets
  BY <1>4 DEF Event
<1>7. \A t \in pos : HasINS(ToSet(store.log), t)
  BY <1>2, <1>3 DEF Sound, HelixLogged, HasINS
<1> HIDE DEF pos
<1>8. /\ r \in Store /\ r.log = store.log /\ r.seq = store.seq /\ r.idem = store.idem
      /\ r.helix = pos
  BY <1>2, <1>6 DEF Store
<1> HIDE DEF r
<1>9. Sound(r)
  BY <1>2, <1>7, <1>8 DEF Sound, LogOrdered, IdsLogged, HelixLogged
<1> QED
  BY <1>1, <1>3, <1>5, <1>8, <1>9, NextRowKeepsInv


\* An empty group, and a phase without an import, ask nothing of the log.
LEMMA EmptyGroup ==
  ASSUME NEW s, NEW k, NEW g, g.todo = << >>, g.pc = "write" => g.ops # << >>
  PROVE  GroupFine(s, k, g)
BY DEF GroupFine, Ascending, ToSet

LEMMA IdleStays ==
  ASSUME NEW s, NEW r, NEW i, NEW g, i.pc = "idle", PhaseFine(s, i, g)
  PROVE  PlanFine(r, i, g) /\ PhaseFine(r, i, g)
<1>1. i.steps = << >> /\ i.insed = {}
  BY DEF PhaseFine
<1>2. Rest(i.steps) = {} /\ StepsSorted(i.steps)
  BY <1>1 DEF Rest, StepsSorted
<1>3. PlanFine(r, i, g)
  BY <1>1, <1>2 DEF PlanFine
<1>4. PhaseFine(r, i, g)
  BY DEF PhaseFine
<1> QED
  BY <1>3, <1>4

LEMMA SamePlan ==
  ASSUME NEW s, NEW i, NEW g, PlanFine(s, i, g), NEW j, j.steps = i.steps, j.insed = i.insed, j.n = i.n
  PROVE  PlanFine(s, j, g)
BY DEF PlanFine, Ahead

\* The import gives the mutex back.
LEMMA LeavingKeepsInv ==
  ASSUME BulkInv, NEW h \in [Groups -> Task],
         \A k \in Groups : GroupFine(store, k, h[k]) /\ (k[1] > imp.n => h[k].todo = << >>),
         store' = store, imp' = [NoImport EXCEPT !.n = imp.n], task' = h, mixed' \in BOOLEAN,
         dispatches' = dispatches
  PROVE  BulkInv'
<1> DEFINE i == [NoImport EXCEPT !.n = imp.n]
<1>1. /\ store \in Store /\ Sound(store) /\ imp.n \in Nat /\ dispatches \in Nat
      /\ imp.n <= MaxImports
  BY InvFacts DEF PhaseFine
<1>2. i \in Import /\ i.n = imp.n /\ PlanFine(store, i, h) /\ PhaseFine(store, i, h)
  BY <1>1, IdleIsFine
<1>3. imp' = i
  OBVIOUS
<1> HIDE DEF i
<1> QED
  BY <1>1, <1>2, <1>3, Zenon DEF BulkInv, TypeOK, Groups

LEMMA RejectImportKeeps ==
  ASSUME BulkInv, NEW k \in Groups, RejectImport(k)
  PROVE  BulkInv'
<1>1. /\ task[k].todo # << >> /\ task' = [task EXCEPT ![k] = NoTask] /\ mixed' = TRUE
      /\ imp' = IF k[1] = imp.n /\ imp.pc = "run" THEN [NoImport EXCEPT !.n = imp.n] ELSE imp
      /\ store' = store /\ dispatches' = dispatches
  BY DEF RejectImport, Working
<1>2. /\ store \in Store /\ Sound(store) /\ imp \in Import /\ task \in [Groups -> Task]
      /\ \A j \in Groups : /\ GroupFine(store, j, task[j])
                           /\ j[1] > imp.n => task[j].todo = << >>
      /\ PhaseFine(store, imp, task)
  BY InvFacts
<1>3. NoTask \in Task /\ NoTask.todo = << >> /\ NoTask.pc = "check" /\ ToSet(NoTask.todo) = {}
  BY NoRowType DEF NoTask, ToSet
<1>4. GroupFine(store, k, NoTask)
  BY <1>3, EmptyGroup
<1>5. CASE k[1] = imp.n /\ imp.pc = "run"
  <2> DEFINE h == [task EXCEPT ![k] = NoTask]
  <2>1. h \in [Groups -> Task] /\ \A j \in Groups : h[j] = IF j = k THEN NoTask ELSE task[j]
    BY <1>2, <1>3
  <2>2. task' = h /\ imp' = [NoImport EXCEPT !.n = imp.n] /\ mixed' \in BOOLEAN
    BY <1>1, <1>5
  <2> HIDE DEF h
  <2>3. \A j \in Groups : GroupFine(store, j, h[j]) /\ (j[1] > imp.n => h[j].todo = << >>)
    BY <1>2, <1>3, <1>4, <2>1
  <2> QED
    BY <1>1, <2>1, <2>2, <2>3, LeavingKeepsInv
<1>6. CASE ~(k[1] = imp.n /\ imp.pc = "run")
  <2>1. imp' = imp /\ mixed' \in BOOLEAN
    BY <1>1, <1>6
  <2>2. ~(k[1] = imp.n /\ imp.pc # "idle")
    <3> SUFFICES ASSUME k[1] = imp.n, imp.pc # "idle" PROVE FALSE
      OBVIOUS
    <3>1. imp.pc = "done" \/ (imp.mode = "isolated" /\ imp.pc # "idle")
      BY <1>2, <1>6 DEF PhaseFine, Import
    <3>2. k[2] \in Targets /\ k = <<imp.n, k[2]>>
      BY DEF Groups
    <3> DEFINE t == k[2]
    <3> HIDE DEF t
    <3>3. task[<<imp.n, t>>].todo = << >>
      BY <1>2, <3>1, <3>2 DEF PhaseFine, t
    <3> QED
      BY <1>1, <3>2, <3>3 DEF t
  <2>3. ToSet(NoTask.todo) \subseteq ToSet(task[k].todo) /\ ToSet(store.log) \subseteq ToSet(store.log)
    BY <1>3
  <2> QED
    BY <1>1, <1>2, <1>3, <1>4, <2>1, <2>2, <2>3, GroupKeepsInv
<1> QED
  BY <1>5, <1>6

LEMMA GroupStepKeeps ==
  ASSUME BulkInv, NEW k \in Groups, GroupStep(k)
  PROVE  BulkInv'
<1>1. CASE SkipKnown(k)
  BY <1>1, SkipKnownKeeps
<1>2. CASE CheckEvent(k)
  BY <1>2, CheckEventKeeps
<1>3. CASE RejectImport(k)
  BY <1>3, RejectImportKeeps
<1>4. CASE LogEvent(k)
  BY <1>4, LogEventKeeps
<1>5. CASE ReadRow(k)
  BY <1>5, ReadRowKeeps
<1>6. CASE WriteRow(k)
  BY <1>6, WriteRowKeeps
<1>7. CASE DeclareTarget(k)
  BY <1>7, DeclareTargetKeeps
<1>8. CASE EndEvent(k)
  BY <1>8, EndEventKeeps
<1> QED
  BY <1>1, <1>2, <1>3, <1>4, <1>5, <1>6, <1>7, <1>8 DEF GroupStep

-----------------------------------------------------------------------------
(* The steps of the import keep it. *)

\* A step that leaves the groups alone.
LEMMA ImportKeepsInv ==
  ASSUME BulkInv, NEW r \in Store, Sound(r), NEW i \in Import, NEW h \in [Groups -> Task],
         \A k \in Groups : GroupFine(r, k, h[k]) /\ (k[1] > i.n => h[k].todo = << >>),
         PlanFine(r, i, h), PhaseFine(r, i, h),
         store' = r, imp' = i, task' = h, mixed' \in BOOLEAN, dispatches' \in Nat
  PROVE  BulkInv'
BY Zenon DEF BulkInv, TypeOK, Groups

LEMMA DispatchKeeps ==
  ASSUME BulkInv, NEW e \in Locals, Dispatch(e)
  PROVE  BulkInv'
<1> DEFINE r == processEvent(store, e)
<1>1. /\ imp.pc = "idle" /\ \A n \in 1 .. MaxImports, t \in Targets : task[<<n, t>>].todo = << >>
      /\ store' = r /\ dispatches' = dispatches + 1 /\ UNCHANGED <<imp, task, mixed>>
  BY DEF Dispatch, Quiet
<1>2. /\ store \in Store /\ Sound(store) /\ imp \in Import /\ task \in [Groups -> Task]
      /\ mixed \in BOOLEAN /\ dispatches \in Nat /\ PhaseFine(store, imp, task)
      /\ \A k \in Groups : GroupFine(store, k, task[k])
  BY InvFacts
<1>3. e \in Usable
  BY DEF Usable, Given
<1>4. r \in Store /\ Sound(r)
  BY <1>2, <1>3, SerialIsSound
<1>5. \A k \in Groups : task[k].todo = << >>
  BY <1>1 DEF Groups
<1>6. \A k \in Groups : GroupFine(r, k, task[k])
  BY <1>2, <1>5, EmptyGroup DEF GroupFine
<1>7. PlanFine(r, imp, task) /\ PhaseFine(r, imp, task)
  BY <1>1, <1>2, IdleStays
<1>8. dispatches' \in Nat /\ mixed' \in BOOLEAN /\ imp' = imp /\ task' = task
  BY <1>1, <1>2
<1> HIDE DEF r
<1> QED
  BY <1>1, <1>2, <1>4, <1>5, <1>6, <1>7, <1>8, ImportKeepsInv

LEMMA BeginKeeps ==
  ASSUME BulkInv, NEW b \in Imports, NEW mode \in Modes, Begin(b, mode)
  PROVE  BulkInv'
<1> DEFINE n == imp.n + 1
           w == sortByHelixLevel(b)
           i == [n |-> n, pc |-> "run", mode |-> mode, waves |-> w, steps |-> << >>,
                 insed |-> {}, batch |-> b, from |-> store, snap |-> EmptyStore]
<1>1. /\ imp.n < MaxImports /\ imp' = i /\ mixed' = (mixed \/ Meets(store, b))
      /\ UNCHANGED <<store, task, dispatches>>
  BY DEF Begin
<1>2. /\ store \in Store /\ Sound(store) /\ imp.n \in Nat /\ task \in [Groups -> Task]
      /\ dispatches \in Nat
      /\ \A k \in Groups : /\ GroupFine(store, k, task[k])
                           /\ k[1] > imp.n => task[k].todo = << >>
  BY InvFacts
<1>3. b \in Seq(Event) /\ mode \in {"shared", "isolated"} /\ MaxImports \in Nat
  BY BulkAssumption
<1>4. /\ w \in Seq(Seq(Event))
      /\ \A x \in ToSet(w) : ToSet(x) \subseteq ToSet(b) /\ Pure(x)
  BY <1>3, WavesArePure
<1>5. ToSet(b) \subseteq Given
  BY DEF Given
<1>6. n \in Nat /\ n \in 1 .. MaxImports /\ n > imp.n
  BY <1>1, <1>2, <1>3
<1> HIDE DEF n, w
<1>7. i \in Import
  BY <1>2, <1>3, <1>4, <1>6, EmptyStoreType DEF Import
<1>8. /\ i.n = n /\ i.pc = "run" /\ i.waves = w /\ i.steps = << >> /\ i.insed = {}
  OBVIOUS
<1> HIDE DEF i
<1>9. PlanFine(store, i, task)
  <2>1. Rest(i.steps) = {} /\ StepsSorted(i.steps)
    BY <1>8 DEF Rest, StepsSorted
  <2> QED
    BY <1>8, <2>1 DEF PlanFine
<1>10. PhaseFine(store, i, task)
  <2>1. \A t \in Targets : task[<<n, t>>].todo = << >>
    <3>1. \A t \in Targets : <<n, t>> \in Groups /\ <<n, t>>[1] > imp.n
      BY <1>6 DEF Groups
    <3> QED
      BY <1>2, <3>1
  <2>2. i.n <= MaxImports /\ i.n # 0
    BY <1>2, <1>6, <1>8
  <2>3. \A x \in ToSet(i.waves) : ToSet(x) \subseteq Given /\ Pure(x)
    BY <1>4, <1>5, <1>8
  <2> QED
    BY <1>8, <2>1, <2>2, <2>3 DEF PhaseFine
<1>11. \A k \in Groups : GroupFine(store, k, task[k]) /\ (k[1] > i.n => task[k].todo = << >>)
  <2>1. \A k \in Groups : k[1] \in Nat
    BY DEF Groups
  <2> QED
    BY <1>2, <1>6, <1>8, <2>1
<1>12. mixed' \in BOOLEAN /\ dispatches' \in Nat /\ store' = store /\ task' = task
  BY <1>1, <1>2
<1> QED
  BY <1>1, <1>2, <1>7, <1>9, <1>10, <1>11, <1>12, ImportKeepsInv

LEMMA FinishKeeps ==
  ASSUME BulkInv, Finish
  PROVE  BulkInv'
<1> DEFINE i == [imp EXCEPT !.pc = "done"]
<1>1. /\ imp.pc = "run" /\ imp' = i /\ UNCHANGED <<store, task, mixed, dispatches>>
      /\ \A t \in Targets : task[<<imp.n, t>>].todo = << >>
  BY DEF Finish, Quiet
<1>2. /\ store \in Store /\ Sound(store) /\ imp \in Import /\ task \in [Groups -> Task]
      /\ mixed \in BOOLEAN /\ dispatches \in Nat
      /\ \A k \in Groups : /\ GroupFine(store, k, task[k])
                           /\ k[1] > imp.n => task[k].todo = << >>
      /\ PlanFine(store, imp, task) /\ PhaseFine(store, imp, task)
  BY InvFacts
<1>3. /\ i \in Import /\ i.pc = "done" /\ i.n = imp.n /\ i.steps = imp.steps
      /\ i.insed = imp.insed /\ i.waves = imp.waves
  BY <1>2 DEF Import
<1> HIDE DEF i
<1>4. PlanFine(store, i, task)
  BY <1>2, <1>3, SamePlan
<1>5. PhaseFine(store, i, task)
  BY <1>1, <1>2, <1>3 DEF PhaseFine
<1> QED
  BY <1>1, <1>2, <1>3, <1>4, <1>5, ImportKeepsInv

LEMMA ShipStepKeeps ==
  ASSUME BulkInv, ShipStep
  PROVE  BulkInv'
<1> DEFINE i == [imp EXCEPT !.pc = "shipped", !.snap = store]
<1>1. /\ imp.pc = "run" /\ imp.mode = "isolated" /\ imp.steps # << >> /\ imp' = i
      /\ UNCHANGED <<store, task, mixed, dispatches>>
  BY DEF ShipStep
<1>2. /\ store \in Store /\ Sound(store) /\ imp \in Import /\ task \in [Groups -> Task]
      /\ mixed \in BOOLEAN /\ dispatches \in Nat
      /\ \A k \in Groups : /\ GroupFine(store, k, task[k])
                           /\ k[1] > imp.n => task[k].todo = << >>
      /\ PlanFine(store, imp, task) /\ PhaseFine(store, imp, task)
  BY InvFacts
<1>3. /\ i \in Import /\ i.pc = "shipped" /\ i.n = imp.n /\ i.steps = imp.steps
      /\ i.insed = imp.insed /\ i.waves = imp.waves /\ i.mode = imp.mode /\ i.snap = store
  BY <1>2 DEF Import
<1> HIDE DEF i
<1>4. PlanFine(store, i, task)
  BY <1>2, <1>3, SamePlan
<1>5. PhaseFine(store, i, task)
  BY <1>1, <1>2, <1>3, SoundIsRecorded DEF PhaseFine
<1> QED
  BY <1>1, <1>2, <1>3, <1>4, <1>5, ImportKeepsInv

LEMMA LeaveKeeps ==
  ASSUME BulkInv, Leave \/ RejectStep
  PROVE  BulkInv'
<1>1. imp' = [NoImport EXCEPT !.n = imp.n] /\ UNCHANGED <<store, task, mixed, dispatches>>
  BY DEF Leave, RejectStep
<1>2. /\ task \in [Groups -> Task] /\ mixed \in BOOLEAN
      /\ \A k \in Groups : GroupFine(store, k, task[k]) /\ (k[1] > imp.n => task[k].todo = << >>)
  BY InvFacts
<1> QED
  BY <1>1, <1>2, LeavingKeepsInv

\* Taking the first step leaves the others in order, all above it.
LEMMA StepsInOrder ==
  ASSUME NEW st \in Seq(Seq(Planned)), st # << >>, StepsSorted(st)
  PROVE  /\ Head(st) \in Seq(Planned) /\ Ascending(Head(st))
         /\ Tail(st) \in Seq(Seq(Planned)) /\ StepsSorted(Tail(st))
         /\ Rest(st) = ToSet(Head(st)) \union Rest(Tail(st))
         /\ \A x \in ToSet(Head(st)), y \in Rest(Tail(st)) : x.seq < y.seq
<1> DEFINE left == Tail(st)
<1>1. /\ Len(st) \in Nat /\ 1 \in 1 .. Len(st) /\ Head(st) = st[1] /\ st[1] \in Seq(Planned)
      /\ left \in Seq(Seq(Planned)) /\ Len(left) = Len(st) - 1
      /\ \A m \in 1 .. Len(left) : left[m] = st[m + 1] /\ m + 1 \in 1 .. Len(st)
  OBVIOUS
<1> HIDE DEF left
<1>2. Ascending(Head(st))
  BY <1>1 DEF StepsSorted
<1>3. StepsSorted(left)
  <2>1. ASSUME NEW m \in 1 .. Len(left)
        PROVE  /\ Ascending(left[m])
               /\ \A l \in 1 .. Len(left) : m < l =>
                    \A x \in ToSet(left[m]), y \in ToSet(left[l]) : x.seq < y.seq
    <3>1. Ascending(left[m])
      BY <1>1 DEF StepsSorted
    <3>2. ASSUME NEW l \in 1 .. Len(left), m < l, NEW x \in ToSet(left[m]), NEW y \in ToSet(left[l])
          PROVE  x.seq < y.seq
      <4>1. m + 1 < l + 1 /\ m + 1 \in 1 .. Len(st) /\ l + 1 \in 1 .. Len(st)
        BY <1>1, <3>2
      <4>2. x \in ToSet(st[m + 1]) /\ y \in ToSet(st[l + 1])
        BY <1>1
      <4> QED
        BY <4>1, <4>2 DEF StepsSorted
    <3> QED
      BY <3>1, <3>2
  <2> QED
    BY <2>1 DEF StepsSorted
<1>4. \A m \in 1 .. Len(st) : m = 1 \/ (m - 1 \in 1 .. Len(left) /\ st[m] = left[m - 1])
  <2>1. ASSUME NEW m \in 1 .. Len(st), m # 1 PROVE m - 1 \in 1 .. Len(left) /\ st[m] = left[m - 1]
    <3>1. m - 1 \in 1 .. Len(left) /\ (m - 1) + 1 = m
      BY <1>1, <2>1
    <3> QED
      BY <1>1, <3>1
  <2> QED
    BY <2>1
<1>5. Rest(st) = ToSet(Head(st)) \union Rest(left)
  <2>1. ASSUME NEW x \in Rest(st) PROVE x \in ToSet(Head(st)) \union Rest(left)
    <3>1. PICK m \in 1 .. Len(st) : x \in ToSet(st[m])
      BY DEF Rest
    <3>2. CASE m = 1
      BY <1>1, <3>1, <3>2
    <3>3. CASE m # 1
      <4>1. m - 1 \in 1 .. Len(left) /\ st[m] = left[m - 1]
        BY <1>4, <3>3
      <4> QED
        BY <3>1, <4>1 DEF Rest
    <3> QED
      BY <3>2, <3>3
  <2>2. ToSet(Head(st)) \subseteq Rest(st)
    BY <1>1 DEF Rest
  <2>3. ASSUME NEW x \in Rest(left) PROVE x \in Rest(st)
    <3>1. PICK m \in 1 .. Len(left) : x \in ToSet(left[m])
      BY DEF Rest
    <3> QED
      BY <1>1, <3>1 DEF Rest
  <2> QED
    BY <2>1, <2>2, <2>3
<1>6. ASSUME NEW x \in ToSet(Head(st)), NEW y \in Rest(left) PROVE x.seq < y.seq
  <2>1. PICK m \in 1 .. Len(left) : y \in ToSet(left[m])
    BY DEF Rest
  <2>2. y \in ToSet(st[m + 1]) /\ m + 1 \in 1 .. Len(st) /\ 1 < m + 1 /\ x \in ToSet(st[1])
    BY <1>1, <2>1
  <2> QED
    BY <1>1, <2>2 DEF StepsSorted
<1> QED
  BY <1>1, <1>2, <1>3, <1>5, <1>6 DEF left

\* What covers an event of the step at hand is in the step, or in what the groups had left.
LEMMA StepIsCovered ==
  ASSUME NEW s \in Store, NEW i \in Import, NEW g, PlanFine(s, i, g), i.steps # << >>,
         \A t \in Targets : g[<<i.n, t>>].todo = << >>
  PROVE  /\ \A x \in ToSet(Head(i.steps)) :
              /\ x \in Planned /\ x.ev \in Usable /\ x.ev \in Event /\ x.seq <= s.seq
              /\ Covered(s, x, ToSet(Head(i.steps)))
         /\ \A x \in Rest(i.steps) : x.ev.on \in Targets /\ Covered(s, x, Rest(i.steps))
         /\ \A t \in i.insed : HasINS(ToSet(s.log), t) \/ HasINS(Rest(i.steps), t)
<1> DEFINE st == i.steps
           hd == Head(st)
           tl == Tail(st)
<1>1. st \in Seq(Seq(Planned)) /\ i.insed \in SUBSET Targets /\ st # << >> /\ StepsSorted(st)
  BY DEF Import, PlanFine
<1> HIDE DEF st
<1>2. /\ hd \in Seq(Planned) /\ Rest(st) = ToSet(hd) \union Rest(tl)
      /\ \A x \in ToSet(hd), y \in Rest(tl) : x.seq < y.seq
  BY <1>1, StepsInOrder
<1>3. Rest(st) \in SUBSET Planned
  BY <1>1, RestIsPlanned
<1>4. \A t \in Targets : Ahead(i, g, t) = Rest(st)
  <2>1. ToSet(<< >>) = {}
    BY DEF ToSet
  <2> QED
    BY <2>1 DEF Ahead, st
<1>5. ASSUME NEW x \in Rest(st)
      PROVE  /\ x.ev \in Usable /\ x.ev \in Event /\ x.ev.on \in Targets /\ x.seq <= s.seq
             /\ Covered(s, x, Rest(st))
  <2>1. x.ev \in Usable /\ x.seq <= s.seq /\ Covered(s, x, Ahead(i, g, x.ev.on))
    BY DEF PlanFine, st
  <2>2. x.ev \in Event /\ x.ev.on \in Targets
    BY <2>1, EventsInUse DEF Event
  <2> QED
    BY <1>4, <2>1, <2>2
<1>6. \A t \in i.insed : HasINS(ToSet(s.log), t) \/ HasINS(Rest(st), t)
  BY <1>1, <1>4 DEF PlanFine
<1> HIDE DEF hd, tl
<1>7. ASSUME NEW x \in ToSet(hd) PROVE Covered(s, x, ToSet(hd))
  <2>1. x \in Rest(st) /\ Covered(s, x, Rest(st))
    BY <1>2, <1>5
  <2>2. ASSUME NEW y \in Rest(st), y.seq < x.seq PROVE y \in ToSet(hd)
    <3>1. y.seq \in Nat /\ x.seq \in Nat
      BY <1>3, <2>1 DEF Planned
    <3> QED
      BY <1>2, <2>2, <3>1
  <2> QED
    BY <2>1, <2>2 DEF Covered
<1>8. \A x \in ToSet(hd) : x \in Planned
  BY <1>2, <1>3
<1> QED
  BY <1>2, <1>5, <1>6, <1>7, <1>8 DEF hd, st

LEMMA StartStepKeeps ==
  ASSUME BulkInv, StartStep
  PROVE  BulkInv'
<1> DEFINE step == Head(imp.steps)
           left == Tail(imp.steps)
           i    == [imp EXCEPT !.steps = left]
           new(k) == [NoTask EXCEPT !.todo = OfTarget(step, k[2])]
           h    == [k \in DOMAIN task |-> IF k[1] = imp.n THEN new(k) ELSE task[k]]
<1>1. /\ imp.pc = "run" /\ imp.mode = "shared" /\ imp.steps # << >>
      /\ \A t \in Targets : task[<<imp.n, t>>].todo = << >>
      /\ task' = h /\ imp' = i /\ UNCHANGED <<store, mixed, dispatches>>
  BY DEF StartStep, Quiet
<1>2. /\ store \in Store /\ Sound(store) /\ imp \in Import /\ task \in [Groups -> Task]
      /\ mixed \in BOOLEAN /\ dispatches \in Nat
      /\ \A k \in Groups : /\ GroupFine(store, k, task[k])
                           /\ k[1] > imp.n => task[k].todo = << >>
      /\ PlanFine(store, imp, task) /\ PhaseFine(store, imp, task)
      /\ \A t \in Targets : <<imp.n, t>> \in Groups
  BY <1>1, InvFacts
<1>3. imp.steps \in Seq(Seq(Planned)) /\ StepsSorted(imp.steps) /\ imp.n \in Nat
  BY <1>2 DEF Import, PlanFine
<1>4. /\ step \in Seq(Planned) /\ Ascending(step) /\ left \in Seq(Seq(Planned)) /\ StepsSorted(left)
      /\ Rest(imp.steps) = ToSet(step) \union Rest(left)
  BY <1>1, <1>3, StepsInOrder
<1>5. /\ \A x \in ToSet(step) : /\ x \in Planned /\ x.ev \in Usable /\ x.seq <= store.seq
                                /\ Covered(store, x, ToSet(step))
      /\ \A x \in Rest(imp.steps) : x.ev.on \in Targets /\ Covered(store, x, Rest(imp.steps))
      /\ \A t \in imp.insed : HasINS(ToSet(store.log), t) \/ HasINS(Rest(imp.steps), t)
  BY <1>1, <1>2, StepIsCovered
<1> HIDE DEF step, left
<1>6. /\ i \in Import /\ i.pc = "run" /\ i.mode = "shared" /\ i.n = imp.n /\ i.steps = left
      /\ i.insed = imp.insed /\ i.waves = imp.waves
  BY <1>1, <1>2, <1>4 DEF Import
<1> HIDE DEF i
<1>7. ASSUME NEW k \in Groups
      PROVE  /\ new(k) \in Task /\ new(k).todo = OfTarget(step, k[2])
             /\ ToSet(new(k).todo) = {x \in ToSet(step) : x.ev.on = k[2]}
             /\ GroupFine(store, k, new(k))
  <2> DEFINE todo == OfTarget(step, k[2])
             q    == [NoTask EXCEPT !.todo = todo]
  <2>1. k[2] \in Targets
    BY DEF Groups
  <2>2. /\ todo \in Seq(Planned) /\ ToSet(todo) = {x \in ToSet(step) : x.ev.on = k[2]}
        /\ Ascending(todo)
    BY <1>4, <2>1, GroupOfTarget
  <2> HIDE DEF todo
  <2>3. q \in Task /\ q.todo = todo /\ q.pc = "check"
    BY <2>2, NoRowType DEF Task, NoTask
  <2> HIDE DEF q
  <2>4. ASSUME NEW x \in ToSet(todo) PROVE Covered(store, x, ToSet(todo))
    <3>1. x.ev.on = k[2] /\ Covered(store, x, ToSet(step))
      BY <1>5, <2>2
    <3>2. \A y \in ToSet(step) : y.ev = SyntheticINS(k[2]) => y \in ToSet(todo)
      BY <2>2 DEF SyntheticINS
    <3> QED
      BY <3>1, <3>2 DEF Covered
  <2>5. GroupFine(store, k, q)
    BY <1>5, <2>2, <2>3, <2>4 DEF GroupFine
  <2> QED
    BY <2>2, <2>3, <2>5 DEF q, todo
<1> HIDE DEF new
<1>8. h \in [Groups -> Task] /\ \A k \in Groups : h[k] = IF k[1] = imp.n THEN new(k) ELSE task[k]
  <2>1. DOMAIN task = Groups
    BY <1>2
  <2> QED
    BY <1>2, <1>7, <2>1
<1> HIDE DEF h
<1>9. \A k \in Groups : GroupFine(store, k, h[k]) /\ (k[1] > i.n => h[k].todo = << >>)
  <2>1. \A k \in Groups : k[1] \in Nat
    BY DEF Groups
  <2> QED
    BY <1>2, <1>3, <1>6, <1>7, <1>8, <2>1
<1>10. \A t \in Targets : Ahead(i, h, t) = Rest(left) \union {x \in ToSet(step) : x.ev.on = t}
  <2>1. ASSUME NEW t \in Targets PROVE ToSet(h[<<imp.n, t>>].todo) = {x \in ToSet(step) : x.ev.on = t}
    <3> DEFINE k == <<imp.n, t>>
    <3>1. k \in Groups /\ k[1] = imp.n /\ k[2] = t
      BY <1>2
    <3> HIDE DEF k
    <3>2. ToSet(h[k].todo) = {x \in ToSet(step) : x.ev.on = t}
      BY <1>7, <1>8, <3>1
    <3> QED
      BY <3>2 DEF k
  <2> QED
    BY <1>6, <2>1 DEF Ahead
<1>11. ASSUME NEW x \in Rest(left)
       PROVE  x.ev \in Usable /\ x.seq <= store.seq /\ Covered(store, x, Ahead(i, h, x.ev.on))
  <2>1. x \in Rest(imp.steps) /\ x.ev.on \in Targets /\ Covered(store, x, Rest(imp.steps))
    BY <1>4, <1>5
  <2>2. x.ev \in Usable /\ x.seq <= store.seq
    BY <1>2, <2>1 DEF PlanFine
  <2> DEFINE A == Ahead(i, h, x.ev.on)
  <2>3. \A y \in Rest(imp.steps) : y.ev = SyntheticINS(x.ev.on) => y \in A
    BY <1>4, <1>10, <2>1 DEF SyntheticINS
  <2> HIDE DEF A
  <2>4. Covered(store, x, A)
    BY <2>1, <2>3 DEF Covered
  <2> QED
    BY <2>2, <2>4 DEF A
<1>12. ASSUME NEW t \in i.insed PROVE HasINS(ToSet(store.log), t) \/ HasINS(Ahead(i, h, t), t)
  <2>1. t \in Targets /\ (HasINS(ToSet(store.log), t) \/ HasINS(Rest(imp.steps), t))
    BY <1>2, <1>5, <1>6 DEF Import
  <2> QED
    BY <1>4, <1>10, <2>1 DEF HasINS
<1>13. PlanFine(store, i, h)
  BY <1>4, <1>6, <1>11, <1>12 DEF PlanFine
<1>14. PhaseFine(store, i, h)
  BY <1>1, <1>2, <1>6 DEF PhaseFine
<1>15. mixed' \in BOOLEAN /\ dispatches' \in Nat /\ store' = store /\ task' = h /\ imp' = i
  BY <1>1, <1>2
<1> QED
  BY <1>2, <1>6, <1>8, <1>9, <1>13, <1>14, <1>15, ImportKeepsInv

LEMMA StartWaveKeeps ==
  ASSUME BulkInv, StartWave
  PROVE  BulkInv'
<1> DEFINE wave == Head(imp.waves)
           have == imp.insed \union store.helix
           left == Tail(imp.waves)
           w    == Expanded(wave, have)
           seq  == store.seq
           n    == seq + Len(w.out)
           st   == splitWaveIntoSteps(Reserved(w.out, seq))
           i    == [imp EXCEPT !.waves = left, !.insed = w.insed, !.steps = st]
           r    == [store EXCEPT !.seq = n]
<1>1. /\ imp.pc = "run" /\ imp.waves # << >> /\ imp.steps = << >>
      /\ \A t \in Targets : task[<<imp.n, t>>].todo = << >>
      /\ imp' = i /\ store' = r /\ UNCHANGED <<task, mixed, dispatches>>
  BY DEF StartWave, Quiet
<1>2. /\ store \in Store /\ Sound(store) /\ imp \in Import /\ task \in [Groups -> Task]
      /\ mixed \in BOOLEAN /\ dispatches \in Nat
      /\ \A k \in Groups : /\ GroupFine(store, k, task[k]) /\ task[k] \in Task
                           /\ k[1] > imp.n => task[k].todo = << >>
      /\ PlanFine(store, imp, task) /\ PhaseFine(store, imp, task)
  BY InvFacts
<1>3. /\ imp.waves \in Seq(Seq(Event)) /\ imp.insed \in SUBSET Targets
      /\ store.helix \in SUBSET Targets /\ seq \in Nat /\ store.log \in Seq(Planned)
  BY <1>2 DEF Import, Store
<1>4. /\ wave \in ToSet(imp.waves) /\ left \in Seq(Seq(Event))
      /\ ToSet(imp.waves) = {wave} \union ToSet(left)
      /\ ToSet(imp.waves) \in SUBSET Seq(Event)
  BY <1>1, <1>3, HeadAndTail, ElementsOf
<1>5. Pure(wave) /\ ToSet(wave) \subseteq Given /\ wave \in Seq(Event)
  BY <1>2, <1>4 DEF PhaseFine
<1> HIDE DEF wave, left
<1>6. wave \in Seq(Usable)
  <2>1. \A j \in 1 .. Len(wave) : wave[j] \in ToSet(wave)
    BY <1>5, ElementsOf
  <2>2. \A j \in 1 .. Len(wave) : wave[j] \in Usable
    BY <1>5, <2>1 DEF Usable
  <2> QED
    BY <1>5, <2>2
<1>7. have \in SUBSET Targets
  BY <1>3
<1>8. \A t \in have : HasINS(ToSet(store.log), t)
  <2>1. \A t \in imp.insed : HasINS(ToSet(store.log), t)
    <3>1. ASSUME NEW t \in imp.insed PROVE Ahead(imp, task, t) = {}
      <4>1. t \in Targets /\ ToSet(<< >>) = {} /\ Rest(<< >>) = {}
        BY <1>3 DEF ToSet, Rest
      <4>2. task[<<imp.n, t>>].todo = << >>
        BY <1>1, <4>1
      <4> QED
        BY <1>1, <4>1, <4>2 DEF Ahead
    <3> QED
      BY <1>2, <3>1 DEF PlanFine, HasINS
  <2> QED
    BY <1>2, <2>1 DEF Sound, HelixLogged
<1> HIDE DEF have, seq
<1>9. /\ w.insed \in SUBSET Targets /\ Len(w.out) \in Nat
      /\ st \in Seq(Seq(Planned)) /\ StepsSorted(st)
      /\ \A t \in w.insed : t \in have \/ HasINS(Rest(st), t)
      /\ \A x \in Rest(st) :
           /\ x.ev \in Usable /\ seq < x.seq /\ x.seq <= n
           /\ x.ev.op \in NeedsINS =>
                \/ x.ev.on \in have
                \/ \E y \in Rest(st) : y.ev = SyntheticINS(x.ev.on) /\ y.seq < x.seq
  BY <1>3, <1>5, <1>6, <1>7, PlannedWave
<1> HIDE DEF w, st
<1>10. n \in Nat /\ seq <= n
  BY <1>3, <1>9
<1> HIDE DEF n
<1>11. /\ r \in Store /\ r.seq = n /\ r.log = store.log /\ r.idem = store.idem /\ r.helix = store.helix
  BY <1>2, <1>10 DEF Store
<1> HIDE DEF r
<1>12. \A y \in ToSet(store.log) : y.seq \in Nat /\ y.seq <= seq
  <2>1. ToSet(store.log) \in SUBSET Planned
    BY <1>3, ElementsOf
  <2> QED
    BY <1>2, <2>1 DEF Sound, LogOrdered, Planned, seq
<1>13. Sound(r)
  <2>1. LogOrdered(r)
    BY <1>2, <1>3, <1>10, <1>11, <1>12 DEF Sound, LogOrdered
  <2> QED
    BY <1>2, <1>11, <2>1 DEF Sound, IdsLogged, HelixLogged
<1>14. store.seq <= r.seq /\ ToSet(store.log) \subseteq ToSet(r.log)
  BY <1>10, <1>11 DEF seq
<1>15. /\ i \in Import /\ i.pc = "run" /\ i.mode = imp.mode /\ i.n = imp.n /\ i.steps = st
       /\ i.insed = w.insed /\ i.waves = left
  BY <1>1, <1>2, <1>4, <1>9 DEF Import
<1> HIDE DEF i
<1>16. \A k \in Groups : GroupFine(r, k, task[k]) /\ (k[1] > i.n => task[k].todo = << >>)
  BY <1>2, <1>11, <1>14, <1>15, GroupGrows
<1>17. ASSUME NEW x \in Rest(st)
       PROVE  x.ev \in Usable /\ x.seq <= r.seq /\ Covered(r, x, Ahead(i, task, x.ev.on))
  <2>1. x.ev \in Usable /\ seq < x.seq /\ x.seq <= r.seq
    BY <1>9, <1>11
  <2>2. Rest(st) \subseteq Ahead(i, task, x.ev.on)
    BY <1>15 DEF Ahead
  <2>3. CASE x.ev.on \in have
    <3>1. PICK y \in ToSet(store.log) : y.ev.op = "INS" /\ y.ev.on = x.ev.on
      BY <1>8, <2>3 DEF HasINS
    <3>2. x.seq \in Nat
      BY <1>9, RestIsPlanned DEF Planned
    <3>3. y.seq < x.seq
      BY <1>3, <1>12, <2>1, <3>2
    <3>4. INSBefore(ToSet(r.log), x.ev.on, x.seq)
      BY <1>11, <3>1, <3>3 DEF INSBefore
    <3> QED
      BY <2>1, <3>4 DEF Covered
  <2>4. CASE x.ev.on \notin have
    <3>1. x.ev.op \in NeedsINS =>
            \E y \in Rest(st) : y.ev = SyntheticINS(x.ev.on) /\ y.seq < x.seq
      BY <1>9, <2>4
    <3> QED
      BY <2>1, <2>2, <3>1 DEF Covered
  <2> QED
    BY <2>3, <2>4
<1>18. \A t \in i.insed : HasINS(ToSet(r.log), t) \/ HasINS(Ahead(i, task, t), t)
  <2>1. ASSUME NEW t \in i.insed PROVE HasINS(ToSet(r.log), t) \/ HasINS(Ahead(i, task, t), t)
    <3>1. t \in have \/ HasINS(Rest(st), t)
      BY <1>9, <1>15
    <3>2. Rest(st) \subseteq Ahead(i, task, t)
      BY <1>15 DEF Ahead
    <3>3. t \in have => HasINS(ToSet(r.log), t)
      BY <1>8, <1>11
    <3> QED
      BY <3>1, <3>2, <3>3 DEF HasINS
  <2> QED
    BY <2>1
<1>19. PlanFine(r, i, task)
  BY <1>9, <1>15, <1>17, <1>18 DEF PlanFine
<1>20. PhaseFine(r, i, task)
  BY <1>1, <1>2, <1>4, <1>15 DEF PhaseFine
<1>21. mixed' \in BOOLEAN /\ dispatches' \in Nat /\ store' = r /\ task' = task /\ imp' = i
  BY <1>1, <1>2
<1> QED
  BY <1>2, <1>11, <1>13, <1>15, <1>16, <1>19, <1>20, <1>21, ImportKeepsInv

LEMMA MergeStepKeeps ==
  ASSUME BulkInv, MergeStep
  PROVE  BulkInv'
<1> DEFINE step  == Head(imp.steps)
           left  == Tail(imp.steps)
           dests == UNION {step[j].ev.to : j \in 1 .. Len(step)}
           i     == [imp EXCEPT !.pc = "run", !.steps = left, !.snap = EmptyStore]
           r     == Reconciled(FoldLeft(Merging, store, Shards), dests)
<1>1. /\ imp.pc = "shipped" /\ store' = r /\ imp' = i /\ UNCHANGED <<task, mixed, dispatches>>
  BY DEF MergeStep
<1>2. /\ store \in Store /\ Sound(store) /\ imp \in Import /\ task \in [Groups -> Task]
      /\ mixed \in BOOLEAN /\ dispatches \in Nat
      /\ \A k \in Groups : /\ GroupFine(store, k, task[k]) /\ task[k] \in Task
                           /\ k[1] > imp.n => task[k].todo = << >>
      /\ PlanFine(store, imp, task) /\ PhaseFine(store, imp, task)
  BY InvFacts
<1>3. /\ imp.steps # << >> /\ imp.mode = "isolated" /\ Recorded(imp.snap)
      /\ ToSet(imp.snap.log) \subseteq ToSet(store.log)
      /\ \A t \in Targets : task[<<imp.n, t>>].todo = << >>
  BY <1>1, <1>2 DEF PhaseFine
<1>4. imp.steps \in Seq(Seq(Planned)) /\ StepsSorted(imp.steps) /\ imp.snap \in Store
  BY <1>2 DEF Import, PlanFine
<1>5. /\ step \in Seq(Planned) /\ left \in Seq(Seq(Planned)) /\ StepsSorted(left)
      /\ Rest(imp.steps) = ToSet(step) \union Rest(left)
  BY <1>3, <1>4, StepsInOrder
<1>6. /\ \A x \in ToSet(step) : /\ x \in Planned /\ x.ev \in Usable /\ x.seq <= store.seq
                                /\ Covered(store, x, ToSet(step))
      /\ \A x \in Rest(imp.steps) : x.ev.on \in Targets /\ Covered(store, x, Rest(imp.steps))
      /\ \A t \in imp.insed : HasINS(ToSet(store.log), t) \/ HasINS(Rest(imp.steps), t)
  BY <1>2, <1>3, StepIsCovered
<1>7. Shipped(step)
  BY <1>2, <1>3, <1>4, <1>5, <1>6, SoundIsRecorded DEF Shipped
<1> HIDE DEF step, left
<1>8. /\ r \in Merged(store, step)
      /\ \A x \in ToSet(step) : /\ \E y \in ToSet(r.log) : y.ev = x.ev
                                /\ x.ev.id = 0 => x \in ToSet(r.log)
  BY <1>7, MergeResult
<1> HIDE DEF r, dests
<1>9. /\ r \in Store /\ r.seq = store.seq /\ Recorded(r)
      /\ ToSet(store.log) \subseteq ToSet(r.log)
      /\ ToSet(r.log) \subseteq ToSet(store.log) \union ToSet(step)
  BY <1>8 DEF Merged
<1>10. \A x \in ToSet(step) : Settled(r, x)
  BY <1>8 DEF Settled
<1>11. LogOrdered(r)
  <2>1. ASSUME NEW x \in ToSet(r.log)
        PROVE  /\ x.ev \in Usable /\ x.seq <= r.seq
               /\ x.ev.op \in NeedsINS => INSBefore(ToSet(r.log), x.ev.on, x.seq)
    <3>1. CASE x \in ToSet(store.log)
      BY <1>2, <1>9, <3>1 DEF Sound, LogOrdered, INSBefore
    <3>2. CASE x \in ToSet(step)
      <4>1. x.ev \in Usable /\ x.seq <= r.seq /\ Covered(store, x, ToSet(step))
        BY <1>6, <1>9, <3>2
      <4>2. Covered(r, x, ToSet(step))
        BY <1>9, <4>1, CoveredGrows
      <4>3. \A y \in ToSet(step) : y \in {} \/ Settled(r, y)
        BY <1>10
      <4>4. Covered(r, x, {})
        BY <4>2, <4>3, CoverMoves
      <4> QED
        BY <4>1, <4>4 DEF Covered
    <3> QED
      BY <1>9, <3>1, <3>2
  <2> QED
    BY <2>1 DEF LogOrdered
<1>12. Sound(r)
  BY <1>9, <1>11 DEF Sound, Recorded
<1>13. /\ i \in Import /\ i.pc = "run" /\ i.mode = "isolated" /\ i.n = imp.n /\ i.steps = left
       /\ i.insed = imp.insed /\ i.waves = imp.waves
  BY <1>2, <1>3, <1>5, EmptyStoreType DEF Import
<1> HIDE DEF i
<1>14. store.seq \in Nat /\ store.seq <= r.seq
  BY <1>2, <1>9 DEF Store
<1>15. \A k \in Groups : GroupFine(r, k, task[k]) /\ (k[1] > i.n => task[k].todo = << >>)
  BY <1>2, <1>9, <1>13, <1>14, GroupGrows
<1>16. \A t \in Targets : Rest(left) \subseteq Ahead(i, task, t)
  BY <1>13 DEF Ahead
<1>17. \A y \in Rest(imp.steps) : y \in Rest(left) \/ Settled(r, y)
  BY <1>5, <1>10
<1>18. ASSUME NEW x \in Rest(left)
       PROVE  x.ev \in Usable /\ x.seq <= r.seq /\ Covered(r, x, Ahead(i, task, x.ev.on))
  <2>1. x \in Rest(imp.steps) /\ x.ev.on \in Targets /\ Covered(store, x, Rest(imp.steps))
    BY <1>5, <1>6
  <2>2. x.ev \in Usable /\ x.seq <= r.seq
    BY <1>2, <1>9, <2>1 DEF PlanFine
  <2>3. Covered(r, x, Rest(imp.steps))
    BY <1>9, <2>1, CoveredGrows
  <2>4. Covered(r, x, Rest(left))
    BY <1>17, <2>3, CoverMoves
  <2>5. Covered(r, x, Ahead(i, task, x.ev.on))
    BY <1>16, <2>1, <2>4 DEF Covered
  <2> QED
    BY <2>2, <2>5
<1>19. ASSUME NEW t \in i.insed PROVE HasINS(ToSet(r.log), t) \/ HasINS(Ahead(i, task, t), t)
  <2>1. t \in Targets /\ (HasINS(ToSet(store.log), t) \/ HasINS(Rest(imp.steps), t))
    BY <1>2, <1>6, <1>13 DEF Import
  <2>2. HasINS(ToSet(r.log), t) \/ HasINS(Rest(imp.steps), t)
    BY <1>9, <2>1 DEF HasINS
  <2>3. HasINS(ToSet(r.log), t) \/ HasINS(Rest(left), t)
    BY <1>17, <2>2, INSMoves
  <2> QED
    BY <1>16, <2>1, <2>3 DEF HasINS
<1>20. PlanFine(r, i, task)
  BY <1>5, <1>13, <1>18, <1>19 DEF PlanFine
<1>21. PhaseFine(r, i, task)
  BY <1>1, <1>2, <1>3, <1>13 DEF PhaseFine
<1>22. mixed' \in BOOLEAN /\ dispatches' \in Nat /\ store' = r /\ task' = task /\ imp' = i
  BY <1>1, <1>2
<1> QED
  BY <1>2, <1>9, <1>12, <1>13, <1>15, <1>20, <1>21, <1>22, ImportKeepsInv

-----------------------------------------------------------------------------
(* The theorems. *)

LEMMA InitGivesInv ==
  ASSUME BulkInit
  PROVE  BulkInv
<1>1. /\ store = EmptyStore /\ imp = NoImport /\ task = [k \in Groups |-> NoTask]
      /\ mixed = FALSE /\ dispatches = 0
  BY DEF BulkInit, Groups
<1>2. task \in [Groups -> Task] /\ \A k \in Groups : task[k] = NoTask
  BY <1>1, NoRowType
<1>3. NoTask.todo = << >> /\ NoTask.pc = "check"
  BY DEF NoTask
<1>4. \A k \in Groups : GroupFine(store, k, task[k]) /\ task[k].todo = << >>
  BY <1>2, <1>3, EmptyGroup
<1> DEFINE i == [NoImport EXCEPT !.n = 0]
<1>5. i \in Import /\ PlanFine(store, i, task) /\ PhaseFine(store, i, task)
  <2>1. 0 \in Nat /\ 0 <= MaxImports
    BY BulkAssumption
  <2> QED
    BY <2>1, IdleIsFine
<1>6. i = NoImport
  BY SMTT(20) DEF NoImport
<1> HIDE DEF i
<1> QED
  BY <1>1, <1>2, <1>4, <1>5, <1>6, EmptyStoreType DEF BulkInv, TypeOK, Groups

LEMMA NextKeepsInv ==
  ASSUME BulkInv, [BulkNext]_bulkVars
  PROVE  BulkInv'
<1>1. ASSUME NEW e \in Locals, Dispatch(e) PROVE BulkInv'
  BY <1>1, DispatchKeeps
<1>2. ASSUME NEW b \in Imports, NEW mode \in Modes, Begin(b, mode) PROVE BulkInv'
  BY <1>2, BeginKeeps
<1>3. CASE StartWave
  BY <1>3, StartWaveKeeps
<1>4. CASE StartStep
  BY <1>4, StartStepKeeps
<1>5. CASE ShipStep
  BY <1>5, ShipStepKeeps
<1>6. CASE MergeStep
  BY <1>6, MergeStepKeeps
<1>7. CASE Finish
  BY <1>7, FinishKeeps
<1>8. CASE Leave \/ RejectStep
  BY <1>8, LeaveKeeps
<1>9. ASSUME NEW k \in (1 .. MaxImports) \X Targets, GroupStep(k) PROVE BulkInv'
  BY <1>9, GroupStepKeeps DEF Groups
<1>10. CASE UNCHANGED bulkVars
  BY <1>10 DEF bulkVars, BulkInv, TypeOK
<1> QED
  BY <1>1, <1>2, <1>3, <1>4, <1>5, <1>6, <1>7, <1>8, <1>9, <1>10 DEF BulkNext

LEMMA BulkInvHolds == BulkSpec => []BulkInv
<1>1. BulkInit => BulkInv
  BY InitGivesInv
<1>2. BulkInv /\ [BulkNext]_bulkVars => BulkInv'
  BY NextKeepsInv
<1> QED
  BY <1>1, <1>2, PTL DEF BulkSpec

\* The store, the import and its groups keep the shape the fold engine gives them, whatever
\* the batches, the shards and the interleaving (TypeOK).
THEOREM BulkTypeCorrect == BulkSpec => []TypeOK
<1>1. BulkInv => TypeOK
  BY DEF BulkInv
<1> QED
  BY <1>1, BulkInvHolds, PTL

\* No operator is logged on a target before the target's INS has a lower seq: not by
\* processEvent, not by a bulk import whose groups interleave, nor by shards whose logs are
\* merged, also when an import rejects and the groups it left run on beside the next one
\* (ConstitutedFirst).
THEOREM ImportsConstituted == BulkSpec => []ConstitutedFirst
<1>1. ASSUME BulkInv PROVE ConstitutedFirst
  <2> DEFINE log == store.log
  <2>1. store \in Store /\ LogOrdered(store)
    BY <1>1, InvFacts DEF Sound
  <2>2. log \in Seq(Planned)
    BY <2>1 DEF Store
  <2> HIDE DEF log
  <2>3. ToSet(log) = {log[i] : i \in 1 .. Len(log)}
    BY <2>2, ElementsOf
  <2>4. ASSUME NEW i \in 1 .. Len(log), log[i].ev.op \in NeedsINS
        PROVE  \E j \in 1 .. Len(log) : /\ log[j].ev.op = "INS" /\ log[j].ev.on = log[i].ev.on
                                        /\ log[j].seq < log[i].seq
    <3>1. log[i] \in ToSet(log)
      BY <2>3
    <3>2. INSBefore(ToSet(log), log[i].ev.on, log[i].seq)
      BY <2>1, <2>4, <3>1 DEF LogOrdered, log
    <3> QED
      BY <2>3, <3>2 DEF INSBefore
  <2> QED
    BY <2>4 DEF ConstitutedFirst, log
<1> QED
  BY <1>1, BulkInvHolds, PTL

-----------------------------------------------------------------------------
(* Row operations, one after the other. *)

\* What a store holds once an event has done the operations ops.
RowsDone(s, e, ops) == FoldLeft(LAMBDA acc, o : DoRowOp(acc, o, e), s, ops)

\* The row operations left of an event, one after the other.
RowsRunning(a, s, e, ops) ==
  /\ a[0] = s /\ a[Len(ops)] = RowsDone(s, e, ops)
  /\ \A i \in 1 .. Len(ops) : a[i] = DoRowOp(a[i - 1], ops[i], e)

LEMMA RowsRun ==
  ASSUME NEW s \in Store, NEW e \in Event, NEW ops \in Seq(RowOp)
  PROVE  \E a \in [0 .. Len(ops) -> Beyond(s, e)] : RowsRunning(a, s, e, ops)
<1> DEFINE F == [x \in Beyond(s, e) \X RowOp |-> DoRowOp(x[1], x[2], e)]
           D == DOMAIN ops
<1>0. D = 1 .. Len(ops) /\ Len(ops) \in Nat /\ \A i \in 1 .. Len(ops) : ops[i] \in RowOp
  OBVIOUS
<1>1. ASSUME NEW t \in Beyond(s, e), NEW o \in RowOp PROVE (DoRowOp(t, o, e)) \in Beyond(s, e)
  BY <1>1, DoRowOpKeeps
<1>2. \A t \in Beyond(s, e), o \in RowOp : F[<<t, o>>] = DoRowOp(t, o, e)
  OBVIOUS
<1>3. \A t \in Beyond(s, e), o \in RowOp : F[<<t, o>>] \in Beyond(s, e)
  <2> HIDE DEF F
  <2> QED
    BY <1>1, <1>2
<1>4. s \in Beyond(s, e)
  BY DEF Beyond, Store
<1>5. PICK h : Steps(F, s, ops, h)
  BY FoldExists
<1>6. \A S \in SUBSET D : h[S] \in Beyond(s, e)
  <2> HIDE DEF F
  <2> QED
    BY <1>3, <1>4, <1>5, FoldStays, Zenon
<1>7. h = [S \in SUBSET D |->
                        IF S = {} THEN s ELSE DoRowOp(h[S \ {Max(S)}], ops[Max(S)], e)]
  <2>1. ASSUME NEW S \in SUBSET D, S # {}
        PROVE  F[<<h[S \ {Max(S)}], ops[Max(S)]>>] =
                 DoRowOp(h[S \ {Max(S)}], ops[Max(S)], e)
    <3>1. Max(S) \in S
      BY <1>0, <2>1, MaxIsGreatest
    <3>2. h[S \ {Max(S)}] \in Beyond(s, e) /\ ops[Max(S)] \in RowOp
      BY <1>0, <1>6, <3>1
    <3> HIDE DEF F
    <3> QED
      BY <1>2, <3>2
  <2> HIDE DEF F
  <2> QED
    BY <1>5, <2>1, Zenon DEF Steps
<1>8. PICK g : /\ g = [S \in SUBSET D |->
                        IF S = {} THEN s ELSE DoRowOp(g[S \ {Max(S)}], ops[Max(S)], e)]
               /\ RowsDone(s, e, ops) = g[D]
  <2> HIDE DEF F
  <2> QED
    BY <1>7 DEF FoldLeft, MapThenFoldSet, RowsDone
<1> DEFINE a == [i \in 0 .. Len(ops) |-> g[1 .. i]]
<1>9. a[0] = s
  <2>1. 1 .. 0 = {} /\ {} \in SUBSET D
    OBVIOUS
  <2>2. g[{}] = s
    BY <1>8, <2>1, Zenon
  <2> QED
    BY <2>1, <2>2
<1>10. ASSUME NEW i \in 1 .. Len(ops) PROVE a[i] = DoRowOp(a[i - 1], ops[i], e)
  <2>1. /\ 1 .. i \in SUBSET D /\ 1 .. i # {} /\ Max(1 .. i) = i
        /\ (1 .. i) \ {i} = 1 .. i - 1
    BY <1>0, Segments
  <2>2. g[1 .. i] = DoRowOp(g[1 .. i - 1], ops[i], e)
    BY <1>8, <2>1, Zenon
  <2>3. i - 1 \in 0 .. Len(ops) /\ i \in 0 .. Len(ops)
    OBVIOUS
  <2> QED
    BY <2>2, <2>3, Zenon
<1>11. \A i \in 0 .. Len(ops) : a[i] \in Beyond(s, e)
  <2> DEFINE A == {i \in 0 .. Len(ops) : a[i] \in Beyond(s, e)}
  <2>1. 0 \in A
    <3>1. 0 \in 0 .. Len(ops)
      OBVIOUS
    <3> QED
      BY <1>4, <1>9, <3>1, Zenon
  <2>2. ASSUME NEW i \in 0 .. Len(ops) - 1, i \in A PROVE i + 1 \in A
    <3>1. /\ i + 1 \in 1 .. Len(ops) /\ (i + 1) - 1 = i /\ i + 1 \in 0 .. Len(ops)
          /\ a[i] \in Beyond(s, e) /\ ops[i + 1] \in RowOp
      BY <1>0, <2>2
    <3> HIDE DEF a
    <3>2. a[i + 1] = DoRowOp(a[i], ops[i + 1], e)
      BY <1>10, <3>1
    <3>3. a[i + 1] \in Beyond(s, e)
      BY <1>1, <3>1, <3>2
    <3> QED
      BY <3>1, <3>3
  <2> HIDE DEF A
  <2>3. \A i \in 0 .. Len(ops) : i \in A
    BY <1>0, <2>1, <2>2, UpTo, Zenon
  <2> QED
    BY <2>3 DEF A
<1>12. a \in [0 .. Len(ops) -> Beyond(s, e)]
  BY <1>11
<1>13. a[Len(ops)] = RowsDone(s, e, ops)
  BY <1>0, <1>8
<1> HIDE DEF a
<1> QED
  BY <1>9, <1>10, <1>12, <1>13 DEF RowsRunning


\* A log, replayed entry by entry.
Replaying(a, log) ==
  /\ a[0] = EmptyStore /\ a[Len(log)] = replayFromLog(log)
  /\ \A i \in 1 .. Len(log) : a[i] = processEventCoreWithSeq(a[i - 1], log[i])

LEMMA ReplayRuns ==
  ASSUME NEW log \in Seq(Planned)
  PROVE  \E a \in [0 .. Len(log) -> Store] : Replaying(a, log)
<1> DEFINE F == [x \in Store \X Planned |-> processEventCoreWithSeq(x[1], x[2])]
           D == DOMAIN log
<1>0. D = 1 .. Len(log) /\ Len(log) \in Nat /\ \A i \in 1 .. Len(log) : log[i] \in Planned
  OBVIOUS
<1>1. ASSUME NEW t \in Store, NEW x \in Planned PROVE (processEventCoreWithSeq(t, x)) \in Store
  BY <1>1, CoreEffect
<1>2. \A t \in Store, x \in Planned : F[<<t, x>>] = processEventCoreWithSeq(t, x)
  OBVIOUS
<1>3. \A t \in Store, x \in Planned : F[<<t, x>>] \in Store
  <2> HIDE DEF F
  <2> QED
    BY <1>1, <1>2
<1>4. EmptyStore \in Store
  BY EmptyStoreType
<1>5. PICK h : Steps(F, EmptyStore, log, h)
  BY FoldExists
<1>6. \A S \in SUBSET D : h[S] \in Store
  <2> HIDE DEF F
  <2> QED
    BY <1>3, <1>4, <1>5, FoldStays, Zenon
<1>7. h = [S \in SUBSET D |->
                        IF S = {} THEN EmptyStore ELSE processEventCoreWithSeq(h[S \ {Max(S)}], log[Max(S)])]
  <2>1. ASSUME NEW S \in SUBSET D, S # {}
        PROVE  F[<<h[S \ {Max(S)}], log[Max(S)]>>] =
                 processEventCoreWithSeq(h[S \ {Max(S)}], log[Max(S)])
    <3>1. Max(S) \in S
      BY <1>0, <2>1, MaxIsGreatest
    <3>2. h[S \ {Max(S)}] \in Store /\ log[Max(S)] \in Planned
      BY <1>0, <1>6, <3>1
    <3> HIDE DEF F
    <3> QED
      BY <1>2, <3>2
  <2> HIDE DEF F
  <2> QED
    BY <1>5, <2>1, Zenon DEF Steps
<1>8. PICK g : /\ g = [S \in SUBSET D |->
                        IF S = {} THEN EmptyStore ELSE processEventCoreWithSeq(g[S \ {Max(S)}], log[Max(S)])]
               /\ replayFromLog(log) = g[D]
  <2> HIDE DEF F
  <2> QED
    BY <1>7 DEF FoldLeft, MapThenFoldSet, replayFromLog
<1> DEFINE a == [i \in 0 .. Len(log) |-> g[1 .. i]]
<1>9. a[0] = EmptyStore
  <2>1. 1 .. 0 = {} /\ {} \in SUBSET D
    OBVIOUS
  <2>2. g[{}] = EmptyStore
    BY <1>8, <2>1, Zenon
  <2> QED
    BY <2>1, <2>2
<1>10. ASSUME NEW i \in 1 .. Len(log) PROVE a[i] = processEventCoreWithSeq(a[i - 1], log[i])
  <2>1. /\ 1 .. i \in SUBSET D /\ 1 .. i # {} /\ Max(1 .. i) = i
        /\ (1 .. i) \ {i} = 1 .. i - 1
    BY <1>0, Segments
  <2>2. g[1 .. i] = processEventCoreWithSeq(g[1 .. i - 1], log[i])
    BY <1>8, <2>1, Zenon
  <2>3. i - 1 \in 0 .. Len(log) /\ i \in 0 .. Len(log)
    OBVIOUS
  <2> QED
    BY <2>2, <2>3, Zenon
<1>11. \A i \in 0 .. Len(log) : a[i] \in Store
  <2> DEFINE A == {i \in 0 .. Len(log) : a[i] \in Store}
  <2>1. 0 \in A
    <3>1. 0 \in 0 .. Len(log)
      OBVIOUS
    <3> QED
      BY <1>4, <1>9, <3>1, Zenon
  <2>2. ASSUME NEW i \in 0 .. Len(log) - 1, i \in A PROVE i + 1 \in A
    <3>1. /\ i + 1 \in 1 .. Len(log) /\ (i + 1) - 1 = i /\ i + 1 \in 0 .. Len(log)
          /\ a[i] \in Store /\ log[i + 1] \in Planned
      BY <1>0, <2>2
    <3> HIDE DEF a
    <3>2. a[i + 1] = processEventCoreWithSeq(a[i], log[i + 1])
      BY <1>10, <3>1
    <3>3. a[i + 1] \in Store
      BY <1>1, <3>1, <3>2
    <3> QED
      BY <3>1, <3>3
  <2> HIDE DEF A
  <2>3. \A i \in 0 .. Len(log) : i \in A
    BY <1>0, <2>1, <2>2, UpTo, Zenon
  <2> QED
    BY <2>3 DEF A
<1>12. a \in [0 .. Len(log) -> Store]
  BY <1>11
<1>13. a[Len(log)] = replayFromLog(log)
  BY <1>0, <1>8
<1> HIDE DEF a
<1> QED
  BY <1>9, <1>10, <1>12, <1>13 DEF Replaying


\* Nothing left to do, or one operation and then the rest.
LEMMA RowsDoneIsStore ==
  ASSUME NEW s \in Store, NEW e \in Event
  PROVE  /\ RowsDone(s, e, << >>) = s
         /\ \A ops \in Seq(RowOp) : RowsDone(s, e, ops) \in Beyond(s, e)
<1>1. ASSUME NEW ops \in Seq(RowOp) PROVE RowsDone(s, e, ops) \in Beyond(s, e)
  <2>1. PICK a \in [0 .. Len(ops) -> Beyond(s, e)] : RowsRunning(a, s, e, ops)
    BY RowsRun
  <2>2. a[Len(ops)] = RowsDone(s, e, ops) /\ Len(ops) \in 0 .. Len(ops)
    BY <2>1 DEF RowsRunning
  <2> QED
    BY <2>1, <2>2
<1>2. RowsDone(s, e, << >>) = s
  <2> DEFINE ops == << >>
  <2>1. ops \in Seq(RowOp) /\ Len(ops) = 0
    OBVIOUS
  <2> HIDE DEF ops
  <2>2. PICK a \in [0 .. Len(ops) -> Beyond(s, e)] : RowsRunning(a, s, e, ops)
    BY <2>1, RowsRun
  <2>3. RowsDone(s, e, ops) = s
    BY <2>1, <2>2 DEF RowsRunning
  <2> QED
    BY <2>3 DEF ops
<1> QED
  BY <1>1, <1>2

LEMMA RowsDoneFirst ==
  ASSUME NEW s \in Store, NEW e \in Event, NEW ops \in Seq(RowOp), ops # << >>
  PROVE  RowsDone(s, e, ops) = RowsDone(DoRowOp(s, Head(ops), e), e, Tail(ops))
<1> DEFINE o    == Head(ops)
           left == Tail(ops)
           r    == DoRowOp(s, o, e)
           n    == Len(left)
<1>1. /\ n \in Nat /\ Len(ops) = n + 1 /\ left \in Seq(RowOp) /\ o = ops[1]
      /\ \A i \in 1 .. n : left[i] = ops[i + 1]
  OBVIOUS
<1>2. o \in RowOp
  OBVIOUS
<1> HIDE DEF o, left
<1>3. r \in Store
  <2>1. s \in Beyond(s, e)
    BY DEF Beyond, Store
  <2> QED
    BY <1>2, <2>1, DoRowOpKeeps DEF Beyond
<1>4. PICK a \in [0 .. Len(ops) -> Beyond(s, e)] : RowsRunning(a, s, e, ops)
  BY RowsRun
<1> HIDE DEF r
<1>5. PICK b \in [0 .. n -> Beyond(r, e)] : RowsRunning(b, r, e, left)
  BY <1>1, <1>3, RowsRun
<1> DEFINE c == [i \in 0 .. n |-> a[i + 1]]
<1>6. c[0] = b[0]
  <2>1. a[1] = DoRowOp(a[0], ops[1], e) /\ a[0] = s /\ b[0] = r
    BY <1>1, <1>4, <1>5 DEF RowsRunning
  <2> QED
    BY <1>1, <2>1 DEF r
<1>7. ASSUME NEW i \in 0 .. n - 1, c[i] = b[i] PROVE c[i + 1] = b[i + 1]
  <2>1. /\ i + 1 \in 1 .. n /\ (i + 1) - 1 = i /\ i + 2 \in 1 .. Len(ops) /\ (i + 2) - 1 = i + 1
        /\ (i + 1) + 1 = i + 2 /\ i + 1 \in 0 .. n /\ i \in 0 .. n
    BY <1>1
  <2>2. b[i + 1] = DoRowOp(b[i], left[i + 1], e)
    BY <1>5, <2>1 DEF RowsRunning
  <2>3. a[i + 2] = DoRowOp(a[i + 1], ops[i + 2], e)
    BY <1>4, <2>1 DEF RowsRunning
  <2>4. left[i + 1] = ops[i + 2]
    BY <1>1, <2>1
  <2>5. c[i] = a[i + 1] /\ c[i + 1] = a[i + 2]
    BY <2>1
  <2> QED
    BY <1>7, <2>2, <2>3, <2>4, <2>5
<1> HIDE DEF c, n
<1>8. c[n] = b[n]
  <2> DEFINE A == {i \in 0 .. n : c[i] = b[i]}
  <2>1. 0 \in A /\ \A i \in 0 .. n - 1 : i \in A => i + 1 \in A
    BY <1>1, <1>6, <1>7
  <2> HIDE DEF A
  <2>2. n \in A
    BY <1>1, <2>1, AtTheEnd, Zenon
  <2> QED
    BY <2>2 DEF A
<1>9. c[n] = a[n + 1] /\ c[n] = b[n]
  BY <1>1, <1>8 DEF c
<1>10. a[n + 1] = RowsDone(s, e, ops) /\ b[n] = RowsDone(r, e, left)
  BY <1>1, <1>4, <1>5 DEF RowsRunning, n
<1> QED
  BY <1>9, <1>10 DEF r, o, left

\* The log with one entry more.
LEMMA ReplayEmpty ==
  replayFromLog(<< >>) = EmptyStore
<1> DEFINE l == << >>
<1>1. l \in Seq(Planned) /\ Len(l) = 0
  OBVIOUS
<1> HIDE DEF l
<1>2. PICK a \in [0 .. Len(l) -> Store] : Replaying(a, l)
  BY <1>1, ReplayRuns
<1>3. replayFromLog(l) = EmptyStore
  BY <1>1, <1>2 DEF Replaying
<1> QED
  BY <1>3 DEF l

LEMMA ReplayOneMore ==
  ASSUME NEW log \in Seq(Planned), NEW x \in Planned
  PROVE  /\ replayFromLog(log) \in Store
         /\ replayFromLog(Append(log, x)) = processEventCoreWithSeq(replayFromLog(log), x)
<1> DEFINE l == Append(log, x)
           n == Len(log)
<1>1. /\ n \in Nat /\ l \in Seq(Planned) /\ Len(l) = n + 1 /\ l[n + 1] = x
      /\ \A i \in 1 .. n : l[i] = log[i]
  OBVIOUS
<1> HIDE DEF l
<1>2. PICK a \in [0 .. Len(l) -> Store] : Replaying(a, l)
  BY <1>1, ReplayRuns
<1>3. PICK b \in [0 .. n -> Store] : Replaying(b, log)
  BY ReplayRuns
<1>4. a[0] = b[0]
  BY <1>2, <1>3 DEF Replaying
<1>5. ASSUME NEW i \in 0 .. n - 1, a[i] = b[i] PROVE a[i + 1] = b[i + 1]
  <2>1. i + 1 \in 1 .. n /\ i + 1 \in 1 .. Len(l) /\ (i + 1) - 1 = i
    BY <1>1
  <2>2. a[i + 1] = processEventCoreWithSeq(a[i], l[i + 1])
    BY <1>2, <2>1 DEF Replaying
  <2>3. b[i + 1] = processEventCoreWithSeq(b[i], log[i + 1])
    BY <1>3, <2>1 DEF Replaying
  <2> QED
    BY <1>1, <1>5, <2>1, <2>2, <2>3
<1>6. a[n] = b[n]
  <2> DEFINE A == {i \in 0 .. n : a[i] = b[i]}
  <2>0. n \in Nat
    BY <1>1
  <2> HIDE DEF n
  <2>1. 0 \in A
    BY <1>4, <2>0
  <2>2. ASSUME NEW i \in 0 .. n - 1, i \in A PROVE i + 1 \in A
    <3>1. i + 1 \in 0 .. n
      BY <2>0
    <3> QED
      BY <1>5, <2>2, <3>1
  <2> HIDE DEF A
  <2>3. n \in A
    BY <2>0, <2>1, <2>2, AtTheEnd, Zenon
  <2> QED
    BY <2>3 DEF A
<1>7. a[n + 1] = processEventCoreWithSeq(a[n], l[n + 1])
  <2>1. n + 1 \in 1 .. Len(l) /\ (n + 1) - 1 = n
    BY <1>1
  <2> QED
    BY <1>2, <2>1 DEF Replaying
<1>8. /\ a[n + 1] = replayFromLog(l) /\ b[n] = replayFromLog(log) /\ a[n] = b[n] /\ b[n] \in Store
  BY <1>1, <1>2, <1>3, <1>6 DEF Replaying
<1> QED
  BY <1>1, <1>7, <1>8 DEF l

-----------------------------------------------------------------------------
(* An event reads and writes the rows it reaches, and no others. *)

Reach(e)       == {e.on} \union e.to
Touching(s, t) == {x \in s.edges : t \in {x[1], x[2]}}

\* Two stores that agree on the targets in X: on rows, helix positions, and edges there.
AlikeAt(s, r, t) == /\ s.rows[t] = r.rows[t] /\ (t \in s.helix <=> t \in r.helix)
                    /\ Touching(s, t) = Touching(r, t)
Alike(s, r, X)   == \A t \in X : AlikeAt(s, r, t)

\* The row operations an event may bring: only the metrics are of another row.
OpsOf(e) == {o \in RowOp : o.row \in Reach(e) /\ (o.do # "metrics" => o.row = e.on)}

LEMMA AlikeIsEquivalence ==
  /\ \A s, X : Alike(s, s, X)
  /\ \A s, r, X : Alike(s, r, X) => Alike(r, s, X)
  /\ \A s, r, q, X : Alike(s, r, X) /\ Alike(r, q, X) => Alike(s, q, X)
  /\ \A s, r, X, Y : Alike(s, r, X) /\ Y \subseteq X => Alike(s, r, Y)
<1>1. \A s, X : Alike(s, s, X)
  BY DEF Alike, AlikeAt
<1>2. \A s, r, X : Alike(s, r, X) => Alike(r, s, X)
  BY DEF Alike, AlikeAt
<1>3. \A s, r, q, X : Alike(s, r, X) /\ Alike(r, q, X) => Alike(s, q, X)
  BY DEF Alike, AlikeAt
<1>4. \A s, r, X, Y : Alike(s, r, X) /\ Y \subseteq X => Alike(s, r, Y)
  BY DEF Alike
<1> QED
  BY <1>1, <1>2, <1>3, <1>4

\* One row operation: it touches its row, and the helix position of an INS' target.
LEMMA RowOpEffect ==
  ASSUME NEW s \in Store, NEW e \in Event, NEW o \in OpsOf(e)
  PROVE  LET r == DoRowOp(s, o, e)
             put == Put(o, e, s.rows[o.row], s.rows[o.row], s.edges)
         IN  /\ r \in Store /\ r.edges = s.edges /\ r.idem = s.idem /\ r.log = s.log /\ r.seq = s.seq
             /\ \A t \in Targets : t # o.row => r.rows[t] = s.rows[t]
             /\ r.rows[o.row] = IF o.do = "declare" \/ Skips(o, e, s.rows[o.row])
                                THEN s.rows[o.row] ELSE put
             /\ r.helix = IF o.do = "declare" /\ e.op = "INS" THEN s.helix \union {e.on} ELSE s.helix
<1> DEFINE row == s.rows[o.row]
           put == Put(o, e, row, row, s.edges)
           r   == DoRowOp(s, o, e)
<1>0. o \in RowOp /\ o.row \in Targets /\ s.rows \in [Targets -> Row] /\ e.on \in Targets
  BY DEF OpsOf, RowOp, Store, Event
<1>1. put \in Row
  BY <1>0, PutType DEF Store
<1> HIDE DEF put
<1>2. r = IF o.do = "declare" THEN [s EXCEPT !.helix = IF e.op = "INS" THEN s.helix \union {e.on} ELSE s.helix]
          ELSE IF Skips(o, e, row) THEN s ELSE [s EXCEPT !.rows[o.row] = put]
  BY DEF DoRowOp, Declared, put
<1>3. CASE o.do = "declare"
  <2> DEFINE pos == IF e.op = "INS" THEN s.helix \union {e.on} ELSE s.helix
  <2>1. pos \in SUBSET Targets
    BY <1>0 DEF Store
  <2>2. r = [s EXCEPT !.helix = pos]
    BY <1>2, <1>3
  <2> HIDE DEF pos, r
  <2>3. /\ r \in Store /\ r.edges = s.edges /\ r.idem = s.idem /\ r.log = s.log /\ r.seq = s.seq
        /\ r.rows = s.rows /\ r.helix = pos
    BY <2>1, <2>2 DEF Store
  <2> QED
    BY <1>3, <2>3 DEF pos, r
<1>4. CASE o.do # "declare" /\ Skips(o, e, row)
  <2>1. r = s
    BY <1>2, <1>4
  <2> HIDE DEF r
  <2> QED
    BY <1>4, <2>1 DEF r
<1>5. CASE o.do # "declare" /\ ~Skips(o, e, row)
  <2>1. r = [s EXCEPT !.rows[o.row] = put]
    BY <1>2, <1>5
  <2> HIDE DEF r
  <2>2. /\ r \in Store /\ r.edges = s.edges /\ r.idem = s.idem /\ r.log = s.log /\ r.seq = s.seq
        /\ r.helix = s.helix /\ r.rows = [s.rows EXCEPT ![o.row] = put]
    BY <1>0, <1>1, <2>1 DEF Store
  <2>3. \A t \in Targets : r.rows[t] = IF t = o.row THEN put ELSE s.rows[t]
    BY <1>0, <2>2
  <2> QED
    BY <1>0, <1>5, <2>2, <2>3 DEF r, put
<1> QED
  BY <1>3, <1>4, <1>5

\* Stores that agree on the rows an event reaches still do after one of its operations.
LEMMA RowOpLocal ==
  ASSUME NEW s \in Store, NEW r \in Store, NEW e \in Event, NEW o \in OpsOf(e),
         NEW X \in SUBSET Targets, Reach(e) \subseteq X, Alike(s, r, X)
  PROVE  Alike(DoRowOp(s, o, e), DoRowOp(r, o, e), X)
<1> DEFINE S == DoRowOp(s, o, e)
           R == DoRowOp(r, o, e)
           w == o.row
           row == s.rows[w]
<1>1. w \in X /\ e.on \in X /\ w \in Targets
  BY DEF OpsOf, Reach, RowOp
<1>2. /\ s.rows[w] = r.rows[w] /\ Touching(s, w) = Touching(r, w) /\ Touching(s, e.on) = Touching(r, e.on)
  BY <1>1 DEF Alike, AlikeAt
<1>3. o.do = "declare" \/ Skips(o, e, row) \/ Put(o, e, row, row, s.edges) = Put(o, e, row, row, r.edges)
  <2>1. {x \in s.edges : o.row \in {x[1], x[2]}} = {x \in r.edges : o.row \in {x[1], x[2]}}
    BY <1>2 DEF Touching
  <2>2. {d \in Targets : <<e.on, d>> \in s.edges} = {d \in Targets : <<e.on, d>> \in r.edges}
    <3>1. \A d \in Targets : <<e.on, d>> \in s.edges <=> <<e.on, d>> \in Touching(s, e.on)
      BY DEF Touching
    <3>2. \A d \in Targets : <<e.on, d>> \in r.edges <=> <<e.on, d>> \in Touching(r, e.on)
      BY DEF Touching
    <3> QED
      BY <1>2, <3>1, <3>2
  <2> QED
    BY <2>1, <2>2, Zenon DEF Put
<1>4. /\ S.edges = s.edges /\ R.edges = r.edges
      /\ \A t \in Targets : t # w => S.rows[t] = s.rows[t] /\ R.rows[t] = r.rows[t]
      /\ S.rows[w] = IF o.do = "declare" \/ Skips(o, e, row) THEN row ELSE Put(o, e, row, row, s.edges)
      /\ R.rows[w] = IF o.do = "declare" \/ Skips(o, e, row) THEN row ELSE Put(o, e, row, row, r.edges)
      /\ S.helix = IF o.do = "declare" /\ e.op = "INS" THEN s.helix \union {e.on} ELSE s.helix
      /\ R.helix = IF o.do = "declare" /\ e.op = "INS" THEN r.helix \union {e.on} ELSE r.helix
  BY <1>2, RowOpEffect
<1> HIDE DEF S, R, w, row
<1>5. \A t \in X : Touching(S, t) = Touching(R, t)
  BY <1>4 DEF Touching, Alike, AlikeAt
<1>6. \A t \in X : S.rows[t] = R.rows[t]
  BY <1>2, <1>3, <1>4 DEF Alike, AlikeAt
<1>7. \A t \in X : t \in S.helix <=> t \in R.helix
  BY <1>4 DEF Alike, AlikeAt
<1> QED
  BY <1>5, <1>6, <1>7 DEF S, R, Alike, AlikeAt

\* A store, and what it is once operations of an event are through: all else is the same.
Outside(s, r, e) ==
  /\ r \in Store /\ r.edges = s.edges /\ r.idem = s.idem /\ r.log = s.log /\ r.seq = s.seq
  /\ Alike(s, r, Targets \ Reach(e))

LEMMA RowOpFrame ==
  ASSUME NEW s \in Store, NEW e \in Event, NEW o \in OpsOf(e)
  PROVE  Outside(s, DoRowOp(s, o, e), e)
<1> DEFINE r == DoRowOp(s, o, e)
<1>1. /\ r \in Store /\ r.edges = s.edges /\ r.idem = s.idem /\ r.log = s.log /\ r.seq = s.seq
      /\ \A t \in Targets : t # o.row => r.rows[t] = s.rows[t]
      /\ r.helix = IF o.do = "declare" /\ e.op = "INS" THEN s.helix \union {e.on} ELSE s.helix
  BY RowOpEffect, Zenon
<1>2. o.row \in Reach(e) /\ e.on \in Reach(e)
  BY DEF OpsOf, Reach
<1> HIDE DEF r
<1> QED
  BY <1>1, <1>2 DEF Outside, Alike, AlikeAt, Touching, r

LEMMA RowsDoneLocal ==
  ASSUME NEW e \in Event, NEW ops \in Seq(OpsOf(e)), NEW s \in Store
  PROVE  /\ Outside(s, RowsDone(s, e, ops), e)
         /\ \A r \in Store, X \in SUBSET Targets :
              Reach(e) \subseteq X /\ Alike(s, r, X) => Alike(RowsDone(s, e, ops), RowsDone(r, e, ops), X)
<1>0. ops \in Seq(RowOp) /\ Len(ops) \in Nat /\ \A i \in 1 .. Len(ops) : ops[i] \in OpsOf(e)
  <2>1. Len(ops) \in Nat /\ \A i \in 1 .. Len(ops) : ops[i] \in OpsOf(e)
    OBVIOUS
  <2>2. \A i \in 1 .. Len(ops) : ops[i] \in RowOp
    BY <2>1 DEF OpsOf
  <2> QED
    BY <2>1, <2>2
<1>1. PICK a \in [0 .. Len(ops) -> Beyond(s, e)] : RowsRunning(a, s, e, ops)
  BY <1>0, RowsRun
<1>2. \A i \in 0 .. Len(ops) : a[i] \in Store
  BY <1>1 DEF Beyond
<1>3. Outside(s, RowsDone(s, e, ops), e)
  <2> DEFINE A == {i \in 0 .. Len(ops) : Outside(s, a[i], e)}
  <2>1. 0 \in A
    <3>1. Outside(s, s, e)
      BY AlikeIsEquivalence DEF Outside
    <3> QED
      BY <1>0, <1>1, <3>1 DEF RowsRunning
  <2>2. ASSUME NEW i \in 0 .. Len(ops) - 1, i \in A PROVE i + 1 \in A
    <3>1. i + 1 \in 1 .. Len(ops) /\ (i + 1) - 1 = i /\ i + 1 \in 0 .. Len(ops) /\ i \in 0 .. Len(ops)
      BY <1>0
    <3>2. a[i + 1] = DoRowOp(a[i], ops[i + 1], e)
      BY <1>1, <3>1 DEF RowsRunning
    <3>3. Outside(a[i], a[i + 1], e)
      BY <1>0, <1>2, <3>1, <3>2, RowOpFrame
    <3>4. Outside(s, a[i], e)
      BY <2>2
    <3>5. Outside(s, a[i + 1], e)
      BY <3>3, <3>4, AlikeIsEquivalence DEF Outside
    <3> QED
      BY <3>1, <3>5
  <2> HIDE DEF A
  <2>3. Len(ops) \in A
    BY <1>0, <2>1, <2>2, AtTheEnd, Zenon
  <2> QED
    BY <1>1, <2>3 DEF A, RowsRunning
<1>4. ASSUME NEW r \in Store, NEW X \in SUBSET Targets, Reach(e) \subseteq X, Alike(s, r, X)
      PROVE  Alike(RowsDone(s, e, ops), RowsDone(r, e, ops), X)
  <2>1. PICK b \in [0 .. Len(ops) -> Beyond(r, e)] : RowsRunning(b, r, e, ops)
    BY <1>0, RowsRun
  <2>2. \A i \in 0 .. Len(ops) : b[i] \in Store
    BY <2>1 DEF Beyond
  <2> DEFINE A == {i \in 0 .. Len(ops) : Alike(a[i], b[i], X)}
  <2>3. 0 \in A
    BY <1>0, <1>1, <1>4, <2>1 DEF RowsRunning
  <2>4. ASSUME NEW i \in 0 .. Len(ops) - 1, i \in A PROVE i + 1 \in A
    <3>1. i + 1 \in 1 .. Len(ops) /\ (i + 1) - 1 = i /\ i + 1 \in 0 .. Len(ops) /\ i \in 0 .. Len(ops)
      BY <1>0
    <3>2. a[i + 1] = DoRowOp(a[i], ops[i + 1], e) /\ b[i + 1] = DoRowOp(b[i], ops[i + 1], e)
      BY <1>1, <2>1, <3>1 DEF RowsRunning
    <3>3. Alike(a[i], b[i], X)
      BY <2>4
    <3>4. a[i] \in Store /\ b[i] \in Store /\ ops[i + 1] \in OpsOf(e)
      BY <1>0, <1>2, <2>2, <3>1
    <3>5. Alike(a[i + 1], b[i + 1], X)
      BY <1>4, <3>2, <3>3, <3>4, RowOpLocal
    <3> QED
      BY <3>1, <3>5
  <2> HIDE DEF A
  <2>5. Len(ops) \in A
    BY <1>0, <2>3, <2>4, AtTheEnd, Zenon
  <2> QED
    BY <1>1, <2>1, <2>5 DEF A, RowsRunning
<1> QED
  BY <1>3, <1>4

\* Two sequences are the same if they are as long and have the same elements.
LEMMA SeqsEqual ==
  ASSUME NEW E, NEW s \in Seq(E), NEW t \in Seq(E), Len(s) = Len(t),
         \A i \in 1 .. Len(s) : s[i] = t[i]
  PROVE  s = t
OBVIOUS

\* What a concatenation holds.
LEMMA JoinedElements ==
  ASSUME NEW E, NEW s \in Seq(E), NEW t \in Seq(E)
  PROVE  /\ s \o t \in Seq(E) /\ Len(s \o t) = Len(s) + Len(t)
         /\ \A i \in 1 .. Len(s) : (s \o t)[i] = s[i]
         /\ \A i \in 1 .. Len(t) : (s \o t)[Len(s) + i] = t[i]
OBVIOUS

\* One element, and two behind it.
LEMMA ThreeInARow ==
  ASSUME NEW a, NEW d, NEW c
  PROVE  <<a>> \o << >> \o <<d, c>> = <<a, d, c>>
<1> DEFINE E == {a, d, c}
           u == <<a>>
           v == <<d, c>>
           w == <<a, d, c>>
<1>1. /\ u \in Seq(E) /\ Len(u) = 1 /\ u[1] = a
      /\ v \in Seq(E) /\ Len(v) = 2 /\ v[1] = d /\ v[2] = c
      /\ w \in Seq(E) /\ Len(w) = 3 /\ w[1] = a /\ w[2] = d /\ w[3] = c
  OBVIOUS
<1>2. u \o << >> = u
  OBVIOUS
<1> HIDE DEF E, u, v, w
<1>3. /\ u \o v \in Seq(E) /\ Len(u \o v) = Len(u) + Len(v)
      /\ \A i \in 1 .. Len(u) : (u \o v)[i] = u[i]
      /\ \A i \in 1 .. Len(v) : (u \o v)[Len(u) + i] = v[i]
  <2>1. u \in Seq(E) /\ v \in Seq(E)
    BY <1>1
  <2> QED
    BY <2>1, JoinedElements
<1> DEFINE p == u \o v
<1>8. /\ p \in Seq(E) /\ Len(p) = Len(u) + Len(v)
      /\ \A i \in 1 .. Len(u) : p[i] = u[i]
      /\ \A i \in 1 .. Len(v) : p[Len(u) + i] = v[i]
  BY <1>3
<1> HIDE DEF p
<1>4. p \in Seq(E) /\ Len(p) = 3
  BY <1>1, <1>8
<1>5. p[1] = a /\ p[2] = d /\ p[3] = c
  <2>1. 1 \in 1 .. Len(u) /\ 1 \in 1 .. Len(v) /\ 2 \in 1 .. Len(v) /\ Len(u) + 1 = 2 /\ Len(u) + 2 = 3
    BY <1>1
  <2> QED
    BY <1>1, <1>8, <2>1
<1>6. ASSUME NEW i \in 1 .. Len(p) PROVE p[i] = w[i]
  <2>1. i = 1 \/ i = 2 \/ i = 3
    BY <1>4
  <2> QED
    BY <1>1, <1>5, <2>1
<1>7. p = w
  BY <1>1, <1>4, <1>6, SeqsEqual
<1> QED
  BY <1>2, <1>7 DEF u, v, w, p
LEMMA BehindTheFirst ==
  ASSUME NEW a \in {0, 1}, NEW b \in Nat, NEW i \in Int, i >= 2, i <= a + b
  PROVE  i - a \in 1 .. b /\ a + (i - a) = i
OBVIOUS

\* The row operations of an event: the row is applied first, once; INS applies, declares and
\* caches; CON brings the metrics of all it reaches up to date.
LEMMA RowOpsShape ==
  ASSUME NEW e \in Event
  PROVE  /\ RowOps(e) \in Seq(OpsOf(e))
         /\ \A i \in 2 .. Len(RowOps(e)) : RowOps(e)[i].do # "apply"
         /\ e.op = "INS" => RowOps(e) = << [do |-> "apply", row |-> e.on], [do |-> "declare", row |-> e.on],
                                           [do |-> "cache", row |-> e.on] >>
         /\ e.op = "CON" => \A t \in Reach(e) : [do |-> "metrics", row |-> t] \in ToSet(RowOps(e))
<1> DEFINE metrics(t) == [do |-> "metrics", row |-> t]
           dests == SetToSeq(e.to)
           app  == IF e.op \in {"NUL", "SYN"} THEN << >> ELSE << [do |-> "apply", row |-> e.on] >>
           all  == [i \in 1 .. Len(dests) |-> metrics(dests[i])]
           con  == IF e.op = "CON" THEN <<metrics(e.on)>> \o all ELSE << >>
           done == << [do |-> "declare", row |-> e.on], [do |-> "cache", row |-> e.on] >>
           T    == OpsOf(e)
           L    == {o \in T : o.do # "apply"}
<1>1. e.on \in Targets /\ e.to \in SUBSET Targets /\ e.on \in Reach(e) /\ e.to \subseteq Reach(e)
  BY DEF Event, Reach
<1>2. dests \in Seq(e.to) /\ e.to = {dests[i] : i \in 1 .. Len(dests)}
  <2>1. dests \in Seq(Targets) /\ ToSet(dests) = e.to
    BY <1>1, TargetsInSequence
  <2> HIDE DEF dests
  <2>2. e.to = {dests[i] : i \in 1 .. Len(dests)}
    BY <2>1, ElementsOf
  <2>3. \A i \in 1 .. Len(dests) : dests[i] \in e.to
    BY <2>2
  <2> QED
    BY <2>1, <2>2, <2>3
<1>3. /\ \A t \in Reach(e) : metrics(t) \in L
      /\ [do |-> "apply", row |-> e.on] \in T /\ [do |-> "declare", row |-> e.on] \in L
      /\ [do |-> "cache", row |-> e.on] \in L
  BY <1>1 DEF OpsOf, RowOp, Reach
<1>4. all \in Seq(L)
  <2> HIDE DEF dests, L
  <2>1. Len(dests) \in Nat /\ \A i \in 1 .. Len(dests) : dests[i] \in e.to
    BY <1>2
  <2> HIDE DEF metrics
  <2>2. \A i \in 1 .. Len(dests) : metrics(dests[i]) \in L
    BY <1>1, <1>3, <2>1
  <2> QED
    BY <2>1, <2>2
<1>5. app \in Seq(T) /\ Len(app) \in {0, 1}
  <2> DEFINE a == [do |-> "apply", row |-> e.on]
  <2>1. a \in T
    BY <1>3
  <2> HIDE DEF a, T
  <2>2. << >> \in Seq(T) /\ <<a>> \in Seq(T) /\ Len(<<a>>) = 1
    BY <2>1
  <2> QED
    BY <2>2 DEF a
<1>6. con \in Seq(L)
  <2> HIDE DEF all, metrics, L
  <2>1. <<metrics(e.on)>> \in Seq(L)
    BY <1>1, <1>3
  <2> QED
    BY <1>4, <2>1
<1>7. done \in Seq(L)
  <2> DEFINE d == [do |-> "declare", row |-> e.on]
             c == [do |-> "cache", row |-> e.on]
  <2>1. d \in L /\ c \in L
    BY <1>3
  <2> HIDE DEF d, c, L
  <2>2. <<d, c>> \in Seq(L)
    BY <2>1
  <2> QED
    BY <2>2 DEF d, c
<1>8. RowOps(e) = app \o con \o done
  BY Zenon DEF RowOps
<1>9. e.op = "INS" => RowOps(e) = << [do |-> "apply", row |-> e.on], [do |-> "declare", row |-> e.on],
                                     [do |-> "cache", row |-> e.on] >>
  <2> DEFINE a == [do |-> "apply", row |-> e.on]
             d == [do |-> "declare", row |-> e.on]
             c == [do |-> "cache", row |-> e.on]
  <2>1. e.op = "INS" => app = <<a>> /\ con = << >> /\ done = <<d, c>>
    OBVIOUS
  <2> HIDE DEF a, d, c, app, con, done
  <2>2. <<a>> \o << >> \o <<d, c>> = <<a, d, c>>
    BY ThreeInARow, Zenon
  <2> QED
    BY <1>8, <2>1, <2>2 DEF a, d, c
<1>10. L \subseteq T /\ \A o \in L : o.do # "apply"
  OBVIOUS
<1>11. e.op = "CON" => \A t \in Reach(e) : \E i \in 1 .. Len(con) : con[i] = metrics(t)
  <2>1. SUFFICES ASSUME e.op = "CON", NEW t \in Reach(e) PROVE \E i \in 1 .. Len(con) : con[i] = metrics(t)
    OBVIOUS
  <2>2. con = <<metrics(e.on)>> \o all
    BY <2>1
  <2> HIDE DEF L
  <2>3. /\ Len(con) = 1 + Len(all) /\ Len(all) = Len(dests) /\ con[1] = metrics(e.on) /\ Len(all) \in Nat
        /\ \A i \in 1 .. Len(all) : con[i + 1] = all[i]
    <3> HIDE DEF all, metrics, con
    <3>1. all \in Seq(L) /\ Len(<<metrics(e.on)>>) = 1 /\ <<metrics(e.on)>> \in Seq({metrics(e.on)})
      BY <1>4
    <3>2. Len(all) = Len(dests)
      <4>1. Len(dests) \in Nat
        BY <1>2
      <4> QED
        BY <4>1 DEF all
    <3> QED
      BY <2>2, <3>1, <3>2
  <2>4. CASE t = e.on
    BY <2>3, <2>4
  <2>5. CASE t \in e.to
    <3>1. PICK i \in 1 .. Len(dests) : t = dests[i]
      BY <1>2, <2>5
    <3>2. con[i + 1] = metrics(t) /\ i + 1 \in 1 .. Len(con)
      BY <2>3, <3>1
    <3> QED
      BY <3>2
  <2> QED
    BY <2>1, <2>4, <2>5 DEF Reach
<1> HIDE DEF app, con, done, T, L
<1> DEFINE ops == app \o con \o done
<1>12. app \in Seq(T) /\ con \in Seq(T) /\ done \in Seq(T)
  BY <1>5, <1>6, <1>7, <1>10
<1> DEFINE m == app \o con
<1>13. /\ m \in Seq(T) /\ ops \in Seq(T) /\ Len(m) = Len(app) + Len(con) /\ Len(ops) = Len(m) + Len(done)
       /\ \A i \in 1 .. Len(con) : m[Len(app) + i] = con[i]
       /\ \A i \in 1 .. Len(m) : ops[i] = m[i]
       /\ \A i \in 1 .. Len(done) : ops[Len(m) + i] = done[i]
  <2>1. m \in Seq(T) /\ Len(m) = Len(app) + Len(con) /\ \A i \in 1 .. Len(con) : m[Len(app) + i] = con[i]
    BY <1>12
  <2> HIDE DEF m
  <2>2. /\ m \o done \in Seq(T) /\ Len(m \o done) = Len(m) + Len(done)
        /\ \A i \in 1 .. Len(m) : (m \o done)[i] = m[i]
        /\ \A i \in 1 .. Len(done) : (m \o done)[Len(m) + i] = done[i]
    <3>1. m \in Seq(T) /\ done \in Seq(T)
      BY <1>12, <2>1
    <3> QED
      BY <3>1, JoinedElements
  <2> QED
    BY <2>1, <2>2 DEF m
<1> HIDE DEF ops, m
<1>14. ASSUME NEW i \in 2 .. Len(ops) PROVE ops[i].do # "apply"
  <2>0. /\ \A j \in 1 .. Len(con) : con[j] \in L
        /\ \A j \in 1 .. Len(done) : done[j] \in L
    BY <1>6, <1>7
  <2>1. Len(app) \in {0, 1} /\ Len(con) \in Nat /\ Len(done) \in Nat
    BY <1>5, <1>6, <1>7
  <2>2. CASE i <= Len(m)
    <3>0. Len(m) = Len(app) + Len(con) /\ i \in Int /\ i >= 2
      BY <1>13, <2>1
    <3> DEFINE j == i - Len(app)
    <3>1. j \in 1 .. Len(con) /\ Len(app) + j = i /\ i \in 1 .. Len(m)
      <4>1. i <= Len(app) + Len(con) /\ i \in 1 .. Len(m)
        BY <3>0, <2>2
      <4> QED
        BY <4>1, <3>0, <2>1, BehindTheFirst, Zenon
    <3> HIDE DEF j
    <3>2. ops[i] = con[j]
      BY <1>13, <3>1
    <3> QED
      BY <1>10, <2>0, <3>1, <3>2
  <2>3. CASE i > Len(m)
    <3>0. Len(m) = Len(app) + Len(con) /\ Len(ops) = Len(m) + Len(done) /\ i \in Int /\ i >= 2 /\ i <= Len(ops)
      <4>1. Len(ops) \in Nat
        BY <1>13
      <4> QED
        BY <1>13, <4>1
    <3> DEFINE j == i - Len(m)
    <3>1. j \in 1 .. Len(done) /\ Len(m) + j = i
      BY <3>0, <2>1, <2>3
    <3> HIDE DEF j
    <3>2. ops[i] = done[j]
      BY <1>13, <3>1
    <3> QED
      BY <1>10, <2>0, <3>1, <3>2
  <2>4. i \in Int /\ Len(m) \in Int
    BY <1>13, <2>1
  <2> QED
    BY <2>2, <2>3, <2>4
<1>15. e.op = "CON" => \A t \in Reach(e) : metrics(t) \in ToSet(ops)
  <2>1. SUFFICES ASSUME e.op = "CON", NEW t \in Reach(e) PROVE metrics(t) \in ToSet(ops)
    OBVIOUS
  <2>2. PICK i \in 1 .. Len(con) : con[i] = metrics(t)
    BY <1>11, <2>1
  <2> HIDE DEF metrics
  <2>3. Len(app) + i \in 1 .. Len(ops) /\ ops[Len(app) + i] = metrics(t)
    <3>1. Len(app) \in {0, 1} /\ Len(con) \in Nat /\ Len(done) \in Nat
      BY <1>5, <1>6, <1>7
    <3>2. Len(app) + i \in 1 .. Len(m)
      BY <1>13, <3>1
    <3> QED
      BY <1>13, <2>2, <3>1, <3>2
  <2>4. ToSet(ops) = {ops[j] : j \in 1 .. Len(ops)}
    BY <1>13, ElementsOf
  <2> QED
    BY <2>3, <2>4
<1> QED
  BY <1>8, <1>9, <1>13, <1>14, <1>15 DEF T, ops

LEMMA ExecutedIsRowsDone ==
  ASSUME NEW s, NEW e
  PROVE  Executed(s, e) = RowsDone(s, e, RowOps(e))
BY DEF Executed, RowsDone

\* The store that holds the event in its log and its edges, before any row is read.
LoggedEdges(s, x) == WithEdges(Logged(s, x), x.ev)

LEMMA LoggedEdgesEffect ==
  ASSUME NEW s \in Store, NEW x \in Planned
  PROVE  LET u == LoggedEdges(s, x)
         IN  /\ u \in Store /\ u.rows = s.rows /\ u.helix = s.helix /\ u.seq = s.seq
             /\ u.edges = s.edges \union ({x.ev.on} \X x.ev.to)
             /\ u.idem = s.idem \union {x.ev.id} /\ u.log = Append(s.log, x)
             /\ Alike(s, u, Targets \ Reach(x.ev))
<1> DEFINE e     == x.ev
           log   == Append(s.log, x)
           ids   == s.idem \union {e.id}
           edges == s.edges \union ({e.on} \X e.to)
           u     == LoggedEdges(s, x)
<1>1. e \in Event /\ e.on \in Targets /\ e.id \in Nat /\ e.to \in SUBSET Targets
  BY DEF Planned, Event
<1>2. log \in Seq(Planned) /\ ids \in SUBSET Nat /\ edges \in SUBSET (Targets \X Targets)
  <2>1. s.log \in Seq(Planned) /\ s.idem \in SUBSET Nat /\ s.edges \in SUBSET (Targets \X Targets)
    BY DEF Store
  <2>2. {e.on} \X e.to \in SUBSET (Targets \X Targets)
    BY <1>1
  <2> QED
    BY <1>1, <2>1, <2>2
<1>3. u = [s EXCEPT !.log = log, !.idem = ids, !.edges = edges]
  BY DEF LoggedEdges, WithEdges, Logged, Store
<1> HIDE DEF log, ids, edges, u
<1>4. /\ u \in Store /\ u.rows = s.rows /\ u.helix = s.helix /\ u.seq = s.seq
      /\ u.edges = edges /\ u.idem = ids /\ u.log = log
  BY <1>2, <1>3 DEF Store
<1>5. ASSUME NEW t \in Targets \ Reach(e) PROVE Touching(u, t) = Touching(s, t)
  <2>1. \A y \in {e.on} \X e.to : t \notin {y[1], y[2]}
    BY <1>5 DEF Reach
  <2> QED
    BY <1>4, <2>1 DEF Touching, edges
<1>6. Alike(s, u, Targets \ Reach(e))
  BY <1>4, <1>5 DEF Alike, AlikeAt
<1> QED
  BY <1>4, <1>6 DEF u, log, ids, edges, e

LEMMA LoggedEdgesLocal ==
  ASSUME NEW s \in Store, NEW r \in Store, NEW x \in Planned, NEW X, Alike(s, r, X)
  PROVE  Alike(LoggedEdges(s, x), LoggedEdges(r, x), X)
<1> DEFINE u == LoggedEdges(s, x)
           v == LoggedEdges(r, x)
           n == {x.ev.on} \X x.ev.to
<1>1. /\ u.rows = s.rows /\ u.helix = s.helix /\ u.edges = s.edges \union n
      /\ v.rows = r.rows /\ v.helix = r.helix /\ v.edges = r.edges \union n
  BY LoggedEdgesEffect, Zenon
<1> HIDE DEF u, v, n
<1>2. ASSUME NEW t \in X PROVE AlikeAt(u, v, t)
  <2>1. AlikeAt(s, r, t)
    BY DEF Alike
  <2>2. /\ Touching(u, t) = Touching(s, t) \union {y \in n : t \in {y[1], y[2]}}
        /\ Touching(v, t) = Touching(r, t) \union {y \in n : t \in {y[1], y[2]}}
    BY <1>1 DEF Touching
  <2> QED
    BY <1>1, <2>1, <2>2 DEF AlikeAt
<1> QED
  BY <1>2 DEF Alike, u, v

\* The event as a whole: what it logs, and that it reads and writes the rows it reaches only.
LEMMA CoreLocal ==
  ASSUME NEW s \in Store, NEW x \in Planned
  PROVE  LET q == processEventCoreWithSeq(s, x)
         IN  /\ q \in Store /\ q.seq = s.seq /\ Alike(s, q, Targets \ Reach(x.ev))
             /\ Known(s, x.ev) => q = s
             /\ ~Known(s, x.ev) => /\ q.edges = s.edges \union ({x.ev.on} \X x.ev.to)
                                   /\ q.idem = s.idem \union {x.ev.id} /\ q.log = Append(s.log, x)
                                   /\ q = RowsDone(LoggedEdges(s, x), x.ev, RowOps(x.ev))
             /\ \A r \in Store, X \in SUBSET Targets :
                  Reach(x.ev) \subseteq X /\ Alike(s, r, X) /\ (Known(s, x.ev) <=> Known(r, x.ev)) =>
                    Alike(q, processEventCoreWithSeq(r, x), X)
<1> DEFINE e   == x.ev
           ops == RowOps(e)
           u   == LoggedEdges(s, x)
           q   == processEventCoreWithSeq(s, x)
<1>1. e \in Event /\ ops \in Seq(OpsOf(e))
  BY RowOpsShape DEF Planned
<1>2. \A r \in Store : processEventCoreWithSeq(r, x) =
                         IF Known(r, e) THEN r ELSE RowsDone(LoggedEdges(r, x), e, ops)
  BY ExecutedIsRowsDone, Zenon DEF processEventCoreWithSeq, LoggedEdges
<1> HIDE DEF ops
<1>3. CASE Known(s, e)
  <2>1. q = s
    BY <1>2, <1>3
  <2>2. ASSUME NEW r \in Store, NEW X \in SUBSET Targets, Alike(s, r, X), Known(s, e) <=> Known(r, e)
        PROVE  Alike(q, processEventCoreWithSeq(r, x), X)
    BY <1>2, <1>3, <2>1, <2>2
  <2> QED
    BY <1>3, <2>1, <2>2, AlikeIsEquivalence
<1>4. CASE ~Known(s, e)
  <2>1. q = RowsDone(u, e, ops)
    BY <1>2, <1>4
  <2>2. /\ u \in Store /\ u.seq = s.seq /\ u.edges = s.edges \union ({e.on} \X e.to)
        /\ u.idem = s.idem \union {e.id} /\ u.log = Append(s.log, x)
        /\ Alike(s, u, Targets \ Reach(e))
    BY LoggedEdgesEffect, Zenon
  <2> HIDE DEF u, q
  <2>3. Outside(u, q, e)
    BY <1>1, <2>1, <2>2, RowsDoneLocal
  <2>4. ASSUME NEW r \in Store, NEW X \in SUBSET Targets, Reach(e) \subseteq X, Alike(s, r, X),
               Known(s, e) <=> Known(r, e)
        PROVE  Alike(q, processEventCoreWithSeq(r, x), X)
    <3>1. processEventCoreWithSeq(r, x) = RowsDone(LoggedEdges(r, x), e, ops)
      BY <1>2, <1>4, <2>4
    <3>2. LoggedEdges(r, x) \in Store /\ Alike(u, LoggedEdges(r, x), X)
      BY <2>4, LoggedEdgesEffect, LoggedEdgesLocal DEF u
    <3> QED
      BY <1>1, <2>1, <2>2, <2>4, <3>1, <3>2, RowsDoneLocal
  <2>5. Alike(s, q, Targets \ Reach(e))
    BY <2>2, <2>3, AlikeIsEquivalence DEF Outside
  <2>6. /\ q \in Store /\ q.seq = s.seq /\ q.edges = s.edges \union ({e.on} \X e.to)
        /\ q.idem = s.idem \union {e.id} /\ q.log = Append(s.log, x)
    BY <2>2, <2>3 DEF Outside
  <2> QED
    BY <1>4, <2>1, <2>4, <2>5, <2>6 DEF q, u, ops
<1> QED
  BY <1>3, <1>4

-----------------------------------------------------------------------------
(* What an event makes of the rows: they stay, and their metrics are fresh. *)

\* What an INS is logged of has its row, and the metrics are those of the edges.
RowsOn(s) == \A t \in Targets : HasINS(ToSet(s.log), t) => s.rows[t].on
Fresh(s)  == \A t \in Targets : s.rows[t].metrics = Touching(s, t)

\* The rows an event needs are there.
Grounded(s, e) == /\ e.to # {} => e.op = "CON"
                  /\ e.op \in NeedsINS => s.rows[e.on].on
                  /\ \A d \in e.to : s.rows[d].on

LEMMA PutFields ==
  ASSUME NEW o \in RowOp, NEW e \in Event, NEW row \in Row, NEW edges \in SUBSET (Targets \X Targets)
  PROVE  LET p == Put(o, e, row, row, edges)
         IN  /\ p \in Row /\ (row.on => p.on)
             /\ p.metrics = IF o.do = "metrics" THEN {x \in edges : o.row \in {x[1], x[2]}} ELSE row.metrics
             /\ o.do = "apply" /\ e.op = "INS" => p.on
<1> DEFINE M == {x \in edges : o.row \in {x[1], x[2]}}
           p == Put(o, e, row, row, edges)
           whole == [row EXCEPT !.on = TRUE, !.base = e.id, !.def = 0, !.edges = {}]
           merge == [row EXCEPT !.base = row.base, !.def = row.def, !.edges = row.edges]
<1>1. whole.on /\ whole.metrics = row.metrics /\ merge.on = row.on /\ merge.metrics = row.metrics /\ merge \in Row
  BY DEF Row
<1>2. [row EXCEPT !.metrics = M].on = row.on /\ [row EXCEPT !.metrics = M].metrics = M
  <2> HIDE DEF M
  <2> QED
    BY DEF Row
<1>3. [row EXCEPT !.fold = Append(@, e.id)].on = row.on /\ [row EXCEPT !.fold = Append(@, e.id)].metrics = row.metrics
  <2> DEFINE f == Append(row.fold, e.id)
  <2> HIDE DEF f
  <2>1. [row EXCEPT !.fold = f].on = row.on /\ [row EXCEPT !.fold = f].metrics = row.metrics
    BY DEF Row
  <2> QED
    BY <2>1 DEF f
<1> HIDE DEF whole, merge
<1>4. [merge EXCEPT !.def = e.id].on = row.on /\ [merge EXCEPT !.def = e.id].metrics = row.metrics
  BY <1>1 DEF Row
<1>5. /\ [merge EXCEPT !.edges = {d \in Targets : <<e.on, d>> \in edges}].on = row.on
      /\ [merge EXCEPT !.edges = {d \in Targets : <<e.on, d>> \in edges}].metrics = row.metrics
  BY <1>1 DEF Row
<1>6. (row.on => p.on) /\ p.metrics = IF o.do = "metrics" THEN M ELSE row.metrics
  <2>1. row.on => p.on
    BY <1>1, <1>2, <1>3, <1>4, <1>5 DEF Put, whole, merge
  <2>2. o.do = "metrics" => p.metrics = M
    <3>1. SUFFICES ASSUME o.do = "metrics" PROVE p.metrics = M
      OBVIOUS
    <3>2. p = [row EXCEPT !.metrics = M]
      BY <3>1 DEF Put
    <3> QED
      BY <1>2, <3>2, Zenon
  <2>3. o.do # "metrics" => p.metrics = row.metrics
    BY <1>1, <1>3, <1>4, <1>5 DEF Put, whole, merge
  <2> QED
    BY <2>1, <2>2, <2>3
<1>7. o.do = "apply" /\ e.op = "INS" => p.on
  BY <1>1 DEF Put, whole
<1>8. p \in Row
  BY PutType
<1> HIDE DEF p, M
<1> QED
  BY <1>6, <1>7, <1>8 DEF p, M

LEMMA RowOpRows ==
  ASSUME NEW s \in Store, NEW e \in Event, NEW o \in OpsOf(e)
  PROVE  LET r == DoRowOp(s, o, e)
         IN  \A t \in Targets :
               /\ s.rows[t].on => r.rows[t].on
               /\ r.rows[t].metrics = IF o.do = "metrics" /\ t = o.row /\ s.rows[t].on
                                      THEN Touching(s, t) ELSE s.rows[t].metrics
               /\ o.do = "apply" /\ e.op = "INS" /\ t = o.row => r.rows[t].on
               /\ r.rows[t] # s.rows[t] => t = o.row
<1> DEFINE r   == DoRowOp(s, o, e)
           row == s.rows[o.row]
           put == Put(o, e, row, row, s.edges)
<1>1. /\ o \in RowOp /\ o.row \in Targets /\ o.do \in {"apply", "metrics", "declare", "cache"}
      /\ \A t \in Targets : s.rows[t] \in Row
      /\ s.edges \in SUBSET (Targets \X Targets)
  BY DEF OpsOf, RowOp, Store
<1>2. /\ \A t \in Targets : t # o.row => r.rows[t] = s.rows[t]
      /\ r.rows[o.row] = IF o.do = "declare" \/ Skips(o, e, row) THEN row ELSE put
  BY RowOpEffect, Zenon
<1>3. /\ put \in Row /\ (row.on => put.on)
      /\ put.metrics = IF o.do = "metrics" THEN Touching(s, o.row) ELSE row.metrics
      /\ o.do = "apply" /\ e.op = "INS" => put.on
  <2>1. row \in Row
    BY <1>1
  <2> HIDE DEF row
  <2> QED
    BY <1>1, <2>1, PutFields DEF Touching
<1>4. Skips(o, e, row) <=> IF o.do = "apply" THEN e.op = "INS" /\ row.on ELSE ~row.on
  BY DEF Skips
<1> HIDE DEF r, put
<1>5. ASSUME NEW t \in Targets
      PROVE  /\ s.rows[t].on => r.rows[t].on
             /\ r.rows[t].metrics = IF o.do = "metrics" /\ t = o.row /\ s.rows[t].on
                                    THEN Touching(s, t) ELSE s.rows[t].metrics
             /\ o.do = "apply" /\ e.op = "INS" /\ t = o.row => r.rows[t].on
             /\ r.rows[t] # s.rows[t] => t = o.row
  <2>1. CASE t # o.row
    BY <1>2, <2>1
  <2>2. CASE t = o.row /\ (o.do = "declare" \/ Skips(o, e, row))
    BY <1>2, <1>4, <2>2
  <2>3. CASE t = o.row /\ ~(o.do = "declare" \/ Skips(o, e, row))
    <3>1. r.rows[t] = put /\ s.rows[t] = row
      BY <1>2, <2>3
    <3>2. o.do = "metrics" => row.on
      BY <1>4, <2>3
    <3> HIDE DEF row
    <3> QED
      BY <1>3, <2>3, <3>1, <3>2
  <2> QED
    BY <2>1, <2>2, <2>3
<1> QED
  BY <1>5 DEF r

\* NUL applies nothing; declaring, refreshing and caching leave a missing row alone.
LEMMA RowOpsOfNul ==
  ASSUME NEW e \in Event, e.op = "NUL"
  PROVE  \A i \in 1 .. Len(RowOps(e)) : RowOps(e)[i].do # "apply"
<1> DEFINE d == [do |-> "declare", row |-> e.on]
           c == [do |-> "cache", row |-> e.on]
<1>1. RowOps(e) = << >> \o << >> \o <<d, c>>
  BY Zenon DEF RowOps
<1>2. << >> \o << >> \o <<d, c>> = <<d, c>>
  OBVIOUS
<1>3. RowOps(e) = <<d, c>>
  BY <1>1, <1>2
<1>4. d.do # "apply" /\ c.do # "apply"
  OBVIOUS
<1> HIDE DEF d, c
<1>5. Len(<<d, c>>) = 2 /\ <<d, c>>[1] = d /\ <<d, c>>[2] = c
  OBVIOUS
<1> QED
  BY <1>3, <1>4, <1>5

LEMMA RowStays ==
  ASSUME NEW s \in Store, NEW e \in Event, NEW o \in OpsOf(e), o.do # "apply", ~s.rows[o.row].on
  PROVE  DoRowOp(s, o, e).rows[o.row] = s.rows[o.row]
<1>1. Skips(o, e, s.rows[o.row])
  BY DEF Skips
<1>2. DoRowOp(s, o, e).rows[o.row] =
        IF o.do = "declare" \/ Skips(o, e, s.rows[o.row]) THEN s.rows[o.row]
        ELSE Put(o, e, s.rows[o.row], s.rows[o.row], s.edges)
  BY RowOpEffect, Zenon
<1> QED
  BY <1>1, <1>2

\* An event grounded in a store: no row is lost, those it reaches are brought up to date.
LEMMA CoreRows ==
  ASSUME NEW s \in Store, NEW x \in Planned, Grounded(s, x.ev), RowsOn(s), Fresh(s)
  PROVE  LET q == processEventCoreWithSeq(s, x)
         IN  /\ RowsOn(q) /\ Fresh(q)
             /\ \A t \in Targets : s.rows[t].on => q.rows[t].on
             /\ \A t \in Targets : q.rows[t] # s.rows[t] =>
                  q.rows[t].on /\ ~Known(s, x.ev) /\ \E o \in ToSet(RowOps(x.ev)) : o.row = t
<1> DEFINE e   == x.ev
           ops == RowOps(e)
           n   == Len(ops)
           u   == LoggedEdges(s, x)
           q   == processEventCoreWithSeq(s, x)
           fresh(t) == Touching(u, t)
           metrics(t) == [do |-> "metrics", row |-> t]
<1>1. CASE Known(s, e)
  <2>1. q = s
    BY <1>1, CoreLocal, Zenon
  <2> QED
    BY <2>1
<1>2. CASE ~Known(s, e)
  <2>1. /\ e \in Event /\ e.on \in Targets /\ ops \in Seq(OpsOf(e)) /\ n \in Nat
        /\ e.op = "INS" => ops = << [do |-> "apply", row |-> e.on], [do |-> "declare", row |-> e.on],
                                     [do |-> "cache", row |-> e.on] >>
        /\ e.op = "CON" => \A t \in Reach(e) : metrics(t) \in ToSet(ops)
    <3>1. e \in Event
      BY DEF Planned
    <3>2. ops \in Seq(OpsOf(e))
      BY <3>1, RowOpsShape, Zenon
    <3> QED
      BY <3>1, <3>2, RowOpsShape DEF Event
  <2>2. /\ q \in Store /\ q.log = Append(s.log, x) /\ q = RowsDone(u, e, ops)
    BY <1>2, CoreLocal, Zenon
  <2>3. /\ u \in Store /\ u.rows = s.rows /\ u.edges = s.edges \union ({e.on} \X e.to)
        /\ Alike(s, u, Targets \ Reach(e))
    BY LoggedEdgesEffect, Zenon
  <2> HIDE DEF u, q, e, ops
  <2>4. ops \in Seq(RowOp) /\ \A i \in 1 .. n : ops[i] \in OpsOf(e)
    <3>1. \A i \in 1 .. n : ops[i] \in OpsOf(e)
      BY <2>1
    <3>2. OpsOf(e) \subseteq RowOp
      BY DEF OpsOf
    <3> QED
      BY <2>1, <3>1, <3>2
  <2>5. PICK a \in [0 .. n -> Beyond(u, e)] : RowsRunning(a, u, e, ops)
    BY <2>1, <2>3, <2>4, RowsRun
  <2>6. a[0] = u /\ a[n] = q /\ \A i \in 1 .. n : a[i] = DoRowOp(a[i - 1], ops[i], e)
    BY <2>2, <2>5 DEF RowsRunning
  <2>7. \A i \in 0 .. n : a[i] \in Store
    BY <2>5 DEF Beyond
  <2> DEFINE G(i, t) ==
               /\ s.rows[t].on => a[i].rows[t].on
               /\ a[i].rows[t].metrics = s.rows[t].metrics \/ a[i].rows[t].metrics = fresh(t)
               /\ s.rows[t].on /\ (\E j \in 1 .. i : ops[j] = metrics(t)) => a[i].rows[t].metrics = fresh(t)
               /\ e.op = "INS" /\ i >= 1 /\ t = e.on => a[i].rows[t].on
               /\ a[i].rows[t] # s.rows[t] => a[i].rows[t].on /\ \E j \in 1 .. i : ops[j].row = t
             A == {i \in 0 .. n : a[i].edges = u.edges /\ \A t \in Targets : G(i, t)}
  <2>8. 0 \in A
    BY <2>1, <2>3, <2>6
  <2>9. ASSUME NEW i \in 0 .. n - 1, i \in A PROVE i + 1 \in A
    <3>1. /\ i \in 0 .. n /\ i + 1 \in 1 .. n /\ i + 1 \in 0 .. n /\ (i + 1) - 1 = i
      BY <2>1
    <3> DEFINE o == ops[i + 1]
    <3>2. o \in OpsOf(e) /\ a[i] \in Store /\ a[i + 1] = DoRowOp(a[i], o, e)
      BY <2>4, <2>6, <2>7, <3>1
    <3>3. a[i].edges = u.edges /\ \A t \in Targets : G(i, t)
      BY <2>9
    <3>4. a[i + 1].edges = a[i].edges
      <4>1. Outside(a[i], DoRowOp(a[i], o, e), e)
        BY <2>1, <3>2, RowOpFrame
      <4> QED
        BY <3>2, <4>1 DEF Outside
    <3>5. \A t \in Targets :
            /\ a[i].rows[t].on => a[i + 1].rows[t].on
            /\ a[i + 1].rows[t].metrics = IF o.do = "metrics" /\ t = o.row /\ a[i].rows[t].on
                                          THEN Touching(a[i], t) ELSE a[i].rows[t].metrics
            /\ o.do = "apply" /\ e.op = "INS" /\ t = o.row => a[i + 1].rows[t].on
            /\ a[i + 1].rows[t] # a[i].rows[t] => t = o.row
      <4>1. e \in Event /\ o \in OpsOf(e) /\ a[i] \in Store
        BY <2>1, <3>2
      <4> HIDE DEF o
      <4>2. \A t \in Targets :
              /\ a[i].rows[t].on => DoRowOp(a[i], o, e).rows[t].on
              /\ DoRowOp(a[i], o, e).rows[t].metrics = IF o.do = "metrics" /\ t = o.row /\ a[i].rows[t].on
                                                       THEN Touching(a[i], t) ELSE a[i].rows[t].metrics
              /\ o.do = "apply" /\ e.op = "INS" /\ t = o.row => DoRowOp(a[i], o, e).rows[t].on
              /\ DoRowOp(a[i], o, e).rows[t] # a[i].rows[t] => t = o.row
        BY <4>1, RowOpRows, Zenon
      <4>3. a[i + 1] = DoRowOp(a[i], o, e)
        BY <3>2
      <4> QED
        BY <4>2, <4>3, Zenon
    <3>6. ASSUME NEW t \in Targets PROVE G(i + 1, t)
      <4>1. G(i, t)
        BY <3>3
      <4>2. Touching(a[i], t) = fresh(t)
        BY <3>3 DEF Touching
      <4>3. /\ a[i].rows[t].on => a[i + 1].rows[t].on
            /\ a[i + 1].rows[t].metrics = IF o.do = "metrics" /\ t = o.row /\ a[i].rows[t].on
                                          THEN fresh(t) ELSE a[i].rows[t].metrics
            /\ o.do = "apply" /\ e.op = "INS" /\ t = o.row => a[i + 1].rows[t].on
            /\ a[i + 1].rows[t] # a[i].rows[t] => t = o.row
        BY <3>5, <4>2
      <4>4. \A j \in 1 .. i + 1 : j \in 1 .. i \/ j = i + 1
        BY <2>1
      <4>5. s.rows[t].on => a[i + 1].rows[t].on
        BY <4>1, <4>3
      <4>6. \/ a[i + 1].rows[t].metrics = s.rows[t].metrics
            \/ a[i + 1].rows[t].metrics = fresh(t)
        BY <4>1, <4>3
      <4>7. ASSUME s.rows[t].on, NEW j \in 1 .. i + 1, ops[j] = metrics(t)
            PROVE  a[i + 1].rows[t].metrics = fresh(t)
        <5>1. CASE j \in 1 .. i
          BY <4>1, <4>3, <4>7, <5>1
        <5>2. CASE j = i + 1
          BY <4>1, <4>3, <4>7, <5>2
        <5> QED
          BY <4>4, <4>7, <5>1, <5>2
      <4>8. ASSUME e.op = "INS", t = e.on PROVE a[i + 1].rows[t].on
        <5>1. CASE i = 0
          <6>1. o = [do |-> "apply", row |-> e.on]
            BY <2>1, <4>8, <5>1
          <6> QED
            BY <4>3, <4>8, <6>1
        <5>2. CASE i >= 1
          BY <4>1, <4>3, <4>8, <5>2
        <5> QED
          BY <2>1, <5>1, <5>2
      <4>9. ASSUME a[i + 1].rows[t] # s.rows[t]
            PROVE  a[i + 1].rows[t].on /\ \E j \in 1 .. i + 1 : ops[j].row = t
        <5>1. CASE a[i].rows[t] # s.rows[t]
          <6>1. 1 .. i \subseteq 1 .. i + 1
            BY <2>1
          <6> QED
            BY <4>1, <4>3, <5>1, <6>1
        <5>2. CASE a[i].rows[t] = s.rows[t]
          <6>1. t = o.row
            BY <4>3, <4>9, <5>2
          <6>2. s.rows[t].on => a[i + 1].rows[t].on
            BY <4>5
          <6>3. ~s.rows[t].on => a[i + 1].rows[t].on
            <7>1. SUFFICES ASSUME ~s.rows[t].on PROVE a[i + 1].rows[t].on
              OBVIOUS
            <7>2. t \in Reach(e)
              BY <3>2, <6>1 DEF OpsOf
            <7>3. t = e.on /\ e.op \notin NeedsINS
              BY <7>1, <7>2 DEF Grounded, Reach, e
            <7>4. CASE e.op = "INS"
              BY <4>8, <7>3, <7>4
            <7>5. CASE e.op = "NUL"
              <8>1. o.do # "apply"
                BY <2>1, <3>1, <7>5, RowOpsOfNul DEF ops
              <8>2. a[i + 1].rows[t] = a[i].rows[t]
                BY <2>1, <3>2, <5>2, <6>1, <7>1, <8>1, RowStays
              <8> QED
                BY <4>9, <5>2, <8>2
            <7> QED
              BY <2>1, <7>3, <7>4, <7>5 DEF Event, Ops, NeedsINS
          <6> QED
            BY <3>1, <6>1, <6>2, <6>3
        <5> QED
          BY <5>1, <5>2
      <4> HIDE DEF fresh, metrics
      <4> QED
        BY <4>5, <4>6, <4>7, <4>8, <4>9
    <3> HIDE DEF G
    <3> QED
      BY <3>1, <3>3, <3>4, <3>6
  <2>10. n \in A
    BY <2>1, <2>8, <2>9, AtTheEnd, Zenon
  <2>11. q.edges = u.edges /\ \A t \in Targets : G(n, t)
    BY <2>6, <2>10
  <2> HIDE DEF A
  <2>12. ToSet(ops) = {ops[j] : j \in 1 .. n}
    BY <2>4, ElementsOf
  <2>13. Fresh(q)
    <3>1. ASSUME NEW t \in Targets PROVE q.rows[t].metrics = Touching(q, t)
      <4>1. Touching(q, t) = fresh(t)
        BY <2>11 DEF Touching
      <4>2. CASE e.op = "CON" /\ t \in Reach(e)
        <5>1. s.rows[t].on
          BY <4>2 DEF Grounded, Reach, NeedsINS, e
        <5>2. \E j \in 1 .. n : ops[j] = metrics(t)
          BY <2>1, <2>12, <4>2
        <5>3. q.rows[t].metrics = fresh(t)
          BY <2>6, <2>11, <5>1, <5>2
        <5> QED
          BY <4>1, <5>3
      <4>3. CASE ~(e.op = "CON" /\ t \in Reach(e))
        <5>1. fresh(t) = Touching(s, t)
          <6>1. CASE e.op # "CON"
            <7>1. e.to = {}
              BY <6>1 DEF Grounded, e
            <7>2. u.edges = s.edges
              BY <2>3, <7>1
            <7> QED
              BY <7>2 DEF Touching
          <6>2. CASE t \notin Reach(e)
            BY <2>3, <6>2 DEF Alike, AlikeAt
          <6> QED
            BY <4>3, <6>1, <6>2
        <5>2. s.rows[t].metrics = fresh(t)
          BY <5>1 DEF Fresh
        <5> QED
          BY <2>6, <2>11, <4>1, <5>2
      <4> QED
        BY <4>2, <4>3
    <3> QED
      BY <3>1 DEF Fresh
  <2>14. \A t \in Targets : s.rows[t].on => q.rows[t].on
    BY <2>6, <2>11
  <2>15. \A t \in Targets : q.rows[t] # s.rows[t] => q.rows[t].on /\ \E o \in ToSet(ops) : o.row = t
    BY <2>6, <2>11, <2>12
  <2>16. e.op = "INS" => q.rows[e.on].on
    <3>1. SUFFICES ASSUME e.op = "INS" PROVE q.rows[e.on].on
      OBVIOUS
    <3>2. n = 3
      <4> DEFINE x1 == [do |-> "apply", row |-> e.on]
                 x2 == [do |-> "declare", row |-> e.on]
                 x3 == [do |-> "cache", row |-> e.on]
      <4>1. ops = <<x1, x2, x3>>
        BY <2>1, <3>1
      <4> HIDE DEF x1, x2, x3
      <4> QED
        BY <4>1
    <3>3. G(n, e.on)
      BY <2>1, <2>11
    <3> QED
      BY <2>6, <3>1, <3>2, <3>3
  <2>17. RowsOn(q)
    <3>1. ToSet(q.log) = ToSet(s.log) \union {x}
      BY <2>2, Appended DEF Store
    <3> QED
      BY <2>14, <2>16, <3>1 DEF RowsOn, HasINS, e
  <2> QED
    BY <1>2, <2>13, <2>14, <2>15, <2>17 DEF q, e, ops
<1> QED
  BY <1>1, <1>2

-----------------------------------------------------------------------------
(* The log of an unmixed history replays to what the groups will have done. *)

\* A group that has logged the event it works on, and has operations on rows left.
Mid(g)  == g.todo # << >> /\ g.pc \in {"read", "write"}
Now(g)  == Head(g.todo).ev
Zone(g) == IF Mid(g) THEN Reach(Now(g)) ELSE {}
Zones(h) == UNION {Zone(h[k]) : k \in Groups}

\* The store r holds what s will once the groups have done the operations they have left.
Follows(s, r, h) ==
  /\ r.log = s.log /\ r.idem = s.idem /\ r.edges = s.edges
  /\ \A k \in Groups : Mid(h[k]) => Alike(r, RowsDone(s, Now(h[k]), h[k].ops), Reach(Now(h[k])))
  /\ Alike(r, s, Targets \ Zones(h))

\* A group that found its event new will find its rows as it left them.
MidFine(s, g) ==
  /\ g.todo # << >> /\ g.pc = "log" => ~Known(s, Now(g)) /\ ~Throws(s, Now(g))
  /\ Mid(g) => /\ g.ops \in Seq(OpsOf(Now(g)))
               /\ \A i \in 2 .. Len(g.ops) : g.ops[i].do # "apply"
               /\ g.ops # << >> /\ Head(g.ops).do = "apply" /\ Now(g).op = "INS" => ~s.rows[Now(g).on].on
  /\ g.todo # << >> /\ g.pc = "write" =>
       /\ g.ops # << >> /\ Head(g.ops).do # "declare" /\ g.copy = s.rows[Head(g.ops).row]
       /\ ~Skips(Head(g.ops), Now(g), g.copy)

\* The events an import has still to fold do not meet, and what they bring in is declared.
Pending(i, h) == Rest(i.steps) \union UNION {ToSet(h[k].todo) : k \in Groups}
Apart(P) == \A x, y \in P : x.ev.on # y.ev.on => Reach(x.ev) \cap Reach(y.ev) = {}
Brought(s, P) == \A x \in P : \A d \in x.ev.to \ {x.ev.on} : HasINS(ToSet(s.log), d)

Underway(i) == i.pc \in {"run", "shipped"}

\* The waves left are the last of the batch, and the INSs of the batch come early.
WavesOf(i) ==
  /\ Len(i.waves) <= 6
  /\ \A l \in 1 .. Len(i.waves) : i.waves[l] = sortByHelixLevel(i.batch)[6 - Len(i.waves) + l]
  /\ Len(i.waves) <= 4 => \A e \in ToSet(i.batch) : e.op = "INS" => e.on \in i.insed

History(s, i) ==
  /\ Underway(i) => /\ i.batch \in Imports /\ ~Meets(i.from, i.batch) /\ WavesOf(i)
                    /\ i.from.helix \subseteq s.helix
  /\ i.pc = "shipped" => i.snap = s
Alone(i, h) ==
  \A k \in Groups : h[k].todo # << >> => k[1] = i.n /\ i.pc = "run" /\ i.mode = "shared"

Rebuilding(s, i, h) ==
  /\ \A k \in Groups : MidFine(s, h[k])
  /\ Apart(Pending(i, h)) /\ Brought(s, Pending(i, h))
  /\ History(s, i) /\ Alone(i, h)
  /\ LET r == replayFromLog(s.log)
     IN  r \in Store /\ Follows(s, r, h) /\ RowsOn(r) /\ Fresh(r)

\* The inductive invariant behind LogRebuilds.
RebuildInv == ~mixed => Rebuilding(store, imp, task)

LEMMA MidZone ==
  ASSUME NEW g, NEW e, Now(g) = e
  PROVE  Zone(g) = IF Mid(g) THEN Reach(e) ELSE {}
BY DEF Zone

\* A group is undisturbed by what another one does to the rows that group reaches.
LEMMA OthersStay ==
  ASSUME NEW s \in Store, NEW r \in Store, NEW X, Alike(s, r, X), NEW g \in Task,
         g.todo # << >> => Reach(Now(g)) \subseteq X /\ (Known(s, Now(g)) <=> Known(r, Now(g))),
         MidFine(s, g)
  PROVE  /\ MidFine(r, g)
         /\ Mid(g) => Alike(RowsDone(s, Now(g), g.ops), RowsDone(r, Now(g), g.ops), Reach(Now(g)))
<1>1. CASE g.todo = << >>
  BY <1>1 DEF MidFine, Mid
<1>2. CASE g.todo # << >>
  <2> DEFINE e == Now(g)
  <2>1. e \in Event /\ Reach(e) \in SUBSET Targets /\ Reach(e) \subseteq X /\ e.on \in Reach(e)
    <3>1. g.todo \in Seq(Planned)
      BY DEF Task
    <3>2. Head(g.todo) \in Planned
      BY <1>2, <3>1
    <3> QED
      BY <1>2, <3>2 DEF Now, Planned, Event, Reach
  <2>2. \A t \in Reach(e) : s.rows[t] = r.rows[t]
    BY <2>1 DEF Alike, AlikeAt
  <2>3. (Known(s, e) <=> Known(r, e)) /\ (Throws(s, e) <=> Throws(r, e))
    BY <1>2, <2>1, <2>2 DEF Throws
  <2>4. Alike(s, r, Reach(e))
    BY <2>1, AlikeIsEquivalence
  <2> HIDE DEF e
  <2>5. g.pc = "log" => ~Known(r, e) /\ ~Throws(r, e)
    BY <1>2, <2>3 DEF MidFine, e
  <2>6. Mid(g) => /\ g.ops \in Seq(OpsOf(e))
                  /\ \A i \in 2 .. Len(g.ops) : g.ops[i].do # "apply"
                  /\ g.ops # << >> /\ Head(g.ops).do = "apply" /\ e.op = "INS" => ~r.rows[e.on].on
    BY <2>1, <2>2 DEF MidFine, e
  <2>7. g.pc = "write" => /\ g.ops # << >> /\ Head(g.ops).do # "declare" /\ g.copy = r.rows[Head(g.ops).row]
                          /\ ~Skips(Head(g.ops), e, g.copy)
    <3>1. SUFFICES ASSUME g.pc = "write"
                   PROVE  /\ g.ops # << >> /\ Head(g.ops).do # "declare" /\ g.copy = r.rows[Head(g.ops).row]
                          /\ ~Skips(Head(g.ops), e, g.copy)
      OBVIOUS
    <3>2. /\ g.ops # << >> /\ Head(g.ops).do # "declare" /\ g.copy = s.rows[Head(g.ops).row]
          /\ ~Skips(Head(g.ops), e, g.copy)
      BY <1>2, <3>1 DEF MidFine, e
    <3>3. Mid(g)
      BY <1>2, <3>1 DEF Mid
    <3>4. g.ops \in Seq(OpsOf(e))
      BY <2>6, <3>3
    <3>5. Head(g.ops).row \in Reach(e)
      BY <3>2, <3>4 DEF OpsOf
    <3> QED
      BY <2>2, <3>2, <3>5
  <2>8. Mid(g) => Alike(RowsDone(s, e, g.ops), RowsDone(r, e, g.ops), Reach(e))
    BY <2>1, <2>4, <2>6, RowsDoneLocal
  <2> QED
    BY <2>5, <2>6, <2>7, <2>8 DEF MidFine, e
<1> QED
  BY <1>1, <1>2

\* A step of one group: what it replays to is what the groups will have done.
LEMMA FollowsStep ==
  ASSUME NEW s \in Store, NEW r \in Store, NEW R \in Store, NEW Q \in Store,
         NEW g \in [Groups -> Task], NEW k \in Groups, NEW q \in Task, NEW e \in Event,
         Follows(s, R, g), Q.log = r.log, Q.idem = r.idem, Q.edges = r.edges,
         Alike(s, r, Targets \ Reach(e)), Alike(R, Q, Targets \ Reach(e)),
         g[k].todo # << >> /\ Now(g[k]) = e, Mid(q) => Now(q) = e,
         \A j \in Groups : j # k /\ Mid(g[j]) =>
           /\ Reach(Now(g[j])) \subseteq Targets \ Reach(e)
           /\ Alike(RowsDone(s, Now(g[j]), g[j].ops), RowsDone(r, Now(g[j]), g[j].ops), Reach(Now(g[j]))),
         IF Mid(q) THEN Alike(Q, RowsDone(r, e, q.ops), Reach(e)) ELSE Alike(Q, r, Reach(e))
  PROVE  Follows(r, Q, [g EXCEPT ![k] = q])
<1> DEFINE h == [g EXCEPT ![k] = q]
<1>1. h[k] = q /\ \A j \in Groups : j # k => h[j] = g[j]
  OBVIOUS
<1> HIDE DEF h
<1>2. ASSUME NEW j \in Groups, Mid(h[j])
      PROVE  Alike(Q, RowsDone(r, Now(h[j]), h[j].ops), Reach(Now(h[j])))
  <2>1. CASE j = k
    BY <1>1, <1>2, <2>1
  <2>2. CASE j # k
    <3>1. h[j] = g[j] /\ Mid(g[j])
      BY <1>1, <1>2, <2>2
    <3> DEFINE z == Reach(Now(g[j]))
               S == RowsDone(s, Now(g[j]), g[j].ops)
    <3>2. Alike(R, S, z) /\ z \subseteq Targets \ Reach(e)
      BY <2>2, <3>1 DEF Follows
    <3>3. Alike(S, RowsDone(r, Now(g[j]), g[j].ops), z)
      BY <2>2, <3>1
    <3>4. Alike(Q, R, z)
      BY <3>2, AlikeIsEquivalence
    <3> HIDE DEF z, S
    <3>5. Alike(Q, RowsDone(r, Now(g[j]), g[j].ops), z)
      BY <3>2, <3>3, <3>4, AlikeIsEquivalence
    <3> QED
      BY <3>1, <3>5 DEF z
  <2> QED
    BY <2>1, <2>2
<1>3. ASSUME NEW t \in Targets \ Zones(h) PROVE AlikeAt(Q, r, t)
  <2>1. CASE t \in Reach(e)
    <3>1. ~Mid(q)
      <4>1. t \notin Zone(q)
        BY <1>1, <1>3 DEF Zones
      <4> QED
        BY <2>1, <4>1 DEF Zone
    <3> QED
      BY <2>1, <3>1 DEF Alike
  <2>2. CASE t \notin Reach(e)
    <3>1. AlikeAt(s, r, t) /\ AlikeAt(R, Q, t)
      BY <2>2 DEF Alike
    <3>2. ASSUME NEW j \in Groups PROVE t \notin Zone(g[j])
      <4>1. CASE j = k
        BY <2>2, <4>1 DEF Zone
      <4>2. CASE j # k
        BY <1>1, <1>3, <4>2 DEF Zones
      <4> QED
        BY <4>1, <4>2
    <3>3. t \in Targets \ Zones(g)
      BY <3>2 DEF Zones
    <3>4. AlikeAt(R, s, t)
      BY <3>3 DEF Follows, Alike
    <3> QED
      BY <3>1, <3>4 DEF AlikeAt
  <2> QED
    BY <2>1, <2>2
<1> QED
  BY <1>2, <1>3 DEF Follows, Alike, h

\* A group at work, beside the other groups of its import.
LEMMA AtWork ==
  ASSUME BulkInv, Rebuilding(store, imp, task), NEW k \in Groups, task[k].todo # << >>
  PROVE  LET x == Head(task[k].todo)
             e == Now(task[k])
             R == replayFromLog(store.log)
         IN  /\ x \in Planned /\ x.ev = e /\ e \in Event /\ e \in Usable /\ e.on = k[2]
             /\ x \in ToSet(task[k].todo)
             /\ Reach(e) \in SUBSET Targets /\ e.on \in Reach(e)
             /\ imp.pc = "run" /\ k[1] = imp.n /\ imp.mode = "shared"
             /\ e.op \in NeedsINS => HasINS(ToSet(store.log), e.on)
             /\ \A d \in e.to \ {e.on} : HasINS(ToSet(store.log), d)
             /\ \A j \in Groups : j # k /\ task[j].todo # << >> =>
                  /\ Now(task[j]) \in Usable /\ Now(task[j]).on # e.on
                  /\ Reach(Now(task[j])) \subseteq Targets \ Reach(e)
             /\ R \in Store /\ (~Mid(task[k]) => Alike(R, store, Reach(e)))
             /\ Mid(task[k]) => Alike(R, RowsDone(store, e, task[k].ops), Reach(e))
<1> DEFINE x == Head(task[k].todo)
           e == Now(task[k])
           R == replayFromLog(store.log)
<1>1. /\ store \in Store
      /\ \A j \in Groups : GroupFine(store, j, task[j]) /\ task[j] \in Task
  BY InvFacts
<1>2. \A j \in Groups : task[j].todo # << >> =>
        LET y == Head(task[j].todo)
        IN  /\ y \in Planned /\ y \in ToSet(task[j].todo) /\ y.ev \in Usable /\ y.ev \in Event
            /\ y.ev.on = j[2]
            /\ y.ev.op \in NeedsINS => INSBefore(ToSet(store.log), y.ev.on, y.seq)
  BY <1>1, HeadIsCovered, Zenon
<1>3. \A j \in Groups : task[j].todo # << >> => j[1] = imp.n /\ imp.pc = "run" /\ imp.mode = "shared"
  BY DEF Rebuilding, Alone
<1>4. \A j \in Groups : task[j].todo # << >> => Head(task[j].todo) \in Pending(imp, task)
  BY <1>2 DEF Pending
<1>5. /\ x \in Planned /\ x.ev = e /\ e \in Event /\ e \in Usable /\ e.on = k[2]
      /\ x \in ToSet(task[k].todo) /\ imp.pc = "run" /\ k[1] = imp.n /\ imp.mode = "shared"
      /\ e.op \in NeedsINS => HasINS(ToSet(store.log), e.on)
  BY <1>2, <1>3 DEF Now, INSBefore, HasINS
<1>6. Reach(e) \in SUBSET Targets /\ e.on \in Reach(e)
  BY <1>5 DEF Reach, Event
<1>7. \A d \in e.to \ {e.on} : HasINS(ToSet(store.log), d)
  BY <1>4 DEF Rebuilding, Brought, Now
<1>8. ASSUME NEW j \in Groups, j # k, task[j].todo # << >>
      PROVE  /\ Now(task[j]) \in Usable /\ Now(task[j]).on # e.on
             /\ Reach(Now(task[j])) \subseteq Targets \ Reach(e)
  <2> DEFINE y == Head(task[j].todo)
             f == Now(task[j])
  <2>1. y.ev = f /\ f \in Usable /\ f \in Event /\ f.on = j[2] /\ j[1] = k[1]
    BY <1>2, <1>3, <1>8 DEF Now
  <2>2. j[2] # k[2]
    BY <1>8, <2>1 DEF Groups
  <2>3. x \in Pending(imp, task) /\ y \in Pending(imp, task)
    BY <1>4, <1>8
  <2>4. f.on # e.on
    BY <1>5, <2>1, <2>2
  <2> HIDE DEF y, f, x, e
  <2>5. Reach(f) \cap Reach(e) = {}
    BY <1>5, <2>1, <2>3, <2>4 DEF Rebuilding, Apart
  <2>6. Reach(f) \subseteq Targets
    BY <2>1 DEF Reach, Event
  <2> QED
    BY <2>1, <2>4, <2>5, <2>6 DEF f
<1>9. R \in Store /\ Follows(store, R, task)
  BY Zenon DEF Rebuilding
<1>10. Mid(task[k]) => Alike(R, RowsDone(store, e, task[k].ops), Reach(e))
  BY <1>9 DEF Follows
<1>11. ASSUME ~Mid(task[k]) PROVE Alike(R, store, Reach(e))
  <2>1. ASSUME NEW t \in Reach(e), NEW j \in Groups PROVE t \notin Zone(task[j])
    <3>1. CASE j = k
      BY <1>11, <3>1 DEF Zone
    <3>2. CASE j # k /\ Mid(task[j])
      BY <1>8, <2>1, <3>2 DEF Zone, Mid
    <3>3. CASE ~Mid(task[j])
      BY <3>3 DEF Zone
    <3> QED
      BY <3>1, <3>2, <3>3
  <2>2. Reach(e) \subseteq Targets \ Zones(task)
    BY <1>6, <2>1 DEF Zones
  <2> QED
    BY <1>9, <2>2, AlikeIsEquivalence DEF Follows
<1> QED
  BY <1>5, <1>6, <1>7, <1>8, <1>9, <1>10, <1>11

\* A step of one group carries the invariant on, if it does the right thing to its own rows.
LEMMA GroupRebuilds ==
  ASSUME BulkInv, Rebuilding(store, imp, task), NEW k \in Groups, task[k].todo # << >>,
         NEW q \in Task, NEW r \in Store, NEW e, e = Now(task[k]),
         ToSet(q.todo) \subseteq ToSet(task[k].todo), Mid(q) => Now(q) = e,
         ToSet(store.log) \subseteq ToSet(r.log),
         \A j \in Groups : j # k /\ task[j].todo # << >> =>
           (Known(store, Now(task[j])) <=> Known(r, Now(task[j]))),
         Alike(store, r, Targets \ Reach(e)), store.helix \subseteq r.helix, MidFine(r, q),
         NEW Q \in Store, Q = replayFromLog(r.log),
         Q.log = r.log, Q.idem = r.idem, Q.edges = r.edges, RowsOn(Q), Fresh(Q),
         Alike(replayFromLog(store.log), Q, Targets \ Reach(e)),
         IF Mid(q) THEN Alike(Q, RowsDone(r, e, q.ops), Reach(e)) ELSE Alike(Q, r, Reach(e))
  PROVE  Rebuilding(r, imp, [task EXCEPT ![k] = q])
<1> DEFINE h == [task EXCEPT ![k] = q]
           R == replayFromLog(store.log)
<1>1. /\ store \in Store /\ task \in [Groups -> Task]
      /\ \A j \in Groups : task[j] \in Task
  BY InvFacts
<1>2. /\ e \in Event /\ imp.pc = "run" /\ k[1] = imp.n /\ imp.mode = "shared"
      /\ \A j \in Groups : j # k /\ task[j].todo # << >> => Reach(Now(task[j])) \subseteq Targets \ Reach(e)
  BY AtWork, Zenon
<1>3. h[k] = q /\ \A j \in Groups : j # k => h[j] = task[j]
  BY <1>1
<1>4. R \in Store /\ Follows(store, R, task) /\ \A j \in Groups : MidFine(store, task[j])
  BY Zenon DEF Rebuilding
<1>5. ASSUME NEW j \in Groups, j # k
      PROVE  /\ MidFine(r, task[j])
             /\ Mid(task[j]) =>
                  /\ Reach(Now(task[j])) \subseteq Targets \ Reach(e)
                  /\ Alike(RowsDone(store, Now(task[j]), task[j].ops),
                           RowsDone(r, Now(task[j]), task[j].ops), Reach(Now(task[j])))
  <2> DEFINE g == task[j]
  <2>1. g \in Task /\ MidFine(store, g) /\ (Mid(g) => g.todo # << >>)
    BY <1>1, <1>4 DEF Mid
  <2>2. g.todo # << >> => Reach(Now(g)) \subseteq Targets \ Reach(e) /\ (Known(store, Now(g)) <=> Known(r, Now(g)))
    BY <1>2, <1>5
  <2> HIDE DEF g
  <2>3. /\ MidFine(r, g)
        /\ Mid(g) => Alike(RowsDone(store, Now(g), g.ops), RowsDone(r, Now(g), g.ops), Reach(Now(g)))
    BY <1>1, <2>1, <2>2, OthersStay
  <2> QED
    BY <2>1, <2>2, <2>3 DEF g
<1>6. Follows(r, Q, h)
  BY <1>1, <1>2, <1>4, <1>5, FollowsStep
<1> HIDE DEF h
<1>7. \A j \in Groups : MidFine(r, h[j])
  BY <1>3, <1>5
<1>8. Pending(imp, h) \subseteq Pending(imp, task)
  <2>1. \A j \in Groups : ToSet(h[j].todo) \subseteq ToSet(task[j].todo)
    BY <1>3
  <2> QED
    BY <2>1 DEF Pending
<1>9. Apart(Pending(imp, h)) /\ Brought(r, Pending(imp, h))
  BY <1>8 DEF Rebuilding, Apart, Brought, HasINS
<1>10. History(r, imp)
  BY <1>2 DEF Rebuilding, History
<1>11. Alone(imp, h)
  BY <1>2, <1>3 DEF Rebuilding, Alone
<1>12. Q = replayFromLog(r.log) /\ Q \in Store /\ Follows(r, Q, h) /\ RowsOn(Q) /\ Fresh(Q)
  BY <1>6
<1> QED
  BY <1>7, <1>9, <1>10, <1>11, <1>12, Zenon DEF Rebuilding, h

\* A step of one group that logs nothing.
LEMMA SameLogRebuilds ==
  ASSUME BulkInv, Rebuilding(store, imp, task), NEW k \in Groups, task[k].todo # << >>,
         NEW q \in Task, NEW r \in Store, NEW e, e = Now(task[k]), Outside(store, r, e),
         store.helix \subseteq r.helix, MidFine(r, q),
         ToSet(q.todo) \subseteq ToSet(task[k].todo), Mid(q) => Now(q) = e,
         IF Mid(q) THEN Alike(replayFromLog(store.log), RowsDone(r, e, q.ops), Reach(e))
         ELSE Alike(replayFromLog(store.log), r, Reach(e))
  PROVE  Rebuilding(r, imp, [task EXCEPT ![k] = q])
<1> DEFINE R == replayFromLog(store.log)
<1>1. r.log = store.log /\ r.idem = store.idem /\ r.edges = store.edges /\ Alike(store, r, Targets \ Reach(e))
  BY DEF Outside
<1>2. R \in Store /\ Follows(store, R, task) /\ RowsOn(R) /\ Fresh(R)
  BY Zenon DEF Rebuilding
<1>3. R = replayFromLog(r.log) /\ R.log = r.log /\ R.idem = r.idem /\ R.edges = r.edges
  BY <1>1, <1>2 DEF Follows
<1>4. \A f : Known(store, f) <=> Known(r, f)
  BY <1>1 DEF Known
<1>5. Alike(R, R, Targets \ Reach(e)) /\ ToSet(store.log) \subseteq ToSet(r.log)
  BY <1>1, AlikeIsEquivalence
<1> HIDE DEF R
<1>6. IF Mid(q) THEN Alike(R, RowsDone(r, e, q.ops), Reach(e)) ELSE Alike(R, r, Reach(e))
  BY DEF R
<1>7. Alike(replayFromLog(store.log), R, Targets \ Reach(e))
  BY <1>5 DEF R
<1> QED
  BY <1>1, <1>2, <1>3, <1>4, <1>5, <1>6, <1>7, GroupRebuilds

\* The operations left behind the first one.
LEMMA OpsLeft ==
  ASSUME NEW T, NEW ops \in Seq(T), ops # << >>, \A i \in 2 .. Len(ops) : ops[i].do # "apply"
  PROVE  /\ Head(ops) \in T /\ Tail(ops) \in Seq(T)
         /\ \A i \in 1 .. Len(Tail(ops)) : Tail(ops)[i].do # "apply"
<1>1. /\ Head(ops) \in T /\ Tail(ops) \in Seq(T) /\ Len(ops) \in Nat /\ Len(Tail(ops)) = Len(ops) - 1
      /\ \A i \in 1 .. Len(Tail(ops)) : Tail(ops)[i] = ops[i + 1]
  OBVIOUS
<1>2. \A i \in 1 .. Len(Tail(ops)) : i + 1 \in 2 .. Len(ops)
  BY <1>1
<1> QED
  BY <1>1, <1>2

LEMMA SameIsOutside ==
  ASSUME NEW s \in Store, NEW e
  PROVE  Outside(s, s, e)
BY AlikeIsEquivalence DEF Outside

\* A group that turns to the next event has done with the rows of the last one.
LEMMA NextEventRebuilds ==
  ASSUME BulkInv, Rebuilding(store, imp, task), NEW k \in Groups, task[k].todo # << >>,
         Mid(task[k]) => task[k].ops = << >>
  PROVE  Rebuilding(store, imp, [task EXCEPT ![k] = NextEvent(k)])
<1> DEFINE e == Now(task[k])
           q == NextEvent(k)
           R == replayFromLog(store.log)
<1>1. store \in Store /\ task[k] \in Task
  BY InvFacts
<1>2. q \in Task /\ q.pc = "check" /\ q.todo = Tail(task[k].todo)
  <2> DEFINE l == Tail(task[k].todo)
  <2>1. l \in Seq(Planned)
    BY <1>1 DEF Task
  <2> HIDE DEF l
  <2>2. q = [NoTask EXCEPT !.todo = l]
    BY DEF NextEvent, l
  <2>3. q \in Task /\ q.pc = "check" /\ q.todo = l
    BY <2>1, <2>2, NoRowType DEF NoTask, Task
  <2> QED
    BY <2>3 DEF l
<1>3. ToSet(q.todo) \subseteq ToSet(task[k].todo)
  BY <1>1, <1>2, HeadAndTail DEF Task
<1>4. e \in Event /\ (~Mid(task[k]) => Alike(R, store, Reach(e)))
      /\ (Mid(task[k]) => Alike(R, RowsDone(store, e, task[k].ops), Reach(e)))
  BY AtWork, Zenon
<1> HIDE DEF q, e, R
<1>5. Alike(R, store, Reach(e))
  BY <1>1, <1>4, RowsDoneIsStore
<1>6. ~Mid(q) /\ MidFine(store, q)
  BY <1>2 DEF Mid, MidFine
<1>7. Outside(store, store, e)
  BY <1>1, SameIsOutside
<1>8. IF Mid(q) THEN Alike(replayFromLog(store.log), RowsDone(store, e, q.ops), Reach(e))
      ELSE Alike(replayFromLog(store.log), store, Reach(e))
  BY <1>5, <1>6 DEF R
<1>9. Rebuilding(store, imp, [task EXCEPT ![k] = q])
  BY <1>1, <1>2, <1>3, <1>6, <1>7, <1>8, SameLogRebuilds DEF e
<1> QED
  BY <1>9 DEF q

\* A group that reads or writes nothing but its own place.
LEMMA SamePlaceRebuilds ==
  ASSUME BulkInv, Rebuilding(store, imp, task), NEW k \in Groups, task[k].todo # << >>,
         NEW q \in Task, q.todo = task[k].todo, Mid(q) <=> Mid(task[k]), q.ops = task[k].ops,
         MidFine(store, q)
  PROVE  Rebuilding(store, imp, [task EXCEPT ![k] = q])
<1> DEFINE e == Now(task[k])
           R == replayFromLog(store.log)
<1>1. store \in Store
  BY InvFacts
<1>2. e \in Event /\ (~Mid(task[k]) => Alike(R, store, Reach(e)))
      /\ (Mid(task[k]) => Alike(R, RowsDone(store, e, task[k].ops), Reach(e)))
  BY AtWork, Zenon
<1>3. Now(q) = e
  BY DEF Now
<1>4. Outside(store, store, e)
  BY <1>1, SameIsOutside
<1> HIDE DEF e, R
<1>5. IF Mid(q) THEN Alike(replayFromLog(store.log), RowsDone(store, e, q.ops), Reach(e))
      ELSE Alike(replayFromLog(store.log), store, Reach(e))
  BY <1>2 DEF R
<1> QED
  BY <1>1, <1>3, <1>4, <1>5, SameLogRebuilds DEF e

LEMMA SkipKnownRebuilds ==
  ASSUME BulkInv, Rebuilding(store, imp, task), NEW k \in Groups, SkipKnown(k)
  PROVE  Rebuilding(store', imp', task')
<1>1. task[k].todo # << >> /\ ~Mid(task[k])
  BY DEF SkipKnown, Working, Mid
<1> QED
  BY <1>1, NextEventRebuilds DEF SkipKnown, GroupOnly

LEMMA EndEventRebuilds ==
  ASSUME BulkInv, Rebuilding(store, imp, task), NEW k \in Groups, EndEvent(k)
  PROVE  Rebuilding(store', imp', task')
<1>1. task[k].todo # << >> /\ task[k].ops = << >>
  BY DEF EndEvent, Working
<1> QED
  BY <1>1, NextEventRebuilds DEF EndEvent, GroupOnly

LEMMA CheckEventRebuilds ==
  ASSUME BulkInv, Rebuilding(store, imp, task), NEW k \in Groups, CheckEvent(k)
  PROVE  Rebuilding(store', imp', task')
<1> DEFINE q == [task[k] EXCEPT !.pc = "log"]
<1>1. /\ task[k].pc = "check" /\ task[k].todo # << >>
      /\ ~Known(store, Now(task[k])) /\ ~Throws(store, Now(task[k]))
      /\ task[k] \in Task /\ task \in [Groups -> Task]
  BY InvFacts DEF CheckEvent, Working, Doing, Now
<1>2. /\ task' = [task EXCEPT ![k] = q] /\ store' = store /\ imp' = imp
  BY <1>1 DEF CheckEvent, GroupOnly
<1>3. q \in Task /\ q.pc = "log" /\ q.todo = task[k].todo /\ q.ops = task[k].ops
  BY <1>1 DEF Task
<1> HIDE DEF q
<1>4. ~Mid(q) /\ ~Mid(task[k]) /\ Now(q) = Now(task[k])
  BY <1>1, <1>3 DEF Mid, Now
<1>5. MidFine(store, q)
  BY <1>1, <1>3, <1>4 DEF MidFine
<1> QED
  BY <1>1, <1>2, <1>3, <1>4, <1>5, SamePlaceRebuilds

\* One operation on a row done.
LEMMA NextRowRebuilds ==
  ASSUME BulkInv, Rebuilding(store, imp, task), NEW k \in Groups, Mid(task[k]), task[k].ops # << >>,
         NEW r, r = DoRowOp(store, Head(task[k].ops), Now(task[k]))
  PROVE  Rebuilding(r, imp, [task EXCEPT ![k] = NextRow(k)])
<1> DEFINE e   == Now(task[k])
           ops == task[k].ops
           o   == Head(ops)
           q   == NextRow(k)
           R   == replayFromLog(store.log)
<1>1. store \in Store /\ task[k] \in Task /\ task[k].todo # << >>
  BY InvFacts DEF Mid
<1>2. e \in Event /\ Alike(R, RowsDone(store, e, ops), Reach(e))
  BY <1>1, AtWork, Zenon
<1>3. /\ ops \in Seq(OpsOf(e)) /\ \A i \in 2 .. Len(ops) : ops[i].do # "apply"
  BY Zenon DEF Rebuilding, MidFine
<1>4. /\ q \in Task /\ q.pc = "read" /\ q.todo = task[k].todo /\ q.ops = Tail(ops)
  <2>1. Tail(ops) \in Seq([do : {"apply", "metrics", "declare", "cache"}, row : Targets])
    BY <1>1 DEF Task
  <2> QED
    BY <1>1, <2>1, NoRowType DEF NextRow, Task
<1> HIDE DEF q, e, ops, R
<1>5. o \in OpsOf(e) /\ Tail(ops) \in Seq(OpsOf(e)) /\ ops \in Seq(RowOp)
      /\ \A i \in 1 .. Len(Tail(ops)) : Tail(ops)[i].do # "apply"
  <2>1. ops # << >>
    BY DEF ops
  <2>2. \A i \in 1 .. Len(ops) : ops[i] \in RowOp
    BY <1>3 DEF OpsOf
  <2>3. ops \in Seq(RowOp)
    BY <1>3, <2>2
  <2> QED
    BY <1>3, <2>1, <2>3, OpsLeft
<1> HIDE DEF o
<1>6. Outside(store, r, e) /\ r = DoRowOp(store, o, e)
  <2>1. r = DoRowOp(store, o, e)
    BY DEF o, ops, e
  <2> QED
    BY <1>1, <1>2, <1>5, <2>1, RowOpFrame
<1>7. Mid(q) /\ Now(q) = e
  BY <1>1, <1>4 DEF Mid, Now, e
<1>8. Alike(R, RowsDone(r, e, q.ops), Reach(e))
  <2>1. RowsDone(store, e, ops) = RowsDone(r, e, q.ops)
    <3>1. ops # << >>
      BY DEF ops
    <3>2. RowsDone(store, e, ops) = RowsDone(DoRowOp(store, Head(ops), e), e, Tail(ops))
      BY <1>1, <1>2, <1>5, <3>1, RowsDoneFirst
    <3> QED
      BY <1>4, <1>6, <3>2 DEF o
  <2> QED
    BY <1>2, <2>1
<1>9. MidFine(r, q)
  <2>1. \A i \in 2 .. Len(q.ops) : q.ops[i].do # "apply"
    BY <1>4, <1>5
  <2>2. q.ops # << >> => Head(q.ops).do # "apply"
    <3> DEFINE u == Tail(ops)
    <3>1. q.ops = u /\ u \in Seq(OpsOf(e)) /\ \A i \in 1 .. Len(u) : u[i].do # "apply"
      BY <1>4, <1>5
    <3> HIDE DEF u
    <3>2. u # << >> => 1 \in 1 .. Len(u) /\ Head(u) = u[1]
      BY <3>1
    <3> QED
      BY <3>1, <3>2, Zenon
  <2> QED
    BY <1>4, <1>5, <1>7, <2>1, <2>2 DEF MidFine
<1>10. r \in Store /\ ToSet(q.todo) \subseteq ToSet(task[k].todo) /\ store.helix \subseteq r.helix
  <2>1. o \in RowOp /\ store \in Beyond(store, e)
    BY <1>1, <1>5 DEF OpsOf, Beyond
  <2>2. r \in Beyond(store, e)
    BY <1>1, <1>2, <1>6, <2>1, DoRowOpKeeps
  <2> QED
    BY <1>4, <2>2 DEF Beyond
<1>11. IF Mid(q) THEN Alike(replayFromLog(store.log), RowsDone(r, e, q.ops), Reach(e))
       ELSE Alike(replayFromLog(store.log), r, Reach(e))
  BY <1>7, <1>8 DEF R
<1>12. Rebuilding(r, imp, [task EXCEPT ![k] = q])
  BY <1>1, <1>4, <1>6, <1>7, <1>9, <1>10, <1>11, SameLogRebuilds DEF e
<1> QED
  BY <1>12 DEF q

LEMMA ReadRowRebuilds ==
  ASSUME BulkInv, Rebuilding(store, imp, task), NEW k \in Groups, ReadRow(k)
  PROVE  Rebuilding(store', imp', task')
<1> DEFINE e   == Now(task[k])
           o   == Head(task[k].ops)
           row == store.rows[o.row]
           q   == [task[k] EXCEPT !.pc = "write", !.copy = row]
<1>1. /\ store \in Store /\ task[k] \in Task /\ task \in [Groups -> Task]
  BY InvFacts
<1>2. /\ task[k].pc = "read" /\ task[k].todo # << >> /\ task[k].ops # << >> /\ o.do # "declare"
      /\ store' = store /\ imp' = imp
      /\ task' = [task EXCEPT ![k] = IF ~Skips(o, e, row) THEN q
                                     ELSE IF o.do = "apply" THEN NextEvent(k) ELSE NextRow(k)]
  BY <1>1 DEF ReadRow, Working, GroupOnly, Doing, Now
<1>3. Mid(task[k])
  BY <1>2 DEF Mid
<1>4. MidFine(store, task[k])
  BY DEF Rebuilding
<1>5. /\ task[k].ops \in Seq(OpsOf(e)) /\ \A i \in 2 .. Len(task[k].ops) : task[k].ops[i].do # "apply"
      /\ (o.do = "apply" /\ e.op = "INS" => ~store.rows[e.on].on)
  BY <1>2, <1>3, <1>4 DEF MidFine
<1>6. o \in OpsOf(e) /\ o.row \in Targets /\ row \in Row
  <2>1. o \in OpsOf(e)
    BY <1>2, <1>5
  <2> QED
    BY <1>1, <2>1 DEF OpsOf, RowOp, Store
<1>7. CASE ~Skips(o, e, row)
  <2>1. /\ q \in Task /\ q.pc = "write" /\ q.todo = task[k].todo /\ q.ops = task[k].ops /\ q.copy = row
    <3> HIDE DEF row
    <3> QED
      BY <1>1, <1>6 DEF Task
  <2>2. task' = [task EXCEPT ![k] = q]
    BY <1>2, <1>7
  <2> HIDE DEF q
  <2>3. Mid(q) /\ Now(q) = e
    BY <1>2, <2>1 DEF Mid, Now
  <2>4. MidFine(store, q)
    BY <1>2, <1>5, <1>7, <2>1, <2>3 DEF MidFine
  <2>5. Rebuilding(store, imp, [task EXCEPT ![k] = q])
    BY <1>2, <1>3, <2>1, <2>3, <2>4, SamePlaceRebuilds
  <2> QED
    BY <1>2, <2>2, <2>5
<1>8. CASE Skips(o, e, row)
  <2>1. o.do # "apply"
    <3>1. SUFFICES ASSUME o.do = "apply" PROVE FALSE
      OBVIOUS
    <3>2. e.op = "INS" /\ row.on
      BY <1>8, <3>1 DEF Skips
    <3>3. o.row = e.on
      BY <1>6, <3>1 DEF OpsOf
    <3> QED
      BY <1>5, <3>1, <3>2, <3>3
  <2>2. DoRowOp(store, o, e) = store
    BY <1>2, <1>8 DEF DoRowOp
  <2>3. task' = [task EXCEPT ![k] = NextRow(k)]
    BY <1>2, <1>8, <2>1
  <2>4. Rebuilding(store, imp, [task EXCEPT ![k] = NextRow(k)])
    BY <1>2, <1>3, <2>2, NextRowRebuilds
  <2> QED
    BY <1>2, <2>3, <2>4
<1> QED
  BY <1>7, <1>8

LEMMA WriteRowRebuilds ==
  ASSUME BulkInv, Rebuilding(store, imp, task), NEW k \in Groups, WriteRow(k)
  PROVE  Rebuilding(store', imp', task')
<1> DEFINE e   == Now(task[k])
           o   == Head(task[k].ops)
           row == store.rows[o.row]
<1>1. /\ task[k].pc = "write" /\ task[k].todo # << >> /\ imp' = imp
      /\ task' = [task EXCEPT ![k] = NextRow(k)]
      /\ store' = [store EXCEPT !.rows[o.row] = Put(o, e, task[k].copy, @, store.edges)]
  BY DEF WriteRow, Working, GroupOnly, Doing, Now
<1>2. /\ task[k].ops # << >> /\ o.do # "declare" /\ task[k].copy = row /\ ~Skips(o, e, row)
  BY <1>1 DEF Rebuilding, MidFine
<1>3. store' = DoRowOp(store, o, e)
  BY <1>1, <1>2 DEF DoRowOp
<1>4. Mid(task[k])
  BY <1>1 DEF Mid
<1> QED
  BY <1>1, <1>2, <1>3, <1>4, NextRowRebuilds

LEMMA DeclareTargetRebuilds ==
  ASSUME BulkInv, Rebuilding(store, imp, task), NEW k \in Groups, DeclareTarget(k)
  PROVE  Rebuilding(store', imp', task')
<1> DEFINE e == Now(task[k])
           o == Head(task[k].ops)
<1>1. /\ task[k].pc = "read" /\ task[k].todo # << >> /\ imp' = imp /\ task[k].ops # << >>
      /\ task' = [task EXCEPT ![k] = NextRow(k)] /\ o.do = "declare"
      /\ store' = Declared(store, e)
  BY DEF DeclareTarget, Working, GroupOnly, Doing, Now
<1>2. store' = DoRowOp(store, o, e)
  BY <1>1 DEF DoRowOp
<1>3. Mid(task[k])
  BY <1>1 DEF Mid
<1> QED
  BY <1>1, <1>2, <1>3, NextRowRebuilds

\* Only CON brings edges, synthetic INSs included.
LEMMA OnlyConBringsEdges ==
  ASSUME NEW e \in Usable
  PROVE  e.to # {} => e.op = "CON"
BY EdgesAssumption DEF Usable, Synthetics, SyntheticINS

\* The event is logged: it replays in one go on what the log rebuilt before.
LEMMA LogEventRebuilds ==
  ASSUME BulkInv, Rebuilding(store, imp, task), NEW k \in Groups, LogEvent(k)
  PROVE  Rebuilding(store', imp', task')
<1> DEFINE x   == Head(task[k].todo)
           e   == Now(task[k])
           R   == replayFromLog(store.log)
           r   == LoggedEdges(store, x)
           Q   == processEventCoreWithSeq(R, x)
           ops == RowOps(e)
           q   == [task[k] EXCEPT !.pc = "read", !.ops = RowOps(e)]
<1>1. /\ store \in Store /\ task[k] \in Task /\ task \in [Groups -> Task] /\ store.log \in Seq(Planned)
  BY InvFacts DEF Store
<1>2. /\ task[k].pc = "log" /\ task[k].todo # << >> /\ imp' = imp
      /\ store' = r /\ task' = [task EXCEPT ![k] = q]
  BY <1>1 DEF LogEvent, Working, GroupOnly, Doing, Now, LoggedEdges
<1>3. ~Mid(task[k]) /\ ~Known(store, e) /\ ~Throws(store, e)
  BY <1>2 DEF Mid, Rebuilding, MidFine
<1>4. /\ x \in Planned /\ x.ev = e /\ e \in Event /\ e \in Usable
      /\ Reach(e) \in SUBSET Targets /\ e.on \in Reach(e)
      /\ e.op \in NeedsINS => HasINS(ToSet(store.log), e.on)
      /\ \A d \in e.to \ {e.on} : HasINS(ToSet(store.log), d)
      /\ \A j \in Groups : j # k /\ task[j].todo # << >> => Now(task[j]) \in Usable /\ Now(task[j]).on # e.on
      /\ R \in Store /\ Alike(R, store, Reach(e))
  BY <1>2, <1>3, AtWork, Zenon
<1>5. Follows(store, R, task) /\ RowsOn(R) /\ Fresh(R)
  BY Zenon DEF Rebuilding
<1>6. /\ r \in Store /\ r.rows = store.rows /\ r.helix = store.helix
      /\ r.edges = store.edges \union ({e.on} \X e.to)
      /\ r.idem = store.idem \union {e.id} /\ r.log = Append(store.log, x)
      /\ Alike(store, r, Targets \ Reach(e))
  <2> HIDE DEF x, e
  <2>1. /\ r \in Store /\ r.rows = store.rows /\ r.helix = store.helix
        /\ r.edges = store.edges \union ({x.ev.on} \X x.ev.to)
        /\ r.idem = store.idem \union {x.ev.id} /\ r.log = Append(store.log, x)
        /\ Alike(store, r, Targets \ Reach(x.ev))
    BY <1>1, <1>4, LoggedEdgesEffect, Zenon
  <2> QED
    BY <1>4, <2>1
<1>7. /\ ops \in Seq(OpsOf(e)) /\ ops \in Seq(RowOp)
      /\ \A i \in 2 .. Len(ops) : ops[i].do # "apply"
  BY <1>4, RowOpsShape, RowOpsType
<1>8. R.log = store.log /\ R.idem = store.idem /\ R.edges = store.edges /\ ~Known(R, e)
  BY <1>3, <1>5 DEF Follows, Known
<1> HIDE DEF R, r, Q, x, e, ops
<1>9. /\ Q \in Store /\ Q.edges = R.edges \union ({e.on} \X e.to)
      /\ Q.idem = R.idem \union {e.id} /\ Q.log = Append(R.log, x)
      /\ Q = RowsDone(LoggedEdges(R, x), e, ops) /\ Alike(R, Q, Targets \ Reach(e))
  BY <1>4, <1>8, CoreLocal, Zenon DEF Q, ops
<1>10. Q = replayFromLog(r.log)
  BY <1>1, <1>4, <1>6, ReplayOneMore DEF Q, R
<1>11. Grounded(R, e)
  <2>1. \A t \in Targets : HasINS(ToSet(store.log), t) => R.rows[t].on
    BY <1>5, <1>8 DEF RowsOn
  <2>2. e.to # {} => e.op = "CON"
    BY <1>4, OnlyConBringsEdges
  <2>3. e.on \in Targets /\ e.to \subseteq Targets
    BY <1>4 DEF Event
  <2> QED
    BY <1>4, <2>1, <2>2, <2>3 DEF Grounded, NeedsINS
<1>12. RowsOn(Q) /\ Fresh(Q)
  BY <1>4, <1>5, <1>11, CoreRows, Zenon DEF Q
<1>13. Alike(Q, RowsDone(r, e, ops), Reach(e))
  <2>1. LoggedEdges(R, x) \in Store
    BY <1>4, LoggedEdgesEffect, Zenon
  <2>2. Alike(LoggedEdges(R, x), r, Reach(e))
    BY <1>1, <1>4, LoggedEdgesLocal DEF r
  <2> QED
    BY <1>4, <1>6, <1>7, <1>9, <2>1, <2>2, RowsDoneLocal
<1>14. /\ q \in Task /\ q.pc = "read" /\ q.todo = task[k].todo /\ q.ops = ops
  BY <1>1, <1>7 DEF Task, RowOp, ops
<1> HIDE DEF q
<1>15. Mid(q) /\ Now(q) = e
  BY <1>2, <1>14 DEF Mid, Now, e
<1>16. MidFine(r, q)
  BY <1>3, <1>6, <1>7, <1>14, <1>15 DEF MidFine, Throws
<1>17. \A j \in Groups : j # k /\ task[j].todo # << >> => (Known(store, Now(task[j])) <=> Known(r, Now(task[j])))
  BY <1>4, <1>6, EventsInUse DEF Known
<1>18. ToSet(store.log) \subseteq ToSet(r.log)
  BY <1>1, <1>4, <1>6, Appended
<1>19. Q.log = r.log /\ Q.idem = r.idem /\ Q.edges = r.edges /\ Alike(replayFromLog(store.log), Q, Targets \ Reach(e))
  BY <1>6, <1>8, <1>9 DEF R
<1>20. IF Mid(q) THEN Alike(Q, RowsDone(r, e, q.ops), Reach(e)) ELSE Alike(Q, r, Reach(e))
  BY <1>13, <1>14, <1>15
<1>21. Rebuilding(r, imp, [task EXCEPT ![k] = q])
  BY <1>2, <1>6, <1>9, <1>10, <1>12, <1>14, <1>15, <1>16, <1>17, <1>18, <1>19, <1>20, GroupRebuilds DEF e
<1> QED
  BY <1>2, <1>21

\* A step of a group carries the invariant on, or mixes the import up.
LEMMA GroupStepRebuilds ==
  ASSUME BulkInv, RebuildInv, NEW k \in Groups, GroupStep(k)
  PROVE  RebuildInv'
<1>1. CASE RejectImport(k)
  BY <1>1 DEF RejectImport, RebuildInv
<1>2. CASE ~RejectImport(k)
  <2>1. mixed' = mixed
    BY <1>2 DEF GroupStep, SkipKnown, CheckEvent, LogEvent, ReadRow, WriteRow, DeclareTarget, EndEvent, GroupOnly
  <2>2. ASSUME ~mixed PROVE Rebuilding(store', imp', task')
    <3>1. Rebuilding(store, imp, task)
      BY <2>2 DEF RebuildInv
    <3> QED
      BY <1>2, <3>1, SkipKnownRebuilds, CheckEventRebuilds, LogEventRebuilds, ReadRowRebuilds, WriteRowRebuilds,
         DeclareTargetRebuilds, EndEventRebuilds DEF GroupStep
  <2> QED
    BY <2>1, <2>2 DEF RebuildInv
<1> QED
  BY <1>1, <1>2

-----------------------------------------------------------------------------
(* The events of a wave do not meet, if those of the batch do not. *)

\* The waves of a batch: the events of each level.
LEMMA WavesByLevel ==
  ASSUME NEW b \in Seq(Event)
  PROVE  /\ Len(sortByHelixLevel(b)) = 6
         /\ \A l \in 1 .. 6 : /\ sortByHelixLevel(b)[l] \in Seq(Event)
                              /\ ToSet(sortByHelixLevel(b)[l]) = {e \in ToSet(b) : HELIX_LEVEL[e.op] = l - 1}
<1> DEFINE P(l) == {e \in ToSet(b) : HELIX_LEVEL[e.op] = l - 1}
           W == sortByHelixLevel(b)
<1>1. \A l \in 1 .. 6 : Bucket(b, P(l)) \in Seq(Event) /\ ToSet(Bucket(b, P(l))) = ToSet(b) \cap P(l)
  BY BucketElements
<1>2. W = [l \in 1 .. 6 |-> Bucket(b, P(l))]
  BY DEF sortByHelixLevel
<1>3. W \in Seq(Seq(Event)) /\ DOMAIN W = 1 .. 6
  BY <1>1, <1>2
<1>4. \A l \in 1 .. 6 : W[l] \in Seq(Event) /\ ToSet(W[l]) = P(l)
  BY <1>1, <1>2
<1> HIDE DEF W, P
<1>5. Len(W) = 6
  BY <1>3
<1> QED
  BY <1>4, <1>5 DEF W, P

LEMMA LevelsOfOps ==
  \A op \in Ops : /\ HELIX_LEVEL[op] \in 0 .. 5
                  /\ op = "INS" <=> HELIX_LEVEL[op] = 1
                  /\ op \in {"SEG", "CON"} <=> HELIX_LEVEL[op] = 2
<1>1. /\ HELIX_LEVEL["NUL"] = 0 /\ HELIX_LEVEL["INS"] = 1 /\ HELIX_LEVEL["SEG"] = 2
      /\ HELIX_LEVEL["CON"] = 2 /\ HELIX_LEVEL["SYN"] = 3 /\ HELIX_LEVEL["DEF"] = 4
      /\ HELIX_LEVEL["EVA"] = 5
  BY DEF HELIX_LEVEL, Ops
<1> QED
  BY <1>1 DEF Ops

\* What the pre-pass puts into a wave: the wave, and INSs of targets that had none.
LEMMA ExpandedEvents ==
  ASSUME NEW wave \in Seq(Usable), Pure(wave), NEW have \in SUBSET Targets
  PROVE  LET w == Expanded(wave, have)
         IN  /\ ToSet(w.out) \subseteq ToSet(wave) \union {SyntheticINS(t) : t \in Targets \ have}
             /\ have \subseteq w.insed
             /\ \A e \in ToSet(wave) : e.op = "INS" => e.on \in w.insed
<1> DEFINE n == Len(wave)
           X == ToSet(wave) \union {SyntheticINS(t) : t \in Targets \ have}
           w == Expanded(wave, have)
<1>1. n \in Nat /\ ToSet(wave) = {wave[i] : i \in 1 .. n} /\ ToSet(wave) \subseteq Usable
  BY ElementsOf
<1>2. PICK a \in [0 .. n -> Expansions(wave, have)] : Visiting(a, wave, have)
  BY VisitRuns
<1>3. /\ a[0] = [out |-> << >>, insed |-> have] /\ a[n] = w
      /\ \A i \in 1 .. n : a[i] = Visit(a[i - 1], wave[i])
  BY <1>2 DEF Visiting
<1> HIDE DEF w, X
<1> DEFINE A == {i \in 0 .. n : /\ ToSet(a[i].out) \subseteq X /\ have \subseteq a[i].insed
                                /\ \A j \in 1 .. i : wave[j].op = "INS" => wave[j].on \in a[i].insed}
<1>4. 0 \in A
  BY <1>1, <1>3 DEF ToSet
<1>5. ASSUME NEW i \in 0 .. n - 1, i \in A PROVE i + 1 \in A
  <2> DEFINE acc == a[i]
             e   == wave[i + 1]
             ts  == Missing(e, acc.insed)
             ins == INSsOf(ts)
             out == acc.out \o ins \o <<e>>
             new == Insed(acc.insed, ts, e)
  <2>1. /\ i \in 0 .. n /\ i + 1 \in 1 .. n /\ i + 1 \in 0 .. n /\ (i + 1) - 1 = i
        /\ \A j \in 1 .. i + 1 : j \in 1 .. i \/ j = i + 1
    BY <1>1
  <2>2. /\ acc.out \in Seq(Usable) /\ acc.insed \in SUBSET Targets
        /\ ToSet(acc.out) \subseteq X /\ have \subseteq acc.insed
        /\ \A j \in 1 .. i : wave[j].op = "INS" => wave[j].on \in acc.insed
    BY <1>2, <1>5, <2>1 DEF Expansions
  <2>3. e \in ToSet(wave) /\ e \in Usable /\ e \in Event /\ e.on \in Targets
    <3>1. e \in ToSet(wave) /\ e \in Usable
      BY <1>1, <2>1
    <3> QED
      BY <3>1, EventsInUse DEF Event
  <2> HIDE DEF acc, e
  <2>4. /\ ts \in Seq(Targets) /\ ins \in Seq(Usable)
        /\ ToSet(ts) \subseteq Targets \ acc.insed
        /\ ToSet(ins) = {SyntheticINS(t) : t \in ToSet(ts)}
    <3>1. /\ ts \in Seq(Targets) /\ ins \in Seq(Usable)
          /\ ToSet(ts) = IF e.op \in NeedsINS THEN ({e.on} \union e.to) \ acc.insed ELSE {}
          /\ ToSet(ins) = {SyntheticINS(t) : t \in ToSet(ts)}
      BY <2>2, <2>3, MissingTargets, Zenon
    <3>2. e.to \subseteq Targets
      BY <2>3 DEF Event
    <3> QED
      BY <2>3, <3>1, <3>2
  <2>5. Visit(acc, e) = [out |-> out, insed |-> new]
    BY Zenon DEF Visit
  <2>6. a[i + 1] = [out |-> out, insed |-> new]
    BY <1>3, <2>1, <2>5 DEF acc, e
  <2> HIDE DEF ts, ins
  <2>7. ToSet(ins) \subseteq X
    BY <2>2, <2>4 DEF X
  <2>8. ToSet(out) \subseteq X
    <3>1. acc.out \o ins \in Seq(Usable) /\ ToSet(acc.out \o ins) = ToSet(acc.out) \union ToSet(ins)
      BY <2>2, <2>4, Joined
    <3> DEFINE m == acc.out \o ins
    <3>2. m \in Seq(Usable) /\ ToSet(m) \subseteq X
      BY <2>2, <2>7, <3>1
    <3> HIDE DEF m
    <3>3. m \o <<e>> = Append(m, e) /\ ToSet(Append(m, e)) = ToSet(m) \union {e}
      BY <2>3, <3>2, Appended
    <3>4. e \in X
      BY <2>3 DEF X
    <3> QED
      BY <3>2, <3>3, <3>4 DEF m
  <2>9. acc.insed \subseteq new /\ (e.op = "INS" => e.on \in new)
    BY DEF Insed
  <2> HIDE DEF out, new
  <2>10. a[i + 1].out = out /\ a[i + 1].insed = new
    BY <2>6
  <2> QED
    BY <2>1, <2>2, <2>8, <2>9, <2>10 DEF e
<1>6. n \in A
  BY <1>1, <1>4, <1>5, AtTheEnd, Zenon
<1> QED
  BY <1>1, <1>3, <1>6 DEF w, X

\* The events of the steps of a wave.
LEMMA PlannedEvents ==
  ASSUME NEW wave \in Seq(Usable), Pure(wave), NEW have \in SUBSET Targets, NEW seq \in Nat
  PROVE  LET w  == Expanded(wave, have)
             st == splitWaveIntoSteps(Reserved(w.out, seq))
         IN  \A x \in Rest(st) : x.ev \in ToSet(wave) \/ \E t \in Targets \ have : x.ev = SyntheticINS(t)
<1> DEFINE w   == Expanded(wave, have)
           out == w.out
           p   == Reserved(out, seq)
           st  == splitWaveIntoSteps(p)
<1>1. out \in Seq(Usable)
  BY ExpandedWave DEF Expansions
<1>2. ToSet(out) \subseteq ToSet(wave) \union {SyntheticINS(t) : t \in Targets \ have}
  BY ExpandedEvents, Zenon
<1> HIDE DEF out
<1>3. out \in Seq(Event) /\ ToSet(out) = {out[i] : i \in 1 .. Len(out)}
  BY <1>1, EventsInUse, ElementsOf
<1>4. /\ p \in Seq(Planned) /\ Len(p) = Len(out) /\ Ascending(p)
      /\ \A i \in 1 .. Len(p) : p[i].seq = seq + i /\ p[i].ev = out[i]
  BY <1>3, ReservedSeqs
<1> HIDE DEF p
<1>5. Rest(st) = {p[i] : i \in 1 .. Len(out)}
  BY <1>4, StepsOfWave, ElementsOf
<1> HIDE DEF st
<1>6. \A x \in Rest(st) : x.ev \in ToSet(out)
  BY <1>3, <1>4, <1>5
<1>7. \A x \in Rest(st) : x.ev \in ToSet(wave) \/ \E t \in Targets \ have : x.ev = SyntheticINS(t)
  BY <1>2, <1>6
<1> QED
  BY <1>7 DEF st, p, out

\* The events a wave of level l brings, the synthetic INSs included.
OfWave(b, l, have) ==
  {e \in Event : \/ e \in ToSet(b) /\ HELIX_LEVEL[e.op] = l - 1
                 \/ \E t \in Targets \ have : e = SyntheticINS(t)}

LEMMA WaveApart ==
  ASSUME NEW b \in Imports, NEW s, ~Meets(s, b), NEW l \in 1 .. 6, NEW have \in SUBSET Targets,
         s.helix \subseteq have, l >= 3 => \A e \in ToSet(b) : e.op = "INS" => e.on \in have,
         NEW e \in OfWave(b, l, have), NEW f \in OfWave(b, l, have), NEW d \in e.to \ {e.on}
  PROVE  d \in have /\ (f.on # e.on => d \notin Reach(f))
<1>1. b \in Seq(Event) /\ ToSet(b) = {b[i] : i \in 1 .. Len(b)} /\ ToSet(b) \subseteq Given
  <2>1. b \in Seq(Event)
    BY BulkAssumption
  <2> QED
    BY <2>1, ElementsOf DEF Given
<1>2. e \in ToSet(b) /\ HELIX_LEVEL[e.op] = l - 1 /\ e \in Event
  BY DEF OfWave, SyntheticINS
<1>3. e.op = "CON" /\ l = 3 /\ e.to \subseteq Targets
  <2>1. e.op = "CON"
    BY <1>1, <1>2, EdgesAssumption
  <2>2. HELIX_LEVEL["CON"] = 2
    BY LevelsOfOps DEF Ops
  <2> QED
    BY <1>2, <2>1, <2>2 DEF Event
<1>4. PICK i \in 1 .. Len(b) : b[i] = e
  BY <1>1, <1>2
<1>5. /\ d \notin s.helix => \E j \in 1 .. Len(b) : b[j].op = "INS" /\ b[j].on = d
      /\ \A j \in (1 .. Len(b)) \ {i} : ~(HELIX_LEVEL[b[j].op] = 2 /\ d \in {b[j].on} \union b[j].to)
  <2>1. d \in b[i].to \ {b[i].on}
    BY <1>4
  <2> QED
    BY <2>1, Zenon DEF Meets
<1>6. d \in have
  <2>1. CASE d \in s.helix
    BY <2>1
  <2>2. CASE d \notin s.helix
    <3>1. PICK j \in 1 .. Len(b) : b[j].op = "INS" /\ b[j].on = d
      BY <1>5, <2>2
    <3> QED
      BY <1>1, <1>3, <3>1
  <2> QED
    BY <2>1, <2>2
<1>7. ASSUME f.on # e.on, d \in Reach(f) PROVE FALSE
  <2>1. CASE f \in ToSet(b) /\ HELIX_LEVEL[f.op] = l - 1
    <3>1. PICK j \in 1 .. Len(b) : b[j] = f
      BY <1>1, <2>1
    <3>2. j # i
      BY <1>4, <1>7, <3>1
    <3> QED
      BY <1>3, <1>5, <1>7, <2>1, <3>1, <3>2 DEF Reach
  <2>2. CASE \E t \in Targets \ have : f = SyntheticINS(t)
    BY <1>6, <1>7, <2>2 DEF SyntheticINS, Reach
  <2> QED
    BY <2>1, <2>2 DEF OfWave
<1> QED
  BY <1>6, <1>7

\* All of it: the events of a wave are apart, and what they bring in is declared.
LEMMA PlannedApart ==
  ASSUME NEW b \in Imports, NEW s, ~Meets(s, b), NEW l \in 1 .. 6, NEW have \in SUBSET Targets,
         s.helix \subseteq have, l >= 3 => \A e \in ToSet(b) : e.op = "INS" => e.on \in have,
         NEW P, \A x \in P : x.ev \in OfWave(b, l, have)
  PROVE  Apart(P) /\ \A x \in P : \A d \in x.ev.to \ {x.ev.on} : d \in have
<1>1. \A x, y \in P : \A d \in x.ev.to \ {x.ev.on} : d \in have /\ (y.ev.on # x.ev.on => d \notin Reach(y.ev))
  BY WaveApart
<1>2. ASSUME NEW x \in P, NEW y \in P, x.ev.on # y.ev.on, NEW z \in Reach(x.ev), z \in Reach(y.ev)
      PROVE  FALSE
  <2>1. CASE z = x.ev.on
    <3>1. z \in y.ev.to \ {y.ev.on}
      BY <1>2, <2>1 DEF Reach
    <3> QED
      BY <1>1, <1>2, <3>1
  <2>2. CASE z # x.ev.on
    <3>1. z \in x.ev.to \ {x.ev.on}
      BY <1>2, <2>2 DEF Reach
    <3> QED
      BY <1>1, <1>2, <3>1
  <2> QED
    BY <2>1, <2>2
<1> QED
  BY <1>1, <1>2 DEF Apart

-----------------------------------------------------------------------------
(* The import, while its groups are idle. *)

\* The log rebuilds the store as it is.
Even(s, r) == r.log = s.log /\ r.idem = s.idem /\ r.edges = s.edges /\ Alike(r, s, Targets)
Rebuilt(s) ==
  LET r == replayFromLog(s.log) IN r \in Store /\ Even(s, r) /\ RowsOn(r) /\ Fresh(r)

AllIdle(h) == \A k \in Groups : h[k].todo = << >>

LEMMA IdleRebuilds ==
  ASSUME NEW s, NEW i, NEW h, AllIdle(h)
  PROVE  Rebuilding(s, i, h) <=> /\ Apart(Rest(i.steps)) /\ Brought(s, Rest(i.steps))
                                 /\ History(s, i) /\ Rebuilt(s)
<1> DEFINE R == replayFromLog(s.log)
<1>1. \A k \in Groups : ~Mid(h[k]) /\ MidFine(s, h[k]) /\ ToSet(h[k].todo) = {} /\ Zone(h[k]) = {}
  BY DEF AllIdle, Mid, MidFine, Zone, ToSet
<1>2. Pending(i, h) = Rest(i.steps) /\ Zones(h) = {} /\ Alone(i, h)
  BY <1>1 DEF Pending, Zones, Alone, AllIdle
<1> HIDE DEF R
<1>3. Follows(s, R, h) <=> Even(s, R)
  BY <1>1, <1>2 DEF Follows, Even
<1>4. (R \in Store /\ Follows(s, R, h) /\ RowsOn(R) /\ Fresh(R)) <=> Rebuilt(s)
  BY <1>3, Zenon DEF Rebuilt, R
<1> QED
  BY <1>1, <1>2, <1>4, Zenon DEF Rebuilding, R

LEMMA NothingPending ==
  ASSUME NEW s
  PROVE  Rest(<< >>) = {} /\ Apart({}) /\ Brought(s, {})
BY DEF Rest, Apart, Brought

LEMMA NotRunningIsIdle ==
  ASSUME Rebuilding(store, imp, task), imp.pc # "run" \/ imp.mode = "isolated"
  PROVE  AllIdle(task)
BY DEF Rebuilding, Alone, AllIdle

LEMMA QuietIsIdle ==
  ASSUME Rebuilding(store, imp, task), Quiet(imp.n)
  PROVE  AllIdle(task)
<1>1. ASSUME NEW k \in Groups, task[k].todo # << >> PROVE FALSE
  <2>1. k[1] = imp.n /\ k[2] \in Targets /\ k = <<k[1], k[2]>>
    BY <1>1 DEF Rebuilding, Alone, Groups
  <2> QED
    BY <1>1, <2>1 DEF Quiet
<1> QED
  BY <1>1 DEF AllIdle

\* Stores with the same log and the same to read are rebuilt alike.
LEMMA SameRebuilt ==
  ASSUME NEW s, NEW r, Rebuilt(s), r.log = s.log, r.idem = s.idem, r.edges = s.edges,
         r.rows = s.rows, r.helix = s.helix
  PROVE  Rebuilt(r)
<1> DEFINE R == replayFromLog(s.log)
<1>1. R \in Store /\ Even(s, R) /\ RowsOn(R) /\ Fresh(R)
  BY Zenon DEF Rebuilt
<1> HIDE DEF R
<1>2. Even(r, R)
  BY <1>1 DEF Even, Alike, AlikeAt, Touching
<1> QED
  BY <1>1, <1>2 DEF Rebuilt, R

LEMMA BeginRebuilds ==
  ASSUME BulkInv, Rebuilding(store, imp, task), NEW b \in Imports, NEW mode \in Modes, Begin(b, mode), ~mixed'
  PROVE  Rebuilding(store', imp', task')
<1> DEFINE w == sortByHelixLevel(b)
           i == [n |-> imp.n + 1, pc |-> "run", mode |-> mode, waves |-> w, steps |-> << >>,
                 insed |-> {}, batch |-> b, from |-> store, snap |-> EmptyStore]
<1>1. /\ imp' = i /\ ~Meets(store, b) /\ store' = store /\ task' = task /\ imp.pc = "idle"
  BY DEF Begin
<1>2. b \in Seq(Event)
  BY BulkAssumption
<1>3. Len(w) = 6
  BY <1>2, WavesByLevel
<1>4. AllIdle(task)
  BY <1>1, NotRunningIsIdle
<1>5. Rebuilt(store)
  BY <1>4, IdleRebuilds
<1>6. /\ i.pc = "run" /\ i.steps = << >> /\ i.batch = b /\ i.from = store /\ i.waves = w
  OBVIOUS
<1> HIDE DEF i
<1>7. WavesOf(i)
  <2>1. Len(i.waves) = 6 /\ i.waves = sortByHelixLevel(i.batch)
    BY <1>3, <1>6
  <2>2. \A l \in 1 .. 6 : 6 - 6 + l = l
    OBVIOUS
  <2> QED
    BY <2>1, <2>2 DEF WavesOf
<1>8. History(store, i)
  BY <1>1, <1>6, <1>7 DEF History, Underway
<1>9. Rebuilding(store, i, task)
  BY <1>4, <1>5, <1>6, <1>8, NothingPending, IdleRebuilds
<1> QED
  BY <1>1, <1>9

LEMMA LeavingRebuilds ==
  ASSUME Rebuilding(store, imp, task), AllIdle(task), NEW i, i.pc \in {"idle", "done"}, i.steps = << >>
  PROVE  Rebuilding(store, i, task)
<1>1. Rebuilt(store)
  BY IdleRebuilds
<1>2. History(store, i)
  BY DEF History, Underway
<1> QED
  BY <1>1, <1>2, NothingPending, IdleRebuilds

LEMMA FinishRebuilds ==
  ASSUME BulkInv, Rebuilding(store, imp, task), Finish
  PROVE  Rebuilding(store', imp', task')
<1> DEFINE i == [imp EXCEPT !.pc = "done"]
<1>1. imp.steps = << >> /\ Quiet(imp.n) /\ imp' = i /\ store' = store /\ task' = task /\ imp \in Import
  BY InvFacts DEF Finish
<1>2. i.pc = "done" /\ i.steps = << >>
  BY <1>1 DEF Import
<1>3. AllIdle(task)
  BY <1>1, QuietIsIdle
<1> HIDE DEF i
<1>4. Rebuilding(store, i, task)
  BY <1>2, <1>3, LeavingRebuilds
<1> QED
  BY <1>1, <1>4

LEMMA LeaveRebuilds ==
  ASSUME BulkInv, Rebuilding(store, imp, task), Leave \/ RejectStep
  PROVE  Rebuilding(store', imp', task')
<1> DEFINE i == [NoImport EXCEPT !.n = imp.n]
<1>1. imp' = i /\ store' = store /\ task' = task /\ imp.pc # "run"
  BY DEF Leave, RejectStep
<1>2. i.pc = "idle" /\ i.steps = << >>
  BY DEF NoImport
<1>3. AllIdle(task)
  BY <1>1, NotRunningIsIdle
<1> HIDE DEF i
<1>4. Rebuilding(store, i, task)
  BY <1>2, <1>3, LeavingRebuilds
<1> QED
  BY <1>1, <1>4

LEMMA ShipStepRebuilds ==
  ASSUME BulkInv, Rebuilding(store, imp, task), ShipStep
  PROVE  Rebuilding(store', imp', task')
<1> DEFINE i == [imp EXCEPT !.pc = "shipped", !.snap = store]
<1>1. /\ imp' = i /\ store' = store /\ task' = task /\ imp.pc = "run" /\ imp.mode = "isolated"
      /\ imp \in Import
  BY InvFacts DEF ShipStep
<1>2. /\ i.pc = "shipped" /\ i.snap = store /\ i.steps = imp.steps /\ i.waves = imp.waves
      /\ i.insed = imp.insed /\ i.batch = imp.batch /\ i.from = imp.from
  BY <1>1 DEF Import
<1>3. AllIdle(task)
  BY <1>1, NotRunningIsIdle
<1> HIDE DEF i
<1>4. Apart(Rest(imp.steps)) /\ Brought(store, Rest(imp.steps)) /\ History(store, imp) /\ Rebuilt(store)
  BY <1>3, IdleRebuilds
<1>5. History(store, i)
  BY <1>1, <1>2, <1>4 DEF History, Underway, WavesOf
<1>6. Rebuilding(store, i, task)
  BY <1>2, <1>3, <1>4, <1>5, IdleRebuilds
<1> QED
  BY <1>1, <1>6

LEMMA StartStepRebuilds ==
  ASSUME BulkInv, Rebuilding(store, imp, task), StartStep
  PROVE  Rebuilding(store', imp', task')
<1> DEFINE step == Head(imp.steps)
           left == Tail(imp.steps)
           h == [k \in DOMAIN task |->
                   IF k[1] = imp.n THEN [NoTask EXCEPT !.todo = OfTarget(step, k[2])] ELSE task[k]]
           i == [imp EXCEPT !.steps = left]
<1>1. /\ imp.pc = "run" /\ imp.mode = "shared" /\ imp.steps # << >> /\ Quiet(imp.n)
      /\ imp' = i /\ task' = h /\ store' = store
  BY DEF StartStep
<1>2. /\ imp \in Import /\ task \in [Groups -> Task] /\ PlanFine(store, imp, task)
  BY InvFacts
<1>3. imp.steps \in Seq(Seq(Planned)) /\ StepsSorted(imp.steps)
  BY <1>2 DEF Import, PlanFine
<1>4. /\ step \in Seq(Planned) /\ left \in Seq(Seq(Planned)) /\ Rest(imp.steps) = ToSet(step) \union Rest(left)
  BY <1>1, <1>3, StepsInOrder
<1> HIDE DEF step, left
<1>5. AllIdle(task)
  BY <1>1, QuietIsIdle
<1>6. Apart(Rest(imp.steps)) /\ Brought(store, Rest(imp.steps)) /\ History(store, imp) /\ Rebuilt(store)
  BY <1>5, IdleRebuilds
<1>7. \A k \in Groups : IF k[1] = imp.n THEN h[k].pc = "check" /\ h[k].todo = OfTarget(step, k[2])
                        ELSE h[k].todo = << >>
  BY <1>2, <1>5 DEF NoTask, AllIdle
<1>8. /\ i.pc = "run" /\ i.steps = left /\ i.waves = imp.waves /\ i.insed = imp.insed /\ i.n = imp.n
      /\ i.batch = imp.batch /\ i.from = imp.from /\ i.mode = imp.mode
  BY <1>1, <1>2, <1>4 DEF Import
<1> HIDE DEF h, i
<1>9. \A k \in Groups : ~Mid(h[k]) /\ MidFine(store, h[k]) /\ Zone(h[k]) = {}
  BY <1>7 DEF Mid, MidFine, Zone
<1>10. Pending(i, h) \subseteq Rest(imp.steps)
  <2>1. ASSUME NEW k \in Groups PROVE ToSet(h[k].todo) \subseteq ToSet(step)
    <3>1. CASE k[1] = imp.n
      <4>1. k[2] \in Targets
        BY DEF Groups
      <4> QED
        BY <1>4, <1>7, <3>1, <4>1, GroupOfTarget
    <3>2. CASE k[1] # imp.n
      BY <1>7, <3>2 DEF ToSet
    <3> QED
      BY <3>1, <3>2
  <2> QED
    BY <1>4, <1>8, <2>1 DEF Pending
<1>11. Apart(Pending(i, h)) /\ Brought(store, Pending(i, h))
  BY <1>6, <1>10 DEF Apart, Brought
<1>12. History(store, i)
  BY <1>1, <1>6, <1>8 DEF History, Underway, WavesOf
<1>13. Alone(i, h)
  BY <1>1, <1>7, <1>8 DEF Alone
<1> DEFINE R == replayFromLog(store.log)
<1>14. R \in Store /\ Even(store, R) /\ RowsOn(R) /\ Fresh(R)
  BY <1>6, Zenon DEF Rebuilt
<1> HIDE DEF R
<1>15. Follows(store, R, h)
  <2>1. Zones(h) = {}
    BY <1>9 DEF Zones
  <2> QED
    BY <1>9, <1>14, <2>1 DEF Follows, Even
<1>16. Rebuilding(store, i, h)
  BY <1>9, <1>11, <1>12, <1>13, <1>14, <1>15, Zenon DEF Rebuilding, R
<1> QED
  BY <1>1, <1>16

LEMMA StartWaveRebuilds ==
  ASSUME BulkInv, Rebuilding(store, imp, task), StartWave
  PROVE  Rebuilding(store', imp', task')
<1> DEFINE wave == Head(imp.waves)
           have == imp.insed \union store.helix
           left == Tail(imp.waves)
           w    == Expanded(wave, have)
           seq  == store.seq
           n    == seq + Len(w.out)
           st   == splitWaveIntoSteps(Reserved(w.out, seq))
           i    == [imp EXCEPT !.waves = left, !.insed = w.insed, !.steps = st]
           r    == [store EXCEPT !.seq = n]
           b    == imp.batch
           l    == 7 - Len(imp.waves)
<1>1. /\ imp.pc = "run" /\ imp.waves # << >> /\ imp.steps = << >> /\ Quiet(imp.n)
      /\ imp' = i /\ store' = r /\ task' = task
  BY DEF StartWave
<1>2. /\ store \in Store /\ Sound(store) /\ imp \in Import /\ task \in [Groups -> Task]
      /\ PlanFine(store, imp, task) /\ PhaseFine(store, imp, task)
  BY InvFacts
<1>3. /\ imp.waves \in Seq(Seq(Event)) /\ imp.insed \in SUBSET Targets
      /\ store.helix \in SUBSET Targets /\ seq \in Nat
  BY <1>2 DEF Import, Store
<1>4. AllIdle(task)
  BY <1>1, QuietIsIdle
<1>5. History(store, imp) /\ Rebuilt(store)
  BY <1>4, IdleRebuilds
<1>6. /\ b \in Imports /\ ~Meets(imp.from, b) /\ WavesOf(imp) /\ imp.from.helix \subseteq store.helix
      /\ b \in Seq(Event) /\ ToSet(b) \subseteq Given
  BY <1>1, <1>5, BulkAssumption DEF History, Underway, Given
<1>7. /\ Len(imp.waves) \in 1 .. 6 /\ l \in 1 .. 6 /\ wave = sortByHelixLevel(b)[l]
      /\ l >= 3 => \A e \in ToSet(b) : e.op = "INS" => e.on \in imp.insed
  <2>0. Len(imp.waves) <= 6
    BY <1>6 DEF WavesOf
  <2>1. Len(imp.waves) \in Nat /\ Len(imp.waves) >= 1 /\ wave = imp.waves[1]
    BY <1>1, <1>3
  <2>2. 6 - Len(imp.waves) + 1 = l /\ 1 \in 1 .. Len(imp.waves)
    BY <2>1
  <2>3. imp.waves[1] = sortByHelixLevel(b)[6 - Len(imp.waves) + 1]
    BY <1>6, <2>2, Zenon DEF WavesOf
  <2>4. l >= 3 => Len(imp.waves) <= 4
    BY <2>1
  <2>5. l \in 1 .. 6 /\ Len(imp.waves) \in 1 .. 6
    <3>1. \A x \in Nat : x >= 1 /\ x <= 6 => x \in 1 .. 6 /\ 7 - x \in 1 .. 6
      OBVIOUS
    <3> QED
      BY <2>0, <2>1, <3>1, Zenon DEF l
  <2>6. Len(imp.waves) <= 4 => \A e \in ToSet(b) : e.op = "INS" => e.on \in imp.insed
    BY <1>6, Zenon DEF WavesOf
  <2> HIDE DEF l, b, wave
  <2>7. wave = sortByHelixLevel(b)[l]
    BY <2>1, <2>2, <2>3
  <2> QED
    BY <2>4, <2>5, <2>6, <2>7
<1>8. wave \in Seq(Event) /\ ToSet(wave) = {e \in ToSet(b) : HELIX_LEVEL[e.op] = l - 1}
  BY <1>6, <1>7, WavesByLevel
<1>9. Pure(wave)
  BY <1>1, <1>2, <1>3, HeadAndTail DEF PhaseFine
<1> HIDE DEF wave
<1>10. wave \in Seq(Usable) /\ ToSet(wave) \subseteq Event
  <2>1. ToSet(wave) = {wave[j] : j \in 1 .. Len(wave)} /\ ToSet(wave) \subseteq Event
    BY <1>8, ElementsOf
  <2>2. \A j \in 1 .. Len(wave) : wave[j] \in Usable
    BY <1>6, <1>8, <2>1 DEF Usable
  <2> QED
    BY <1>8, <2>1, <2>2
<1>11. have \in SUBSET Targets /\ imp.from.helix \subseteq have /\ imp.insed \subseteq have
  BY <1>3, <1>6
<1>12. \A t \in have : HasINS(ToSet(store.log), t)
  <2>1. ASSUME NEW t \in imp.insed PROVE HasINS(ToSet(store.log), t)
    <3>1. task[<<imp.n, t>>].todo = << >>
      BY <1>1, <1>3 DEF Quiet
    <3>2. Ahead(imp, task, t) = {}
      BY <1>1, <3>1 DEF Ahead, ToSet, Rest
    <3> QED
      BY <1>2, <3>2 DEF PlanFine, HasINS
  <2> QED
    BY <1>2, <2>1 DEF Sound, HelixLogged
<1> HIDE DEF have, seq, l, b
<1>13. /\ w.insed \in SUBSET Targets /\ Len(w.out) \in Nat /\ st \in Seq(Seq(Planned))
  BY <1>3, <1>9, <1>10, <1>11, PlannedWave
<1>14. \A x \in Rest(st) : x.ev \in ToSet(wave) \/ \E t \in Targets \ have : x.ev = SyntheticINS(t)
  BY <1>3, <1>9, <1>10, <1>11, PlannedEvents, Zenon
<1>15. have \subseteq w.insed /\ \A e \in ToSet(wave) : e.op = "INS" => e.on \in w.insed
  BY <1>9, <1>10, <1>11, ExpandedEvents, Zenon
<1> HIDE DEF w, st
<1>16. \A x \in Rest(st) : x.ev \in OfWave(b, l, have)
  <2>1. \A t \in Targets : SyntheticINS(t) \in Event
    BY EventsInUse
  <2> QED
    BY <1>8, <1>10, <1>14, <2>1 DEF OfWave
<1>17. Apart(Rest(st)) /\ \A x \in Rest(st) : \A d \in x.ev.to \ {x.ev.on} : d \in have
  <2>1. l >= 3 => \A e \in ToSet(b) : e.op = "INS" => e.on \in have
    BY <1>7, <1>11
  <2>2. b \in Imports /\ ~Meets(imp.from, b)
    BY <1>6
  <2>3. l \in 1 .. 6
    BY <1>7
  <2>4. have \in SUBSET Targets /\ imp.from.helix \subseteq have
    BY <1>11
  <2> QED
    BY <1>16, <2>1, <2>2, <2>3, <2>4, PlannedApart, Zenon
<1>18. n \in Nat
  BY <1>3, <1>13
<1> HIDE DEF n
<1>19. /\ r.log = store.log /\ r.idem = store.idem /\ r.helix = store.helix
       /\ r.edges = store.edges /\ r.rows = store.rows
  BY <1>2 DEF Store
<1> HIDE DEF r
<1>20. Rebuilt(r)
  BY <1>5, <1>19, SameRebuilt
<1>21. Brought(r, Rest(st))
  BY <1>12, <1>17, <1>19 DEF Brought
<1>22. /\ i.pc = "run" /\ i.steps = st /\ i.waves = left /\ i.insed = w.insed
       /\ i.batch = b /\ i.from = imp.from
  BY <1>1, <1>2 DEF Import, b
<1> HIDE DEF i
<1>23. WavesOf(i)
  <2>1. /\ Len(left) \in Nat /\ Len(left) = Len(imp.waves) - 1
        /\ \A j \in 1 .. Len(left) : left[j] = imp.waves[j + 1]
    BY <1>1, <1>3
  <2> HIDE DEF left
  <2>2. Len(left) <= 6 /\ (Len(left) <= 4 => Len(imp.waves) <= 4 \/ Len(imp.waves) = 5)
    <3>1. \A x \in 1 .. 6 : x - 1 <= 6 /\ (x - 1 <= 4 => x <= 4 \/ x = 5)
      OBVIOUS
    <3>2. Len(imp.waves) \in 1 .. 6 /\ Len(left) = Len(imp.waves) - 1
      BY <1>7, <2>1, Zenon
    <3> QED
      BY <3>1, <3>2, Zenon
  <2>3. ASSUME NEW j \in 1 .. Len(left) PROVE left[j] = sortByHelixLevel(b)[6 - Len(left) + j]
    <3>1. j + 1 \in 1 .. Len(imp.waves) /\ 6 - Len(imp.waves) + (j + 1) = 6 - Len(left) + j
      BY <1>7, <2>1
    <3>2. imp.waves[j + 1] = sortByHelixLevel(b)[6 - Len(imp.waves) + (j + 1)]
      BY <1>6, <3>1, Zenon DEF WavesOf, b
    <3> QED
      BY <2>1, <3>1, <3>2
  <2>4. ASSUME Len(left) <= 4, NEW e \in ToSet(b), e.op = "INS" PROVE e.on \in w.insed
    <3>1. CASE Len(imp.waves) <= 4
      BY <1>6, <1>11, <1>15, <2>4, <3>1 DEF WavesOf, b
    <3>2. CASE Len(imp.waves) = 5
      <4>1. l = 2
        BY <3>2 DEF l
      <4>2. HELIX_LEVEL[e.op] = 1
        BY <2>4, LevelsOfOps DEF Ops
      <4>3. e \in ToSet(wave)
        BY <1>8, <4>1, <4>2
      <4> QED
        BY <1>15, <2>4, <4>3
    <3> QED
      BY <2>2, <2>4, <3>1, <3>2, Zenon
  <2> QED
    BY <1>22, <2>2, <2>3, <2>4, Zenon DEF WavesOf
<1>24. History(r, i)
  BY <1>6, <1>19, <1>22, <1>23 DEF History, Underway
<1>25. Rebuilding(r, i, task)
  BY <1>4, <1>17, <1>20, <1>21, <1>22, <1>24, IdleRebuilds
<1> QED
  BY <1>1, <1>25

-----------------------------------------------------------------------------
(* An event folded on its own keeps the log and the store together. *)

LEMMA CoreRebuilt ==
  ASSUME NEW s \in Store, Rebuilt(s), NEW x \in Planned, x.ev.to # {} => x.ev.op = "CON",
         x.ev.op \in NeedsINS => HasINS(ToSet(s.log), x.ev.on),
         \A d \in x.ev.to : HasINS(ToSet(s.log), d)
  PROVE  Rebuilt(processEventCoreWithSeq(s, x))
<1> DEFINE R == replayFromLog(s.log)
           q == processEventCoreWithSeq(s, x)
           Q == processEventCoreWithSeq(R, x)
           e == x.ev
<1>1. R \in Store /\ Even(s, R) /\ RowsOn(R) /\ Fresh(R)
  BY Zenon DEF Rebuilt
<1>2. e \in Event /\ s.log \in Seq(Planned) /\ Reach(e) \in SUBSET Targets /\ e.on \in Targets
      /\ e.to \in SUBSET Targets
  BY DEF Planned, Event, Reach, Store
<1>3. Q = processEventCoreWithSeq(R, x)
  OBVIOUS
<1>4. replayFromLog(Append(s.log, x)) = Q
  BY <1>2, ReplayOneMore
<1> HIDE DEF R, Q
<1>5. R.log = s.log /\ R.idem = s.idem /\ R.edges = s.edges /\ Alike(R, s, Targets)
  BY <1>1 DEF Even
<1>6. Known(R, e) <=> Known(s, e)
  BY <1>5 DEF Known
<1>7. Grounded(R, e)
  BY <1>1, <1>2, <1>5 DEF Grounded, RowsOn
<1>8. RowsOn(Q) /\ Fresh(Q)
  BY <1>1, <1>3, <1>7, CoreRows
<1>9. Q \in Store /\ Alike(Q, q, Targets)
  BY <1>1, <1>2, <1>3, <1>5, <1>6, CoreLocal
<1>10. CASE Known(s, e)
  <2>1. q = s
    BY <1>10, CoreLocal
  <2> QED
    BY <2>1
<1>11. CASE ~Known(s, e)
  <2>1. /\ q.edges = s.edges \union ({e.on} \X e.to)
        /\ q.idem = s.idem \union {e.id} /\ q.log = Append(s.log, x)
    BY <1>11, CoreLocal
  <2>2. /\ Q.edges = R.edges \union ({e.on} \X e.to)
        /\ Q.idem = R.idem \union {e.id} /\ Q.log = Append(R.log, x)
    BY <1>1, <1>3, <1>6, <1>11, CoreLocal
  <2> HIDE DEF q, e
  <2>3. Even(q, Q)
    BY <1>5, <1>9, <2>1, <2>2 DEF Even
  <2>4. replayFromLog(q.log) = Q
    BY <1>4, <2>1
  <2>5. Rebuilt(q)
    BY <1>8, <1>9, <2>3, <2>4 DEF Rebuilt
  <2> QED
    BY <2>5 DEF q
<1> QED
  BY <1>10, <1>11

LEMMA SequencedRebuilt ==
  ASSUME NEW s \in Store, Rebuilt(s), NEW e \in Event, e.to # {} => e.op = "CON",
         e.op \in NeedsINS => HasINS(ToSet(s.log), e.on),
         \A d \in e.to : HasINS(ToSet(s.log), d)
  PROVE  Rebuilt(Sequenced(s, e))
<1> DEFINE n == s.seq + 1
           u == [s EXCEPT !.seq = n]
           x == [seq |-> n, ev |-> e]
<1>1. n \in Nat
  BY DEF Store
<1>2. Sequenced(s, e) = processEventCoreWithSeq(u, x)
  BY DEF Sequenced, Store
<1> HIDE DEF n
<1>3. /\ u \in Store /\ u.log = s.log /\ u.idem = s.idem
      /\ u.helix = s.helix /\ u.edges = s.edges /\ u.rows = s.rows
  BY <1>1 DEF Store
<1>4. x \in Planned /\ x.ev = e
  BY <1>1 DEF Planned
<1> HIDE DEF u, x
<1>5. Rebuilt(u)
  BY <1>3, SameRebuilt
<1>6. Rebuilt(processEventCoreWithSeq(u, x))
  BY <1>3, <1>4, <1>5, CoreRebuilt
<1> QED
  BY <1>2, <1>6

LEMMA SerialRebuilt ==
  ASSUME NEW s \in Store, Sound(s), Rebuilt(s), NEW e \in Usable
  PROVE  Rebuilt(processEvent(s, e))
<1>1. CASE Known(s, e)
  BY <1>1 DEF processEvent
<1>2. CASE ~Known(s, e)
  <2> DEFINE ts  == Missing(e, s.helix)
             evs == INSsOf(ts) \o <<e>>
             n   == Len(ts)
  <2>0. e \in Event /\ s.helix \in SUBSET Targets /\ (e.to # {} => e.op = "CON")
    BY EventsInUse, OnlyConBringsEdges DEF Store
  <2>1. /\ ts \in Seq(Targets)
        /\ ToSet(ts) = IF e.op \in NeedsINS THEN ({e.on} \union e.to) \ s.helix ELSE {}
        /\ INSsOf(ts) \in Seq(Usable) /\ Len(INSsOf(ts)) = n
        /\ \A i \in 1 .. n : INSsOf(ts)[i] = SyntheticINS(ts[i])
    BY <2>0, MissingTargets
  <2> HIDE DEF ts
  <2>2. /\ evs \in Seq(Event) /\ Len(evs) = n + 1 /\ n \in Nat /\ evs[n + 1] = e
        /\ \A i \in 1 .. n : evs[i] = SyntheticINS(ts[i]) /\ ts[i] \in Targets
    <3>1. INSsOf(ts) \in Seq(Event) /\ <<e>> \in Seq(Event)
      BY <2>1, EventsInUse
    <3> QED
      BY <2>1, <3>1
  <2>3. processEvent(s, e) = FoldLeft(Sequenced, s, evs)
    BY <1>2, Zenon DEF processEvent, ts
  <2> HIDE DEF evs, n
  <2>4. PICK a \in [0 .. Len(evs) -> Store] : Sequencing(a, s, evs)
    BY <2>2, SerialRuns
  <2>5. /\ a[0] = s /\ a[Len(evs)] = FoldLeft(Sequenced, s, evs)
        /\ \A i \in 1 .. Len(evs) : a[i] = Sequenced(a[i - 1], evs[i])
    BY <2>4 DEF Sequencing
  <2> DEFINE A == {i \in 0 .. n : /\ a[i] \in Store /\ Sound(a[i]) /\ Rebuilt(a[i])
                                  /\ ToSet(s.log) \subseteq ToSet(a[i].log)
                                  /\ \A j \in 1 .. i : HasINS(ToSet(a[i].log), ts[j])}
  <2>6. 0 \in A
    BY <2>2, <2>5
  <2>7. ASSUME NEW i \in 0 .. n - 1, i \in A PROVE i + 1 \in A
    <3>1. /\ i + 1 \in 1 .. n /\ i + 1 \in 1 .. Len(evs) /\ (i + 1) - 1 = i
          /\ \A j \in 1 .. i + 1 : j \in 1 .. i \/ j = i + 1
      BY <2>2
    <3>2. a[i + 1] = Sequenced(a[i], SyntheticINS(ts[i + 1])) /\ ts[i + 1] \in Targets
      BY <2>2, <2>5, <3>1
    <3>3. /\ SyntheticINS(ts[i + 1]) \in Usable /\ SyntheticINS(ts[i + 1]).op = "INS"
          /\ SyntheticINS(ts[i + 1]).on = ts[i + 1] /\ SyntheticINS(ts[i + 1]).to = {}
          /\ SyntheticINS(ts[i + 1]) \in Event
      BY <3>2, EventsInUse DEF SyntheticINS
    <3>4. "INS" \notin NeedsINS
      BY DEF NeedsINS
    <3>5. /\ a[i + 1] \in Store /\ Sound(a[i + 1]) /\ ToSet(a[i].log) \subseteq ToSet(a[i + 1].log)
          /\ HasINS(ToSet(a[i + 1].log), ts[i + 1])
      BY <2>7, <3>2, <3>3, <3>4, SequencedIsSound
    <3>6. \A j \in 1 .. i : HasINS(ToSet(a[i + 1].log), ts[j])
      BY <2>7, <3>5 DEF HasINS
    <3>7. \A j \in 1 .. i + 1 : HasINS(ToSet(a[i + 1].log), ts[j])
      BY <3>1, <3>5, <3>6
    <3>8. ToSet(s.log) \subseteq ToSet(a[i + 1].log) /\ i + 1 \in 0 .. n
      BY <2>7, <3>1, <3>5
    <3>9. Rebuilt(a[i + 1])
      <4>1. a[i] \in Store /\ Rebuilt(a[i])
        BY <2>7
      <4> DEFINE b == a[i]
                 f == SyntheticINS(ts[i + 1])
      <4>2. b \in Store /\ Rebuilt(b) /\ f \in Event /\ f.to = {} /\ f.op = "INS"
        BY <3>3, <4>1
      <4> HIDE DEF b, f
      <4>3. Rebuilt(Sequenced(b, f))
        BY <3>4, <4>2, SequencedRebuilt
      <4> QED
        BY <3>2, <4>3 DEF b, f
    <3> QED
      BY <3>5, <3>7, <3>8, <3>9
  <2>8. n \in A
    <3> HIDE DEF A
    <3> QED
      BY <2>2, <2>6, <2>7, AtTheEnd, Zenon
  <2>9. ASSUME e.op \in NeedsINS, NEW t \in {e.on} \union e.to PROVE HasINS(ToSet(a[n].log), t)
    <3>2. CASE t \in s.helix
      <4>1. HasINS(ToSet(s.log), t)
        BY <3>2 DEF Sound, HelixLogged
      <4> QED
        BY <2>8, <4>1 DEF HasINS
    <3>3. CASE t \notin s.helix
      <4>1. t \in ToSet(ts)
        BY <2>1, <2>9, <3>3
      <4>2. PICK j \in 1 .. n : t = ts[j]
        <5>1. ToSet(ts) = {ts[j] : j \in 1 .. Len(ts)}
          BY <2>1, ElementsOf
        <5> QED
          BY <4>1, <5>1 DEF n
      <4> QED
        BY <2>8, <4>2
    <3> QED
      BY <3>2, <3>3
  <2>10. a[n + 1] = Sequenced(a[n], e)
    <3>1. n + 1 \in 1 .. Len(evs) /\ (n + 1) - 1 = n
      BY <2>2
    <3> QED
      BY <2>2, <2>5, <3>1
  <2>11. e.op = "CON" => e.op \in NeedsINS
    BY DEF NeedsINS
  <2>12. Rebuilt(a[n + 1])
    <3> DEFINE b == a[n]
    <3>1. b \in Store /\ Rebuilt(b)
      BY <2>8
    <3>2. /\ e.op \in NeedsINS => HasINS(ToSet(b.log), e.on)
          /\ \A d \in e.to : HasINS(ToSet(b.log), d)
      BY <2>0, <2>9, <2>11
    <3> HIDE DEF b
    <3>3. Rebuilt(Sequenced(b, e))
      BY <2>0, <3>1, <3>2, SequencedRebuilt
    <3> QED
      BY <2>10, <3>3 DEF b
  <2> QED
    BY <2>2, <2>3, <2>5, <2>12
<1> QED
  BY <1>1, <1>2

LEMMA DispatchRebuilds ==
  ASSUME BulkInv, Rebuilding(store, imp, task), NEW e \in Locals, Dispatch(e)
  PROVE  Rebuilding(store', imp', task')
<1> DEFINE r == processEvent(store, e)
<1>1. imp.pc = "idle" /\ store' = r /\ imp' = imp /\ task' = task
  BY DEF Dispatch
<1>2. store \in Store /\ Sound(store) /\ PhaseFine(store, imp, task)
  BY InvFacts
<1>3. AllIdle(task) /\ imp.steps = << >>
  BY <1>1, <1>2, NotRunningIsIdle DEF PhaseFine
<1>4. Rebuilt(store)
  BY <1>3, IdleRebuilds
<1>5. e \in Usable
  BY DEF Usable, Given
<1> HIDE DEF r
<1>6. Rebuilt(r)
  BY <1>2, <1>4, <1>5, SerialRebuilt DEF r
<1>7. History(r, imp)
  BY <1>1 DEF History, Underway
<1>8. Rebuilding(r, imp, task)
  BY <1>3, <1>6, <1>7, NothingPending, IdleRebuilds
<1> QED
  BY <1>1, <1>8

-----------------------------------------------------------------------------
(* A shard, and the same events folded on the store it will be merged into. *)

Wrote(S, x, t) == ~Known(S, x.ev) /\ \E o \in ToSet(RowOps(x.ev)) : o.row = t

\* T is what a shard has made of the snapshot S, P what the same events make of the
\* store acc: alike on the rows X the shard reaches, and untouched elsewhere.
Beside(S, acc, evs, X, T, P) ==
  /\ T \in Store /\ P \in Store
  /\ Rebuilt(P) /\ RowsOn(T) /\ Fresh(T)
  /\ \E d \in Seq(Planned) : T.log = S.log \o d /\ P.log = acc.log \o d
  /\ \E E \in SUBSET (Targets \X Targets) : T.edges = S.edges \union E /\ P.edges = acc.edges \union E
  /\ \E J \in SUBSET {x.ev.id : x \in ToSet(evs)} : T.idem = S.idem \union J /\ P.idem = acc.idem \union J
  /\ Alike(T, P, X) /\ Alike(T, S, Targets \ X) /\ Alike(P, acc, Targets \ X)
  /\ S.helix \subseteq T.helix
  /\ \A t \in Targets : T.rows[t] # S.rows[t] => T.rows[t].on /\ \E x \in ToSet(evs) : Wrote(S, x, t)

LEMMA BesideStep ==
  ASSUME NEW S \in Store, NEW acc \in Store, ToSet(S.log) \subseteq ToSet(acc.log), NEW evs,
         NEW X \in SUBSET Targets, NEW T \in Store, NEW P \in Store, Beside(S, acc, evs, X, T, P),
         NEW x \in ToSet(evs), x \in Planned, Reach(x.ev) \subseteq X,
         Known(acc, x.ev) <=> Known(S, x.ev), x.ev.to # {} => x.ev.op = "CON",
         x.ev.op \in NeedsINS => HasINS(ToSet(T.log), x.ev.on),
         \A d \in x.ev.to : HasINS(ToSet(T.log), d)
  PROVE  /\ Beside(S, acc, evs, X, processEventCoreWithSeq(T, x), processEventCoreWithSeq(P, x))
         /\ ToSet(T.log) \subseteq ToSet(processEventCoreWithSeq(T, x).log)
         /\ x.ev.id = 0 => x \in ToSet(processEventCoreWithSeq(T, x).log)
<1> DEFINE e == x.ev
           U == processEventCoreWithSeq(T, x)
           Q == processEventCoreWithSeq(P, x)
<1>1. e \in Event /\ e.on \in Targets /\ e.to \in SUBSET Targets /\ Reach(e) \in SUBSET Targets
  BY DEF Planned, Event, Reach
<1>2. PICK d \in Seq(Planned) : T.log = S.log \o d /\ P.log = acc.log \o d
  BY DEF Beside
<1>3. PICK E \in SUBSET (Targets \X Targets) : T.edges = S.edges \union E /\ P.edges = acc.edges \union E
  BY DEF Beside
<1>4. PICK J \in SUBSET {y.ev.id : y \in ToSet(evs)} : T.idem = S.idem \union J /\ P.idem = acc.idem \union J
  BY DEF Beside
<1>5. /\ Rebuilt(P) /\ RowsOn(T) /\ Fresh(T)
      /\ Alike(T, P, X) /\ Alike(T, S, Targets \ X) /\ Alike(P, acc, Targets \ X)
      /\ S.helix \subseteq T.helix
      /\ \A t \in Targets : T.rows[t] # S.rows[t] => T.rows[t].on /\ \E y \in ToSet(evs) : Wrote(S, y, t)
  BY DEF Beside
<1>6. S.log \in Seq(Planned) /\ acc.log \in Seq(Planned) /\ T.log \in Seq(Planned)
  BY DEF Store
<1>7. ToSet(T.log) \subseteq ToSet(P.log)
  <2>1. ToSet(T.log) = ToSet(S.log) \union ToSet(d) /\ ToSet(P.log) = ToSet(acc.log) \union ToSet(d)
    BY <1>2, <1>6, Joined
  <2> QED
    BY <2>1
<1>8. Known(T, e) <=> Known(P, e)
  BY <1>4 DEF Known
<1>9. Grounded(T, e)
  BY <1>1, <1>5 DEF Grounded, RowsOn
<1>10. /\ RowsOn(U) /\ Fresh(U)
       /\ \A t \in Targets : T.rows[t].on => U.rows[t].on
       /\ \A t \in Targets : U.rows[t] # T.rows[t] =>
            U.rows[t].on /\ ~Known(T, e) /\ \E o \in ToSet(RowOps(e)) : o.row = t
  BY <1>5, <1>9, CoreRows
<1>11. U \in Store /\ Alike(T, U, Targets \ Reach(e)) /\ Alike(U, Q, X)
  BY <1>1, <1>5, <1>8, CoreLocal
<1>12. Q \in Store /\ Alike(P, Q, Targets \ Reach(e))
  BY CoreLocal
<1>13. Rebuilt(Q)
  <2>1. /\ e.op \in NeedsINS => HasINS(ToSet(P.log), e.on)
        /\ \A f \in e.to : HasINS(ToSet(P.log), f)
    BY <1>7 DEF HasINS
  <2> QED
    BY <1>5, <2>1, CoreRebuilt
<1>14. T.helix \subseteq U.helix
  <2>1. CASE Known(T, e)
    BY <2>1, CoreLocal
  <2>2. CASE ~Known(T, e)
    BY <2>2, CoreEffect
  <2> QED
    BY <2>1, <2>2
<1>15. CASE Known(T, e)
  <2>1. U = T /\ Q = P
    BY <1>8, <1>15, CoreLocal
  <2>2. e.id # 0
    BY <1>15 DEF Known
  <2> QED
    BY <2>1, <2>2
<1>16. CASE ~Known(T, e)
  <2>1. /\ U.edges = T.edges \union ({e.on} \X e.to)
        /\ U.idem = T.idem \union {e.id} /\ U.log = Append(T.log, x)
    BY <1>16, CoreLocal
  <2>2. /\ Q.edges = P.edges \union ({e.on} \X e.to)
        /\ Q.idem = P.idem \union {e.id} /\ Q.log = Append(P.log, x)
    BY <1>8, <1>16, CoreLocal
  <2>3. e.id \in {y.ev.id : y \in ToSet(evs)} /\ {e.on} \X e.to \in SUBSET (Targets \X Targets)
    BY <1>1
  <2>4. ~Known(S, e)
    BY <1>4, <1>16 DEF Known
  <2>5. ASSUME NEW t \in Targets, U.rows[t] # S.rows[t]
        PROVE  U.rows[t].on /\ \E y \in ToSet(evs) : Wrote(S, y, t)
    <3>1. CASE U.rows[t] # T.rows[t]
      <4>1. U.rows[t].on /\ \E o \in ToSet(RowOps(e)) : o.row = t
        BY <1>10, <3>1
      <4>2. Wrote(S, x, t)
        BY <2>4, <4>1 DEF Wrote
      <4> QED
        BY <4>1, <4>2
    <3>2. CASE U.rows[t] = T.rows[t]
      BY <1>5, <2>5, <3>2
    <3> QED
      BY <3>1, <3>2
  <2> HIDE DEF U, Q, e
  <2>6. \E f \in Seq(Planned) : U.log = S.log \o f /\ Q.log = acc.log \o f
    <3> DEFINE f == Append(d, x)
               l == S.log
               k == acc.log
    <3>1. f \in Seq(Planned) /\ l \in Seq(Planned) /\ k \in Seq(Planned)
      BY <1>6
    <3>2. U.log = Append(l \o d, x) /\ Q.log = Append(k \o d, x)
      BY <1>2, <2>1, <2>2
    <3> HIDE DEF l, k
    <3>3. Append(l \o d, x) = l \o f /\ Append(k \o d, x) = k \o f
      BY <3>1, JoinedThenAppended
    <3> HIDE DEF f
    <3> QED
      BY <3>1, <3>2, <3>3 DEF l, k
  <2>7. \E F \in SUBSET (Targets \X Targets) : U.edges = S.edges \union F /\ Q.edges = acc.edges \union F
    <3> DEFINE F == E \union ({e.on} \X e.to)
    <3>1. F \in SUBSET (Targets \X Targets) /\ U.edges = S.edges \union F /\ Q.edges = acc.edges \union F
      BY <1>3, <2>1, <2>2, <2>3
    <3> HIDE DEF F
    <3> QED
      BY <3>1
  <2>8. \E K \in SUBSET {y.ev.id : y \in ToSet(evs)} : U.idem = S.idem \union K /\ Q.idem = acc.idem \union K
    <3> DEFINE K == J \union {e.id}
    <3>1. K \in SUBSET {y.ev.id : y \in ToSet(evs)} /\ U.idem = S.idem \union K /\ Q.idem = acc.idem \union K
      BY <1>4, <2>1, <2>2, <2>3
    <3> HIDE DEF K
    <3> QED
      BY <3>1
  <2>9. Alike(U, S, Targets \ X) /\ Alike(Q, acc, Targets \ X)
    <3>1. Targets \ X \subseteq Targets \ Reach(e)
      BY DEF e
    <3> DEFINE Y == Targets \ X
    <3>2. Alike(T, U, Y) /\ Alike(P, Q, Y)
      BY <1>11, <1>12, <3>1, AlikeIsEquivalence
    <3>3. Alike(T, S, Y) /\ Alike(P, acc, Y)
      BY <1>5
    <3> HIDE DEF Y
    <3>4. Alike(U, T, Y) /\ Alike(Q, P, Y)
      BY <3>2, AlikeIsEquivalence
    <3>5. Alike(U, S, Y) /\ Alike(Q, acc, Y)
      BY <3>3, <3>4, AlikeIsEquivalence
    <3> QED
      BY <3>5 DEF Y
  <2>10. Beside(S, acc, evs, X, U, Q)
    BY <1>5, <1>10, <1>11, <1>12, <1>13, <1>14, <2>5, <2>6, <2>7, <2>8, <2>9 DEF Beside
  <2>11. ToSet(U.log) = ToSet(T.log) \union {x}
    BY <1>6, <2>1, Appended
  <2> QED
    BY <2>10, <2>11 DEF U, Q
<1> QED
  BY <1>15, <1>16

\* A shard has the events of one target in the order of their seqs.
NewerBehind(s) ==
  \A i, j \in 1 .. Len(s) : i < j /\ s[i].ev.on = s[j].ev.on => s[i].seq < s[j].seq

LEMMA NewerBehindJoined ==
  ASSUME NEW s \in Seq(Planned), NEW t \in Seq(Planned), NewerBehind(s), Ascending(t),
         \A x \in ToSet(s), y \in ToSet(t) : x.ev.on # y.ev.on
  PROVE  NewerBehind(s \o t)
<1> DEFINE p == Len(s)
           q == Len(t)
           u == s \o t
<1>1. p \in Nat /\ q \in Nat /\ Len(u) = p + q
  BY JoinedElements
<1>2. \A i \in 1 .. p : u[i] = s[i] /\ s[i] \in ToSet(s)
  BY JoinedElements, ElementsOf
<1>3. \A i \in 1 .. q : u[p + i] = t[i] /\ t[i] \in ToSet(t)
  BY JoinedElements, ElementsOf
<1>4. \A i \in 1 .. p + q : i \in 1 .. p \/ (i - p \in 1 .. q /\ p + (i - p) = i)
  BY <1>1
<1> HIDE DEF u, p, q
<1>5. ASSUME NEW i \in 1 .. p + q, NEW j \in 1 .. p + q, i < j, u[i].ev.on = u[j].ev.on
      PROVE  u[i].seq < u[j].seq
  <2>1. CASE j \in 1 .. p
    <3>1. i \in 1 .. p
      BY <1>1, <1>5, <2>1
    <3> QED
      BY <1>2, <1>5, <2>1, <3>1 DEF NewerBehind, p
  <2>2. CASE i \in 1 .. p /\ j \notin 1 .. p
    <3>1. u[i] \in ToSet(s) /\ u[j] \in ToSet(t)
      BY <1>2, <1>3, <1>4, <2>2
    <3> QED
      BY <1>5, <3>1
  <2>3. CASE i \notin 1 .. p /\ j \notin 1 .. p
    <3>1. i - p \in 1 .. q /\ j - p \in 1 .. q /\ u[i] = t[i - p] /\ u[j] = t[j - p]
      BY <1>3, <1>4, <2>3
    <3>2. i - p < j - p
      BY <1>1, <1>5
    <3> QED
      BY <3>1, <3>2 DEF Ascending, q
  <2> QED
    BY <2>1, <2>2, <2>3
<1> QED
  BY <1>1, <1>5 DEF NewerBehind, u

LEMMA ShardInOrder ==
  ASSUME NEW step \in Seq(Planned), Ascending(step), NEW n
  PROVE  NewerBehind(ShardEvents(step, n))
<1> DEFINE keys == TargetKeys
<1>0. /\ keys \in Seq(Targets)
      /\ \A i, j \in 1 .. Len(keys) : keys[i] = keys[j] => i = j
  BY BulkAssumption
<1> HIDE DEF keys
<1>1. PICK a \in [0 .. Len(keys) -> Seq(Planned)] : Gathering(a, step, n, keys)
  BY <1>0, GatheringRuns DEF keys
<1>2. /\ a[0] = << >> /\ a[Len(keys)] = ShardEvents(step, n)
      /\ \A i \in 1 .. Len(keys) :
           a[i] = IF ShardOf[keys[i]] = n THEN a[i - 1] \o OfTarget(step, keys[i]) ELSE a[i - 1]
  BY <1>1 DEF Gathering
<1> DEFINE A == {i \in 0 .. Len(keys) :
                   NewerBehind(a[i]) /\ \A x \in ToSet(a[i]) : \E j \in 1 .. i : x.ev.on = keys[j]}
<1>3. Len(keys) \in Nat /\ \A i \in 1 .. Len(keys) : keys[i] \in Targets
  BY <1>0
<1>4. 0 \in A
  BY <1>2, <1>3 DEF NewerBehind, ToSet
<1>5. ASSUME NEW i \in 0 .. Len(keys) - 1, i \in A PROVE i + 1 \in A
  <2>1. i + 1 \in 1 .. Len(keys) /\ (i + 1) - 1 = i /\ i + 1 \in 0 .. Len(keys) /\ i \in 0 .. Len(keys)
        /\ \A j \in 1 .. i : j \in 1 .. i + 1 /\ j \in 1 .. Len(keys) /\ j # i + 1
    BY <1>3
  <2> DEFINE t == keys[i + 1]
             g == OfTarget(step, t)
             b == a[i]
  <2>2. t \in Targets /\ b \in Seq(Planned) /\ NewerBehind(b)
        /\ \A x \in ToSet(b) : \E j \in 1 .. i : x.ev.on = keys[j]
    BY <1>3, <1>5, <2>1
  <2>3. g \in Seq(Planned) /\ ToSet(g) = {x \in ToSet(step) : x.ev.on = t} /\ Ascending(g)
    BY <2>2, GroupOfTarget
  <2>4. a[i + 1] = IF ShardOf[t] = n THEN b \o g ELSE b
    BY <1>2, <2>1
  <2>5. \A j \in 1 .. i : keys[j] # t
    BY <1>0, <2>1
  <2> HIDE DEF g, b
  <2>6. NewerBehind(b \o g)
    <3>1. \A x \in ToSet(b), y \in ToSet(g) : x.ev.on # y.ev.on
      BY <2>2, <2>3, <2>5
    <3> QED
      BY <2>2, <2>3, <3>1, NewerBehindJoined
  <2>7. ToSet(b \o g) = ToSet(b) \union ToSet(g)
    BY <2>2, <2>3, Joined
  <2>8. \A x \in ToSet(b \o g) : \E j \in 1 .. i + 1 : x.ev.on = keys[j]
    <3>1. i + 1 \in 1 .. i + 1
      BY <2>1
    <3> QED
      BY <2>1, <2>2, <2>3, <2>7, <3>1
  <2>9. \A x \in ToSet(b) : \E j \in 1 .. i + 1 : x.ev.on = keys[j]
    BY <2>1, <2>2
  <2>10. NewerBehind(a[i + 1]) /\ \A x \in ToSet(a[i + 1]) : \E j \in 1 .. i + 1 : x.ev.on = keys[j]
    BY <2>2, <2>4, <2>6, <2>8, <2>9
  <2> QED
    BY <2>1, <2>10
<1>6. Len(keys) \in A
  <2> HIDE DEF A
  <2> QED
    BY <1>3, <1>4, <1>5, AtTheEnd, Zenon
<1> QED
  BY <1>2, <1>6

\* The target of an event has its INS in the snapshot, or earlier in the shard.
LEMMA ShardIsCovered ==
  ASSUME NEW s, NEW step \in Seq(Planned), Ascending(step), NEW n,
         \A x \in ToSet(step) : Covered(s, x, ToSet(step)),
         NEW evs \in Seq(Planned), evs = ShardEvents(step, n), NEW m \in 1 .. Len(evs),
         evs[m].ev.op \in NeedsINS
  PROVE  \/ HasINS(ToSet(s.log), evs[m].ev.on)
         \/ \E l \in 1 .. m - 1 : evs[l].ev = SyntheticINS(evs[m].ev.on)
<1> DEFINE x == evs[m]
<1>1. /\ ToSet(evs) = {evs[l] : l \in 1 .. Len(evs)} /\ NewerBehind(evs) /\ Len(evs) \in Nat
      /\ ToSet(evs) = {y \in ToSet(step) : ShardOf[y.ev.on] = n}
  BY ElementsOf, EventsOfShard, ShardInOrder
<1>2. x \in ToSet(step) /\ ShardOf[x.ev.on] = n
  BY <1>1
<1>3. CASE INSBefore(ToSet(s.log), x.ev.on, x.seq)
  BY <1>3 DEF INSBefore, HasINS
<1>4. ASSUME NEW y \in ToSet(step), y.ev = SyntheticINS(x.ev.on), y.seq < x.seq
      PROVE  \E l \in 1 .. m - 1 : evs[l].ev = SyntheticINS(evs[m].ev.on)
  <2>1. y.ev.on = x.ev.on
    BY <1>4 DEF SyntheticINS
  <2>2. y \in ToSet(evs)
    BY <1>1, <1>2, <2>1
  <2>3. PICK l \in 1 .. Len(evs) : evs[l] = y
    BY <1>1, <2>2
  <2>4. y.seq \in Nat /\ x.seq \in Nat
    <3>1. y \in Planned /\ x \in Planned
      BY <2>3
    <3> QED
      BY <3>1 DEF Planned
  <2>5. ~(m <= l)
    <3>1. CASE m = l
      BY <1>4, <2>3, <2>4, <3>1
    <3>2. CASE m < l
      <4>1. x.seq < y.seq
        BY <1>1, <2>1, <2>3, <3>2 DEF NewerBehind
      <4> QED
        BY <1>4, <2>4, <4>1
    <3> QED
      BY <3>1, <3>2
  <2>6. l \in 1 .. m - 1
    BY <1>1, <2>5
  <2> QED
    BY <1>4, <2>3, <2>6
<1> QED
  BY <1>2, <1>3, <1>4 DEF Covered

LEMMA BesideAtFirst ==
  ASSUME NEW S \in Store, RowsOn(S), Fresh(S), NEW acc \in Store, Rebuilt(acc), NEW evs,
         NEW X, Alike(S, acc, X)
  PROVE  Beside(S, acc, evs, X, S, acc)
<1>1. \E d \in Seq(Planned) : S.log = S.log \o d /\ acc.log = acc.log \o d
  <2> DEFINE l == S.log
             k == acc.log
  <2>1. l \in Seq(Planned) /\ k \in Seq(Planned) /\ << >> \in Seq(Planned)
    BY DEF Store
  <2> HIDE DEF l, k
  <2>2. l = l \o << >> /\ k = k \o << >>
    BY <2>1
  <2> QED
    BY <2>1, <2>2 DEF l, k
<1>2. \E E \in SUBSET (Targets \X Targets) : S.edges = S.edges \union E /\ acc.edges = acc.edges \union E
  <2>1. S.edges = S.edges \union {} /\ acc.edges = acc.edges \union {}
    OBVIOUS
  <2> QED
    BY <2>1, Zenon
<1>3. \E J \in SUBSET {x.ev.id : x \in ToSet(evs)} : S.idem = S.idem \union J /\ acc.idem = acc.idem \union J
  <2>1. S.idem = S.idem \union {} /\ acc.idem = acc.idem \union {}
    OBVIOUS
  <2> QED
    BY <2>1, Zenon
<1> QED
  BY <1>1, <1>2, <1>3, AlikeIsEquivalence DEF Beside

\* A shard's fold, step by step beside the fold of its events on the store.
LEMMA ShardBeside ==
  ASSUME NEW S \in Store, Recorded(S), RowsOn(S), Fresh(S), NEW acc \in Store, Rebuilt(acc),
         ToSet(S.log) \subseteq ToSet(acc.log), NEW evs \in Seq(Planned),
         NEW X \in SUBSET Targets, Alike(S, acc, X),
         \A x \in ToSet(evs) : /\ x.ev \in Usable /\ Reach(x.ev) \subseteq X
                               /\ Known(acc, x.ev) <=> Known(S, x.ev)
                               /\ \A d \in x.ev.to \ {x.ev.on} : HasINS(ToSet(S.log), d),
         \A m \in 1 .. Len(evs) : evs[m].ev.op \in NeedsINS =>
           \/ HasINS(ToSet(S.log), evs[m].ev.on)
           \/ \E l \in 1 .. m - 1 : evs[l].ev = SyntheticINS(evs[m].ev.on)
  PROVE  \E P \in Store : Beside(S, acc, evs, X, ShardRun(S, evs).s, P)
<1>1. PICK a \in [0 .. Len(evs) -> Shardings(S, evs)] : Folding(a, S, evs)
  BY ShardRuns
<1>2. /\ a[0] = [ok |-> TRUE, s |-> S] /\ a[Len(evs)] = ShardRun(S, evs)
      /\ \A i \in 1 .. Len(evs) : a[i] = InShard(a[i - 1], evs[i])
  BY <1>1 DEF Folding
<1>3. Len(evs) \in Nat /\ \A j \in 1 .. Len(evs) : evs[j] \in ToSet(evs) /\ evs[j] \in Planned
  BY ElementsOf
<1> DEFINE Has(s, m) == /\ ToSet(S.log) \subseteq ToSet(s.log)
                        /\ \A l \in 1 .. m : evs[l].ev.id = 0 => evs[l] \in ToSet(s.log)
           Good(s) == s \in Store /\ \E P \in Store : Beside(S, acc, evs, X, s, P)
           A == {m \in 0 .. Len(evs) : Good(a[m].s) /\ Has(a[m].s, m)}
<1>4. 0 \in A
  <2>1. a[0].s = S
    BY <1>2
  <2>2. Good(S) /\ Has(S, 0)
    BY BesideAtFirst
  <2> HIDE DEF Good, Has
  <2> QED
    BY <1>3, <2>1, <2>2
<1>5. ASSUME NEW i \in 0 .. Len(evs) - 1, i \in A PROVE i + 1 \in A
  <2> DEFINE x == evs[i + 1]
             T == a[i].s
             U == processEventCoreWithSeq(T, x)
  <2>1. /\ i + 1 \in 1 .. Len(evs) /\ (i + 1) - 1 = i /\ i + 1 \in 0 .. Len(evs)
        /\ 1 .. i + 1 = (1 .. i) \union {i + 1}
    BY <1>3
  <2>2. x \in ToSet(evs) /\ x \in Planned
    BY <1>3, <2>1
  <2>3. a[i + 1].s = U
    <3>1. a[i + 1] = InShard(a[i], x)
      BY <1>2, <2>1
    <3> QED
      BY <3>1 DEF InShard
  <2>4. Good(T) /\ Has(T, i)
    BY <1>5
  <2>5. PICK P \in Store : Beside(S, acc, evs, X, T, P)
    BY <2>4
  <2>6. T \in Store
    BY <2>4
  <2>7. \A d \in x.ev.to \ {x.ev.on} : HasINS(ToSet(T.log), d)
    BY <2>2, <2>4 DEF HasINS
  <2>8. x.ev.op \in NeedsINS => HasINS(ToSet(T.log), x.ev.on)
    <3>1. SUFFICES ASSUME x.ev.op \in NeedsINS PROVE HasINS(ToSet(T.log), x.ev.on)
      OBVIOUS
    <3>2. x.ev.on \in Targets
      BY <2>2 DEF Planned, Event
    <3>3. CASE HasINS(ToSet(S.log), x.ev.on)
      BY <2>4, <3>3 DEF HasINS
    <3>4. ASSUME NEW l \in 1 .. i, evs[l].ev = SyntheticINS(x.ev.on)
          PROVE  HasINS(ToSet(T.log), x.ev.on)
      <4>1. evs[l].ev.id = 0 /\ evs[l].ev.op = "INS" /\ evs[l].ev.on = x.ev.on
        BY <3>4 DEF SyntheticINS
      <4>2. evs[l] \in ToSet(T.log)
        BY <2>4, <4>1
      <4> QED
        BY <4>1, <4>2 DEF HasINS
    <3> QED
      BY <2>1, <3>1, <3>3, <3>4
  <2>9. x.ev.to # {} => x.ev.op = "CON"
    BY <2>2, OnlyConBringsEdges
  <2>10. \A d \in x.ev.to : HasINS(ToSet(T.log), d)
    BY <2>7, <2>8, <2>9 DEF NeedsINS
  <2>11. Reach(x.ev) \subseteq X /\ (Known(acc, x.ev) <=> Known(S, x.ev))
    BY <2>2
  <2> HIDE DEF x, T
  <2>12. /\ Beside(S, acc, evs, X, U, processEventCoreWithSeq(P, x))
         /\ ToSet(T.log) \subseteq ToSet(U.log)
         /\ x.ev.id = 0 => x \in ToSet(U.log)
    BY <2>2, <2>5, <2>6, <2>8, <2>9, <2>10, <2>11, BesideStep
  <2> HIDE DEF U
  <2>13. Good(U)
    BY <2>12 DEF Beside
  <2>14. Has(U, i + 1)
    <3>1. \A l \in 1 .. i : evs[l].ev.id = 0 => evs[l] \in ToSet(U.log)
      BY <2>4, <2>12
    <3>2. evs[i + 1].ev.id = 0 => evs[i + 1] \in ToSet(U.log)
      BY <2>12 DEF x
    <3> QED
      BY <2>1, <2>4, <2>12, <3>1, <3>2
  <2> HIDE DEF Good, Has
  <2> QED
    BY <2>1, <2>3, <2>13, <2>14
<1>6. Len(evs) \in A
  <2> HIDE DEF A
  <2> QED
    BY <1>3, <1>4, <1>5, AtTheEnd, Zenon
<1> QED
  BY <1>2, <1>6

MergeOf(m, s, snap, evs, done, d) ==
  /\ m \in Store /\ m.log = s.log \o d
  /\ m.idem = s.idem \union done.idem /\ m.helix = s.helix \union done.helix
  /\ m.rows = [t \in Targets |-> IF t \in Touched(snap, evs, done) THEN done.rows[t] ELSE s.rows[t]]
  /\ m.edges = s.edges \union done.edges

LEMMA MergeCells ==
  ASSUME NEW s \in Store, NEW snap \in Store, NEW done \in Store, NEW evs,
         NEW d \in Seq(Planned), done.log = snap.log \o d, NEW m, m = Merge(s, snap, evs, done)
  PROVE  MergeOf(m, s, snap, evs, done, d)
<1>1. MergeAdds(Merge(s, snap, evs, done), s, done, d)
  BY MergeEffect
<1>2. /\ m.rows = [t \in Targets |-> IF t \in Touched(snap, evs, done) THEN done.rows[t] ELSE s.rows[t]]
      /\ m.edges = s.edges \union done.edges
  BY DEF Merge, Store
<1> QED
  BY <1>1, <1>2 DEF MergeOf, MergeAdds

\* Merged whole, the rows of a shard make the store what its events would have made of it.
LEMMA MergeOfBeside ==
  ASSUME NEW S \in Store, NEW acc \in Store, NEW evs \in Seq(Planned),
         NEW X \in SUBSET Targets, NEW T \in Store, NEW P \in Store, Beside(S, acc, evs, X, T, P),
         Alike(S, acc, X), S.edges \subseteq acc.edges, S.helix \subseteq acc.helix,
         S.idem \subseteq acc.idem,
         \A x \in ToSet(evs) : x.ev \in Event /\ Reach(x.ev) \subseteq X
  PROVE  LET m == Merge(acc, S, evs, T)
         IN  /\ m \in Store /\ Rebuilt(m) /\ Alike(acc, m, Targets \ X)
             /\ acc.edges \subseteq m.edges /\ acc.helix \subseteq m.helix /\ acc.idem \subseteq m.idem
             /\ ToSet(acc.log) \subseteq ToSet(m.log)
             /\ m.idem \subseteq acc.idem \union {x.ev.id : x \in ToSet(evs)}
<1> DEFINE m == Merge(acc, S, evs, T)
<1>2. PICK d \in Seq(Planned) : T.log = S.log \o d /\ P.log = acc.log \o d
  BY DEF Beside
<1>3. PICK E \in SUBSET (Targets \X Targets) : T.edges = S.edges \union E /\ P.edges = acc.edges \union E
  BY DEF Beside
<1>4. PICK J \in SUBSET {y.ev.id : y \in ToSet(evs)} : T.idem = S.idem \union J /\ P.idem = acc.idem \union J
  BY DEF Beside
<1>5. /\ Rebuilt(P) /\ Alike(T, P, X) /\ Alike(T, S, Targets \ X) /\ Alike(P, acc, Targets \ X)
      /\ S.helix \subseteq T.helix
      /\ \A t \in Targets : T.rows[t] # S.rows[t] => T.rows[t].on /\ \E y \in ToSet(evs) : Wrote(S, y, t)
  BY DEF Beside
<1>6. T.log = S.log \o d /\ m = Merge(acc, S, evs, T)
  BY <1>2
<1> HIDE DEF m
<1>7. /\ m \in Store /\ m.log = acc.log \o d
      /\ m.idem = acc.idem \union T.idem /\ m.helix = acc.helix \union T.helix
      /\ m.rows = [t \in Targets |-> IF t \in Touched(S, evs, T) THEN T.rows[t] ELSE acc.rows[t]]
      /\ m.edges = acc.edges \union T.edges
  <2>1. MergeOf(m, acc, S, evs, T, d)
    BY <1>6, MergeCells, Zenon
  <2> QED
    BY <2>1 DEF MergeOf
<1>8. m.log = P.log /\ m.idem = P.idem /\ m.edges = P.edges
  BY <1>2, <1>3, <1>4, <1>7
<1>9. \A t \in Targets : (t \in T.helix \/ t \in acc.helix) <=> t \in P.helix
  <2>1. ASSUME NEW t \in X PROVE (t \in T.helix \/ t \in acc.helix) <=> t \in P.helix
    BY <1>5, <2>1 DEF Alike, AlikeAt
  <2>2. ASSUME NEW t \in Targets \ X PROVE (t \in T.helix \/ t \in acc.helix) <=> t \in P.helix
    BY <1>5, <2>2 DEF Alike, AlikeAt
  <2> QED
    BY <2>1, <2>2
<1>10. m.helix = P.helix
  <2>1. acc.helix \subseteq Targets /\ T.helix \subseteq Targets /\ P.helix \subseteq Targets
    BY DEF Store
  <2> QED
    BY <1>7, <1>9, <2>1
<1>11. ASSUME NEW t \in Targets PROVE m.rows[t] = P.rows[t]
  <2>1. CASE t \in X
    <3>1. T.rows[t] = P.rows[t] /\ acc.rows[t] = S.rows[t]
      BY <1>5, <2>1 DEF Alike, AlikeAt
    <3>2. t \in Touched(S, evs, T) \/ T.rows[t] = S.rows[t]
      BY <1>5 DEF Touched, Wrote
    <3> QED
      BY <1>7, <3>1, <3>2
  <2>2. CASE t \notin X
    <3>1. acc.rows[t] = P.rows[t]
      BY <1>5, <2>2 DEF Alike, AlikeAt
    <3>2. t \notin Touched(S, evs, T)
      <4>1. ASSUME NEW y \in ToSet(evs), NEW o \in ToSet(RowOps(y.ev)), o.row = t PROVE FALSE
        <5>1. y.ev \in Event /\ Reach(y.ev) \subseteq X
          OBVIOUS
        <5>2. RowOps(y.ev) \in Seq(OpsOf(y.ev))
          BY <5>1, RowOpsShape
        <5>3. o \in OpsOf(y.ev)
          BY <5>2, ElementsOf
        <5> QED
          BY <2>2, <4>1, <5>1, <5>3 DEF OpsOf
      <4> QED
        BY <4>1 DEF Touched
    <3> QED
      BY <1>7, <3>1, <3>2
  <2> QED
    BY <2>1, <2>2
<1>12. m.rows = P.rows
  <2>1. m.rows \in [Targets -> Row] /\ P.rows \in [Targets -> Row]
    BY <1>7 DEF Store
  <2> QED
    BY <1>11, <2>1
<1>13. Rebuilt(m)
  BY <1>5, <1>8, <1>10, <1>12, SameRebuilt
<1>14. Alike(acc, m, Targets \ X)
  BY <1>5, <1>8, <1>10, <1>12 DEF Alike, AlikeAt, Touching
<1>15. m.idem \subseteq acc.idem \union {x.ev.id : x \in ToSet(evs)}
  BY <1>4, <1>8
<1>16. ToSet(acc.log) \subseteq ToSet(m.log)
  <2>1. acc.log \in Seq(Planned)
    BY DEF Store
  <2> QED
    BY <1>7, <2>1, Joined
<1> QED
  BY <1>7, <1>13, <1>14, <1>15, <1>16 DEF m

-----------------------------------------------------------------------------
(* The shards of a step, merged one after the other. *)

LEMMA RebuiltRows ==
  ASSUME NEW s, Rebuilt(s)
  PROVE  RowsOn(s) /\ Fresh(s)
<1> DEFINE R == replayFromLog(s.log)
<1>1. R \in Store /\ Even(s, R) /\ RowsOn(R) /\ Fresh(R)
  BY Zenon DEF Rebuilt
<1> HIDE DEF R
<1>2. R.log = s.log /\ \A t \in Targets : R.rows[t] = s.rows[t] /\ Touching(R, t) = Touching(s, t)
  BY <1>1 DEF Even, Alike, AlikeAt
<1> QED
  BY <1>1, <1>2 DEF RowsOn, Fresh

\* The store with the shards before i merged into it.
Partly(step, i, acc) ==
  /\ acc \in Store /\ Rebuilt(acc)
  /\ ToSet(store.log) \subseteq ToSet(acc.log) /\ store.edges \subseteq acc.edges
  /\ store.helix \subseteq acc.helix /\ store.idem \subseteq acc.idem
  /\ acc.idem \subseteq store.idem \union {x.ev.id : x \in {y \in ToSet(step) : ShardOf[y.ev.on] < i}}
  /\ \A t \in Targets : (\A x \in ToSet(step) : ShardOf[x.ev.on] < i => t \notin Reach(x.ev))
                           => AlikeAt(store, acc, t)

\* A step ready to be folded shard by shard on the store.
Shardable(step) ==
  /\ Shipped(step) /\ imp.snap = store /\ Rebuilt(store) /\ Ascending(step)
  /\ Apart(ToSet(step)) /\ Brought(store, ToSet(step))
  /\ \A x \in ToSet(step) : Covered(store, x, ToSet(step))

LEMMA MergingPartly ==
  ASSUME NEW step, Shardable(step), NEW i \in Nat, NEW acc, Partly(step, i, acc)
  PROVE  Partly(step, i + 1, Merging(acc, i))
<1> DEFINE evs == ShardEvents(step, i)
           X   == UNION {Reach(x.ev) : x \in ToSet(evs)}
           T   == ShardRun(store, evs).s
           m   == Merging(acc, i)
<1>1. /\ store \in Store /\ Recorded(store) /\ step = Head(imp.steps) /\ step \in Seq(Planned)
      /\ \A x \in ToSet(step) : x.ev \in Usable
  BY DEF Shardable, Shipped
<1>2. /\ evs \in Seq(Planned) /\ ToSet(evs) = {x \in ToSet(step) : ShardOf[x.ev.on] = i}
  BY <1>1, EventsOfShard
<1>3. \A x \in ToSet(step) : /\ x.ev \in Event /\ x.ev.on \in Targets /\ Reach(x.ev) \in SUBSET Targets
                             /\ ShardOf[x.ev.on] \in Nat
  <2>1. \A x \in ToSet(step) : x.ev \in Event
    BY <1>1, EventsInUse
  <2>2. \A t \in Targets : ShardOf[t] \in Nat
    BY BulkAssumption
  <2> QED
    BY <2>1, <2>2 DEF Event, Reach
<1>4. m = Merge(acc, store, evs, T)
  BY <1>1 DEF Merging, Result, Shardable
<1>5. evs = ShardEvents(step, i)
  OBVIOUS
<1> HIDE DEF evs, m
<1>6. \A k \in 1 .. Len(evs) : evs[k].ev.op \in NeedsINS =>
        \/ HasINS(ToSet(store.log), evs[k].ev.on)
        \/ \E l \in 1 .. k - 1 : evs[l].ev = SyntheticINS(evs[k].ev.on)
  BY <1>1, <1>2, <1>5, ShardIsCovered DEF Shardable
<1>7. X \in SUBSET Targets /\ \A x \in ToSet(evs) : Reach(x.ev) \subseteq X
  BY <1>2, <1>3
<1>8. Alike(store, acc, X)
  <2>1. ASSUME NEW y \in ToSet(evs), NEW t \in Reach(y.ev) PROVE AlikeAt(store, acc, t)
    <3>1. ASSUME NEW x \in ToSet(step), ShardOf[x.ev.on] < i PROVE t \notin Reach(x.ev)
      <4>1. x.ev.on # y.ev.on
        BY <1>2, <1>3, <3>1
      <4> QED
        BY <1>2, <4>1 DEF Shardable, Apart
    <3>2. t \in Targets
      BY <1>2, <1>3
    <3> QED
      BY <3>1, <3>2 DEF Partly
  <2> QED
    BY <2>1 DEF Alike
<1>9. ASSUME NEW x \in ToSet(evs) PROVE Known(acc, x.ev) <=> Known(store, x.ev)
  <2>1. store.idem \subseteq acc.idem
    BY DEF Partly
  <2>2. ASSUME NEW z \in ToSet(step), ShardOf[z.ev.on] < i, z.ev.id = x.ev.id, x.ev.id # 0 PROVE FALSE
    <3>1. z.ev = x.ev
      BY <1>1, <1>2, <2>2, EventsInUse
    <3> QED
      BY <1>2, <1>3, <2>2, <3>1
  <2>3. x.ev.id \in acc.idem /\ x.ev.id # 0 => x.ev.id \in store.idem
    BY <2>2 DEF Partly
  <2> QED
    BY <2>1, <2>3 DEF Known
<1>10. RowsOn(store) /\ Fresh(store)
  BY RebuiltRows DEF Shardable
<1>11. \A x \in ToSet(evs) : \A d \in x.ev.to \ {x.ev.on} : HasINS(ToSet(store.log), d)
  BY <1>2 DEF Shardable, Brought
<1>12. acc \in Store /\ Rebuilt(acc) /\ ToSet(store.log) \subseteq ToSet(acc.log)
  BY DEF Partly
<1>13. \A x \in ToSet(evs) : x.ev \in Usable /\ x.ev \in Event
  BY <1>1, <1>2, <1>3
<1> HIDE DEF X
<1>14. PICK P \in Store : Beside(store, acc, evs, X, T, P)
  BY <1>1, <1>2, <1>6, <1>7, <1>8, <1>9, <1>10, <1>11, <1>12, <1>13, ShardBeside
<1>15. T \in Store
  BY <1>14 DEF Beside
<1> HIDE DEF T
<1>16. store.edges \subseteq acc.edges /\ store.helix \subseteq acc.helix /\ store.idem \subseteq acc.idem
  BY DEF Partly
<1>17. /\ m \in Store /\ Rebuilt(m) /\ Alike(acc, m, Targets \ X)
       /\ acc.edges \subseteq m.edges /\ acc.helix \subseteq m.helix /\ acc.idem \subseteq m.idem
       /\ ToSet(acc.log) \subseteq ToSet(m.log)
       /\ m.idem \subseteq acc.idem \union {x.ev.id : x \in ToSet(evs)}
  BY <1>1, <1>2, <1>4, <1>7, <1>8, <1>12, <1>13, <1>14, <1>15, <1>16, MergeOfBeside
<1>18. \A x \in ToSet(step) : ShardOf[x.ev.on] < i + 1 <=> (ShardOf[x.ev.on] < i \/ x \in ToSet(evs))
  BY <1>2, <1>3
<1>19. m.idem \subseteq store.idem \union {x.ev.id : x \in {y \in ToSet(step) : ShardOf[y.ev.on] < i + 1}}
  <2>1. acc.idem \subseteq store.idem \union {x.ev.id : x \in {y \in ToSet(step) : ShardOf[y.ev.on] < i}}
    BY DEF Partly
  <2> QED
    BY <1>2, <1>17, <1>18, <2>1
<1>20. ASSUME NEW t \in Targets, \A x \in ToSet(step) : ShardOf[x.ev.on] < i + 1 => t \notin Reach(x.ev)
       PROVE  AlikeAt(store, m, t)
  <2>1. AlikeAt(store, acc, t)
    BY <1>18, <1>20 DEF Partly
  <2>2. t \notin X
    BY <1>2, <1>18, <1>20 DEF X
  <2>3. AlikeAt(acc, m, t)
    BY <1>17, <2>2 DEF Alike
  <2> QED
    BY <2>1, <2>3 DEF AlikeAt
<1>21. Partly(step, i + 1, m)
  BY <1>12, <1>16, <1>17, <1>19, <1>20 DEF Partly
<1> QED
  BY <1>21 DEF m

LEMMA ShardsRebuilt ==
  ASSUME NEW step, Shardable(step)
  PROVE  \E n \in Nat : Partly(step, n, FoldLeft(Merging, store, Shards))
<1> DEFINE shards == Shards
<1>0. /\ shards \in Seq(Nat) /\ Len(shards) = NumShards /\ NumShards \in Nat
      /\ \A j \in 1 .. NumShards : shards[j] = j - 1
  BY BulkAssumption DEF Shards
<1> HIDE DEF shards
<1>1. PICK a \in [0 .. Len(shards) -> Merged(store, step)] : Collecting(a, shards)
  BY <1>0, MergeRuns DEF shards, Shardable
<1>2. /\ a[0] = store /\ a[Len(shards)] = FoldLeft(Merging, store, shards)
      /\ \A i \in 1 .. Len(shards) : a[i] = Merging(a[i - 1], shards[i])
  BY <1>1 DEF Collecting
<1> DEFINE A == {i \in 0 .. Len(shards) : Partly(step, i, a[i])}
<1>3. 0 \in A
  <2>1. Partly(step, 0, store)
    BY DEF Partly, Shardable, Shipped, AlikeAt
  <2> QED
    BY <1>0, <1>2, <2>1
<1>4. ASSUME NEW i \in 0 .. Len(shards) - 1, i \in A PROVE i + 1 \in A
  <2>1. i + 1 \in 1 .. Len(shards) /\ (i + 1) - 1 = i /\ i + 1 \in 0 .. Len(shards) /\ i \in Nat
    BY <1>0
  <2>2. shards[i + 1] = i /\ a[i + 1] = Merging(a[i], i) /\ Partly(step, i, a[i])
    BY <1>0, <1>2, <1>4, <2>1
  <2> DEFINE acc == a[i]
  <2>3. Partly(step, i, acc)
    BY <2>2
  <2> HIDE DEF acc
  <2>4. Partly(step, i + 1, Merging(acc, i))
    BY <2>1, <2>3, MergingPartly
  <2>5. Partly(step, i + 1, a[i + 1])
    BY <2>2, <2>4 DEF acc
  <2> QED
    BY <2>1, <2>5
<1>5. Len(shards) \in A
  <2> HIDE DEF A
  <2>1. Len(shards) \in Nat
    BY <1>0
  <2> QED
    BY <1>3, <1>4, <2>1, AtTheEnd, Zenon
<1>6. Partly(step, Len(shards), FoldLeft(Merging, store, shards))
  BY <1>2, <1>5
<1> QED
  BY <1>0, <1>6 DEF shards

\* Where the metrics are those of the edges, computing them again changes nothing.
LEMMA ReconciledIsIdle ==
  ASSUME NEW s \in Store, Rebuilt(s), NEW dests
  PROVE  Rebuilt(Reconciled(s, dests))
<1> DEFINE r == Reconciled(s, dests)
<1>1. r \in Store /\ r.seq = s.seq /\ r.log = s.log /\ r.idem = s.idem /\ r.helix = s.helix
  BY ReconciledEffect
<1>2. s.rows \in [Targets -> Row] /\ Fresh(s)
  BY RebuiltRows DEF Store
<1>3. r.edges = s.edges
  BY DEF Reconciled, Store
<1>4. r.rows = [t \in Targets |->
                  IF t \in dests /\ s.rows[t].on
                  THEN [s.rows[t] EXCEPT !.metrics = {x \in s.edges : t \in {x[1], x[2]}}] ELSE s.rows[t]]
  BY DEF Reconciled, Store
<1>5. ASSUME NEW t \in Targets
      PROVE  [s.rows[t] EXCEPT !.metrics = {x \in s.edges : t \in {x[1], x[2]}}] = s.rows[t]
  <2> DEFINE row == s.rows[t]
             es  == {x \in s.edges : t \in {x[1], x[2]}}
  <2>1. row \in Row /\ row.metrics = es
    BY <1>2 DEF Fresh, Touching
  <2> HIDE DEF row, es
  <2>2. [row EXCEPT !.metrics = es] = row
    BY <2>1 DEF Row
  <2> QED
    BY <2>2 DEF row, es
<1>6. r.rows = s.rows
  BY <1>2, <1>4, <1>5
<1> HIDE DEF r
<1>7. Rebuilt(r)
  BY <1>1, <1>3, <1>6, SameRebuilt
<1> QED
  BY <1>7 DEF r

\* The shards' rows and logs are merged: the log still rebuilds the store.
LEMMA MergeStepRebuilds ==
  ASSUME BulkInv, Rebuilding(store, imp, task), MergeStep
  PROVE  Rebuilding(store', imp', task')
<1> DEFINE step  == Head(imp.steps)
           left  == Tail(imp.steps)
           dests == UNION {step[j].ev.to : j \in 1 .. Len(step)}
           M     == FoldLeft(Merging, store, Shards)
           r     == Reconciled(M, dests)
           i     == [imp EXCEPT !.pc = "run", !.steps = left, !.snap = EmptyStore]
<1>1. imp.pc = "shipped" /\ store' = r /\ imp' = i /\ task' = task
  BY DEF MergeStep
<1>2. /\ store \in Store /\ Sound(store) /\ imp \in Import /\ task \in [Groups -> Task]
      /\ PlanFine(store, imp, task) /\ PhaseFine(store, imp, task)
  BY InvFacts
<1>3. /\ imp.steps # << >> /\ imp.mode = "isolated" /\ Recorded(imp.snap)
      /\ ToSet(imp.snap.log) \subseteq ToSet(store.log)
      /\ \A t \in Targets : task[<<imp.n, t>>].todo = << >>
  BY <1>1, <1>2 DEF PhaseFine
<1>4. imp.steps \in Seq(Seq(Planned)) /\ StepsSorted(imp.steps) /\ imp.snap \in Store
  BY <1>2 DEF Import, PlanFine
<1>5. /\ step \in Seq(Planned) /\ Ascending(step) /\ left \in Seq(Seq(Planned))
      /\ Rest(imp.steps) = ToSet(step) \union Rest(left)
  BY <1>3, <1>4, StepsInOrder
<1>6. \A x \in ToSet(step) : /\ x \in Planned /\ x.ev \in Usable /\ x.seq <= store.seq
                             /\ Covered(store, x, ToSet(step))
  BY <1>2, <1>3, StepIsCovered
<1>7. Shipped(step)
  BY <1>2, <1>3, <1>4, <1>5, <1>6, SoundIsRecorded DEF Shipped
<1> HIDE DEF step, left
<1>8. AllIdle(task)
  BY <1>1, NotRunningIsIdle
<1>9. Apart(Rest(imp.steps)) /\ Brought(store, Rest(imp.steps)) /\ History(store, imp) /\ Rebuilt(store)
  BY <1>8, IdleRebuilds
<1>10. imp.snap = store
  BY <1>1, <1>9 DEF History
<1>11. Shardable(step)
  BY <1>5, <1>6, <1>7, <1>9, <1>10 DEF Shardable, Apart, Brought
<1>12. PICK n \in Nat : Partly(step, n, M)
  BY <1>11, ShardsRebuilt
<1>13. /\ M \in Store /\ Rebuilt(M) /\ ToSet(store.log) \subseteq ToSet(M.log)
       /\ store.helix \subseteq M.helix
  BY <1>12 DEF Partly
<1> HIDE DEF M, dests
<1>14. r.log = M.log /\ r.helix = M.helix /\ Rebuilt(r)
  BY <1>13, ReconciledEffect, ReconciledIsIdle
<1> HIDE DEF r
<1>15. /\ i.pc = "run" /\ i.steps = left /\ i.insed = imp.insed /\ i.waves = imp.waves
       /\ i.batch = imp.batch /\ i.from = imp.from
  BY <1>2 DEF Import
<1> HIDE DEF i
<1>16. Apart(Rest(left)) /\ Brought(r, Rest(left))
  BY <1>5, <1>9, <1>13, <1>14 DEF Apart, Brought, HasINS
<1>17. History(r, i)
  BY <1>1, <1>9, <1>13, <1>14, <1>15 DEF History, Underway, WavesOf
<1>18. Rebuilding(r, i, task)
  BY <1>8, <1>14, <1>15, <1>16, <1>17, IdleRebuilds
<1> QED
  BY <1>1, <1>18

LEMMA InitRebuilds ==
  ASSUME BulkInit
  PROVE  RebuildInv
<1>1. store = EmptyStore /\ imp = NoImport /\ task = [k \in Groups |-> NoTask]
  BY DEF BulkInit, Groups
<1>2. AllIdle(task)
  BY <1>1 DEF AllIdle, NoTask
<1>3. imp.pc = "idle" /\ imp.steps = << >>
  BY <1>1 DEF NoImport
<1>4. /\ store \in Store /\ \A t \in Targets : store.rows[t] = NoRow
      /\ store.log = << >> /\ store.edges = {}
  BY <1>1, EmptyStoreType DEF EmptyStore
<1>5. RowsOn(store) /\ Fresh(store)
  <2>1. ToSet(store.log) = {}
    BY <1>4 DEF ToSet
  <2>2. \A t \in Targets : store.rows[t].metrics = {}
    BY <1>4 DEF NoRow
  <2> QED
    BY <1>4, <2>1, <2>2 DEF RowsOn, HasINS, Fresh, Touching
<1>6. replayFromLog(store.log) = store
  BY <1>1, <1>4, ReplayEmpty
<1>7. Even(store, store)
  BY AlikeIsEquivalence DEF Even
<1>8. Rebuilt(store)
  BY <1>4, <1>5, <1>6, <1>7 DEF Rebuilt
<1>9. History(store, imp)
  BY <1>3 DEF History, Underway
<1>10. Rebuilding(store, imp, task)
  BY <1>2, <1>3, <1>8, <1>9, NothingPending, IdleRebuilds
<1> QED
  BY <1>10 DEF RebuildInv

LEMMA NextKeepsRebuild ==
  ASSUME BulkInv, RebuildInv, [BulkNext]_bulkVars
  PROVE  RebuildInv'
<1>1. mixed => mixed' \/ RebuildInv'
  <2>1. ASSUME NEW k \in (1 .. MaxImports) \X Targets, GroupStep(k) PROVE RebuildInv'
    BY <2>1, GroupStepRebuilds DEF Groups
  <2> QED
    BY <2>1 DEF BulkNext, bulkVars, Dispatch, Begin, StartWave, StartStep, ShipStep, MergeStep, RejectStep,
       Finish, Leave
<1>2. CASE mixed
  BY <1>1, <1>2 DEF RebuildInv
<1>3. CASE ~mixed
  <2>1. Rebuilding(store, imp, task)
    BY <1>3 DEF RebuildInv
  <2>2. ASSUME NEW e \in Locals, Dispatch(e) PROVE RebuildInv'
    BY <2>1, <2>2, DispatchRebuilds DEF RebuildInv
  <2>3. ASSUME NEW b \in Imports, NEW mode \in Modes, Begin(b, mode) PROVE RebuildInv'
    BY <2>1, <2>3, BeginRebuilds DEF RebuildInv
  <2>4. CASE StartWave
    BY <2>1, <2>4, StartWaveRebuilds DEF RebuildInv
  <2>5. CASE StartStep
    BY <2>1, <2>5, StartStepRebuilds DEF RebuildInv
  <2>6. CASE ShipStep
    BY <2>1, <2>6, ShipStepRebuilds DEF RebuildInv
  <2>7. CASE MergeStep
    BY <2>1, <2>7, MergeStepRebuilds DEF RebuildInv
  <2>8. CASE Finish
    BY <2>1, <2>8, FinishRebuilds DEF RebuildInv
  <2>9. CASE Leave \/ RejectStep
    BY <2>1, <2>9, LeaveRebuilds DEF RebuildInv
  <2>10. ASSUME NEW k \in (1 .. MaxImports) \X Targets, GroupStep(k) PROVE RebuildInv'
    BY <2>10, GroupStepRebuilds DEF Groups
  <2>11. CASE UNCHANGED bulkVars
    BY <2>1, <2>11 DEF bulkVars, RebuildInv
  <2> QED
    BY <2>2, <2>3, <2>4, <2>5, <2>6, <2>7, <2>8, <2>9, <2>10, <2>11 DEF BulkNext
<1> QED
  BY <1>2, <1>3

\* The log alone rebuilds what a reader sees: between the imports, the rows, edges and
\* helix positions of the store are those a replay of its log makes in an empty one,
\* whatever the batches, the interleaving of the groups and the cut into shards
\* (LogRebuilds).
THEOREM ReplayIsFaithful == BulkSpec => []LogRebuilds
<1>1. ASSUME BulkInv, RebuildInv PROVE LogRebuilds
  <2>1. SUFFICES ASSUME imp.pc \in {"idle", "done"}, ~mixed
                 PROVE  Projection(replayFromLog(store.log)) = Projection(store)
    BY DEF LogRebuilds
  <2>2. Rebuilding(store, imp, task)
    BY <1>1, <2>1 DEF RebuildInv
  <2>3. AllIdle(task)
    BY <2>1, <2>2, NotRunningIsIdle
  <2> DEFINE R == replayFromLog(store.log)
  <2>4. Rebuilt(store)
    BY <2>2, <2>3, IdleRebuilds
  <2>5. R \in Store /\ Even(store, R)
    BY <2>4, Zenon DEF Rebuilt
  <2>6. store \in Store
    BY <1>1, InvFacts
  <2> HIDE DEF R
  <2>7. R.edges = store.edges /\ \A t \in Targets : R.rows[t] = store.rows[t] /\ (t \in R.helix <=> t \in store.helix)
    BY <2>5 DEF Even, Alike, AlikeAt
  <2>8. /\ R.rows \in [Targets -> Row] /\ store.rows \in [Targets -> Row]
        /\ R.helix \in SUBSET Targets /\ store.helix \in SUBSET Targets
    BY <2>5, <2>6 DEF Store
  <2>9. R.rows = store.rows /\ R.helix = store.helix
    BY <2>7, <2>8
  <2> QED
    BY <2>7, <2>9 DEF Projection, R
<1>2. BulkInit => BulkInv /\ RebuildInv
  BY InitGivesInv, InitRebuilds
<1>3. BulkInv /\ RebuildInv /\ [BulkNext]_bulkVars => BulkInv' /\ RebuildInv'
  BY NextKeepsInv, NextKeepsRebuild
<1> QED
  BY <1>1, <1>2, <1>3, PTL DEF BulkSpec
=============================================================================
