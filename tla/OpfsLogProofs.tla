----------------------------- MODULE OpfsLogProofs -----------------------------
(***************************************************************************)
(* Theorems about OpfsLog, for any events, payloads and records of any     *)
(* length, any log.bin, any way of renumbering, and any number of opens,   *)
(* kills, failing writes, flushes, truncations and unlinks: what was       *)
(* acknowledged on a clean log can be read ever after and is covered by    *)
(* the head, a whole cache that is taken is fresh, the files are one log   *)
(* that only grows, and begin with what log.bin held.                      *)
(*                                                                         *)
(* The invariant says that the files have a base, so many records and so   *)
(* much of the payload file, that is there for good: what the acknowledged *)
(* appends, the cache and log.bin need lies in it, a record of it can be   *)
(* read from that much payload, and the counters of the open log, where    *)
(* everything is written, are not below it.  No scan cuts into it, and an  *)
(* append acknowledged on a clean log extends it up to the counters.       *)
(***************************************************************************)
EXTENDS OpfsLog, WellFoundedInduction, FiniteSetTheorems, TLAPS

-----------------------------------------------------------------------------
(* Numbers. *)

\* Numbers have a least one among them.
LEMMA LeastNatural ==
  ASSUME NEW S \in SUBSET Nat, S # {}
  PROVE  \E x \in S : \A y \in S : x <= y
<1> DEFINE R == OpToRel(<, Nat)
<1>1. \A x, y \in Nat : x < y => <<x, y>> \in R
  BY Zenon DEF OpToRel
<1> HIDE DEF R
<1>2. PICK x \in S : \A y \in S : <<y, x>> \notin R
  <2>1. IsWellFoundedOn(R, Nat)
    BY NatLessThanWellFounded DEF R
  <2> QED
    BY <2>1, WFMin
<1>3. \A y \in S : ~(y < x)
  BY <1>1, <1>2
<1> QED
  BY <1>3

\* A bounded set of numbers has a greatest one.
LEMMA GreatestBelow ==
  ASSUME NEW S \in SUBSET Nat, S # {}, NEW B \in Nat, \A n \in S : n <= B
  PROVE  \E n \in S : \A m \in S : m <= n
<1> DEFINE D == {B - n : n \in S}
<1>1. D \in SUBSET Nat /\ D # {}
  <2>1. \A n \in S : B - n \in Nat
    OBVIOUS
  <2> QED
    BY <2>1
<1>2. PICK d \in D : \A c \in D : d <= c
  BY <1>1, LeastNatural
<1>3. PICK n \in S : d = B - n
  BY <1>2
<1>4. ASSUME NEW m \in S PROVE m <= n
  <2>1. B - n <= B - m
    BY <1>2, <1>3
  <2>2. m \in Nat /\ n \in Nat
    OBVIOUS
  <2> QED
    BY <2>1, <2>2
<1> QED
  BY <1>4

LEMMA LargerBounds ==
  ASSUME NEW x \in Nat, NEW y \in Nat
  PROVE  Larger(x, y) \in Nat /\ Larger(x, y) >= x /\ Larger(x, y) >= y
BY DEF Larger

\* Where the record with this many records before it starts.
At(i) == Stride * i

LEMMA Multiples ==
  /\ Stride \in Nat /\ Stride >= 1 /\ At(0) = 0
  /\ \A i \in Nat : /\ At(i) \in Nat /\ At(i + 1) = At(i) + Stride /\ i * Stride = At(i)
                    /\ At(i) \div Stride = i
<1>1. Stride \in Nat /\ Stride >= 1
  BY OpfsAssumption
<1>2. Stride * 0 = 0
  BY <1>1
<1>3. ASSUME NEW i \in Nat
      PROVE  /\ Stride * i \in Nat /\ Stride * (i + 1) = Stride * i + Stride
             /\ i * Stride = Stride * i
  BY <1>1
<1>4. ASSUME NEW i \in Nat PROVE (Stride * i) \div Stride = i
  BY <1>1, <1>3
<1> QED
  BY <1>1, <1>2, <1>3, <1>4 DEF At

LEMMA Further ==
  ASSUME NEW i \in Nat, NEW j \in Nat, i < j
  PROVE  At(i) + Stride <= At(j)
<1>1. Stride \in Nat /\ Stride >= 1
  BY OpfsAssumption
<1>2. PICK d \in Nat : j = i + 1 + d
  <2>1. j - i - 1 \in Nat /\ j = i + 1 + (j - i - 1)
    OBVIOUS
  <2> QED
    BY <2>1
<1>3. Stride * j = Stride * i + Stride + Stride * d
  BY <1>1, <1>2
<1>4. Stride * d \in Nat /\ Stride * i \in Nat
  BY <1>1
<1> QED
  BY <1>1, <1>3, <1>4 DEF At

LEMMA Nearer ==
  ASSUME NEW i \in Nat, NEW j \in Nat
  PROVE  /\ i <= j <=> At(i) <= At(j)
         /\ i < j <=> At(i) < At(j)
         /\ i = j <=> At(i) = At(j)
<1>1. Stride \in Nat /\ Stride >= 1 /\ At(i) \in Nat /\ At(j) \in Nat
  BY Multiples
<1>2. i < j => At(i) + Stride <= At(j)
  BY Further
<1>3. j < i => At(j) + Stride <= At(i)
  BY Further
<1> QED
  BY <1>1, <1>2, <1>3

LEMMA Within ==
  ASSUME NEW k \in Nat, NEW i \in 0 .. k - 1
  PROVE  /\ i \in Nat /\ Stride \in Nat /\ At(i) \in Nat /\ At(k) \in Nat
         /\ At(i) + Stride <= At(k)
<1>1. i \in Nat /\ i < k
  OBVIOUS
<1>2. At(i) + Stride <= At(k)
  BY <1>1, Further
<1>3. At(i) \in Nat /\ At(k) \in Nat /\ Stride \in Nat
  BY <1>1, Multiples
<1> QED
  BY <1>1, <1>2, <1>3

LEMMA NotBeyond ==
  ASSUME NEW k \in Nat, NEW j \in 0 .. k
  PROVE  At(j) \in Nat /\ At(k) \in Nat /\ At(j) <= At(k)
<1>1. j \in Nat /\ j <= k
  OBVIOUS
<1>2. At(j) <= At(k)
  BY <1>1, Nearer
<1>3. At(j) \in Nat /\ At(k) \in Nat
  BY <1>1, Multiples
<1> QED
  BY <1>2, <1>3

\* How many records a scan up to the limit tries to read.
Tried(limit) == (limit + Stride - 1) \div Stride

LEMMA TriedReaches ==
  ASSUME NEW limit \in Nat
  PROVE  Tried(limit) \in Nat /\ limit <= At(Tried(limit)) /\ At(Tried(limit)) < limit + Stride
<1> DEFINE x == limit + Stride - 1
           q == x \div Stride
<1>1. Stride \in Nat /\ Stride >= 1 /\ x \in Nat
  BY OpfsAssumption
<1> HIDE DEF x
<1>2. q \in Nat /\ Stride * q <= x /\ x < Stride * q + Stride
  <2>1. q \in Nat
    BY <1>1
  <2>2. x = Stride * q + (x % Stride) /\ x % Stride \in 0 .. Stride - 1
    BY <1>1
  <2>3. Stride * q \in Nat
    BY <1>1, <2>1
  <2> QED
    BY <1>1, <2>1, <2>2, <2>3
<1>3. q = Tried(limit) /\ Stride * q = At(q)
  BY DEF Tried, At, x
<1>4. At(q) \in Nat
  BY <1>2, Multiples
<1> HIDE DEF q
<1> QED
  BY <1>1, <1>2, <1>3, <1>4 DEF x

-----------------------------------------------------------------------------
(* Files. *)

IdxFile == Seq(IdxCell \union {Hole})
PayFile == Seq(PayCell \union {Hole})

LEMMA EntryTypes ==
  ASSUME NEW entry \in Entry
  PROVE  /\ entry.seq \in Nat /\ entry.ev \in Events
         /\ PayLen[entry.ev] \in Nat /\ PayLen[entry.ev] >= 1
BY OpfsAssumption DEF Entry

\* A write puts its cells where it is told to, and leaves what comes before.
LEMMA Writing ==
  ASSUME NEW S, Hole \in S, NEW f \in Seq(S), NEW p \in Nat, NEW cells \in Seq(S)
  PROVE  /\ WriteAt(f, p, cells) \in Seq(S)
         /\ Len(WriteAt(f, p, cells)) \in Nat
         /\ Len(WriteAt(f, p, cells)) >= Len(f)
         /\ Len(WriteAt(f, p, cells)) >= p + Len(cells)
         /\ \A i \in 1 .. Len(f) : i <= p => WriteAt(f, p, cells)[i] = f[i]
         /\ \A k \in 1 .. Len(cells) : WriteAt(f, p, cells)[p + k] = cells[k]
<1> DEFINE n == Larger(Len(f), p + Len(cells))
           w == [i \in 1 .. n |-> IF i > p /\ i <= p + Len(cells) THEN cells[i - p]
                                  ELSE IF i <= Len(f) THEN f[i] ELSE Hole]
<1>1. w = WriteAt(f, p, cells)
  BY DEF WriteAt
<1>2. n \in Nat /\ n >= Len(f) /\ n >= p + Len(cells) /\ Len(f) \in Nat /\ Len(cells) \in Nat
  BY DEF Larger
<1> HIDE DEF n
<1>3. ASSUME NEW i \in 1 .. n
      PROVE  (IF i > p /\ i <= p + Len(cells) THEN cells[i - p]
              ELSE IF i <= Len(f) THEN f[i] ELSE Hole) \in S
  <2>1. CASE i > p /\ i <= p + Len(cells)
    <3>1. i - p \in 1 .. Len(cells)
      BY <1>2, <2>1
    <3>2. cells[i - p] \in S
      BY <3>1
    <3> QED
      BY <2>1, <3>2
  <2>2. CASE ~(i > p /\ i <= p + Len(cells))
    <3>1. CASE i <= Len(f)
      <4>1. f[i] \in S
        BY <1>2, <3>1
      <4> QED
        BY <2>2, <3>1, <4>1
    <3>2. CASE ~(i <= Len(f))
      BY <2>2, <3>2
    <3> QED
      BY <3>1, <3>2
  <2> QED
    BY <2>1, <2>2
<1>4. w \in Seq(S) /\ Len(w) = n
  BY <1>2, <1>3
<1>5. \A i \in 1 .. Len(f) : i <= p => w[i] = f[i]
  BY <1>2
<1>6. ASSUME NEW k \in 1 .. Len(cells)
      PROVE  w[p + k] = cells[k]
  <2>1. p + k \in 1 .. n /\ p + k > p /\ p + k <= p + Len(cells) /\ p + k - p = k
    BY <1>2
  <2> QED
    BY <2>1
<1> HIDE DEF w
<1> QED
  BY <1>1, <1>2, <1>4, <1>5, <1>6

\* The cells of a payload and of a record, and what is left of them by a failed write.
LEMMA CellTypes ==
  ASSUME NEW entry \in Entry, NEW off \in Nat
  PROVE  /\ PayCells(entry) \in PayFile /\ Len(PayCells(entry)) = PayLen[entry.ev]
         /\ \A k \in 1 .. PayLen[entry.ev] : PayCells(entry)[k] = [entry |-> entry, part |-> k]
         /\ Record(entry, off) \in IdxFile /\ Len(Record(entry, off)) = Stride
         /\ \A k \in 1 .. Stride :
              Record(entry, off)[k] = [entry |-> entry, off |-> off, part |-> k]
         /\ \A cells \in Failed(PayCells(entry)) : cells \in PayFile
         /\ \A cells \in Failed(Record(entry, off)) : cells \in IdxFile
<1>1. PayLen[entry.ev] \in Nat /\ Stride \in Nat
  BY EntryTypes, OpfsAssumption
<1> DEFINE n == PayLen[entry.ev]
           p == [k \in 1 .. n |-> [entry |-> entry, part |-> k]]
           r == [k \in 1 .. Stride |-> [entry |-> entry, off |-> off, part |-> k]]
<1>2. PayCells(entry) = p /\ Record(entry, off) = r
  BY DEF PayCells, Record
<1>3. \A k \in 1 .. n : [entry |-> entry, part |-> k] \in PayCell
  BY <1>1 DEF PayCell
<1>4. \A k \in 1 .. Stride : [entry |-> entry, off |-> off, part |-> k] \in IdxCell
  BY <1>1 DEF IdxCell
<1> HIDE DEF n
<1>5. n \in Nat
  BY <1>1 DEF n
<1>6. p \in PayFile /\ Len(p) = n
  BY <1>3, <1>5 DEF PayFile
<1>7. r \in IdxFile /\ Len(r) = Stride
  BY <1>1, <1>4 DEF IdxFile
<1>8. \A k \in 1 .. n : p[k] = [entry |-> entry, part |-> k]
  OBVIOUS
<1>9. \A k \in 1 .. Stride : r[k] = [entry |-> entry, off |-> off, part |-> k]
  OBVIOUS
<1> HIDE DEF p, r
<1>10. ASSUME NEW cells \in Failed(p) PROVE cells \in PayFile
  <2>1. PICK k \in 0 .. Len(p) - 1 : cells = SubSeq(p, 1, k)
    BY DEF Failed
  <2> QED
    BY <1>5, <1>6, <2>1 DEF PayFile
<1>11. ASSUME NEW cells \in Failed(r) PROVE cells \in IdxFile
  <2>1. PICK k \in 0 .. Len(r) - 1 : cells = SubSeq(r, 1, k)
    BY DEF Failed
  <2> QED
    BY <1>1, <1>7, <2>1 DEF IdxFile
<1> QED
  BY <1>2, <1>6, <1>7, <1>8, <1>9, <1>10, <1>11 DEF n

\* The payload file up to a counter.
LEMMA PrefixTypes ==
  ASSUME NEW S, NEW f \in Seq(S), NEW n \in Nat, n <= Len(f)
  PROVE  /\ SubSeq(f, 1, n) \in Seq(S) /\ Len(SubSeq(f, 1, n)) = n
         /\ \A i \in 1 .. n : SubSeq(f, 1, n)[i] = f[i]
OBVIOUS

\* What can be read lies within the files.
LEMMA ReadableWithin ==
  ASSUME NEW f \in IdxFile, NEW g \in PayFile, NEW o \in Nat, Readable(f, g, o)
  PROVE  /\ o + Stride <= Len(f) /\ f[o + 1] \in IdxCell
         /\ f[o + 1].off \in Nat /\ f[o + 1].entry \in Entry
         /\ f[o + 1].off + PayLen[f[o + 1].entry.ev] <= Len(g)
         /\ EntryAt(f, g, o) \in Entry
<1>1. Len(f) \in Nat /\ Len(g) \in Nat /\ Stride \in Nat /\ Stride >= 1
  BY OpfsAssumption DEF IdxFile, PayFile
<1> DEFINE r == ReadAt(f, o, Stride)
<1>a. r[1] # Hole /\ r = Record(r[1].entry, r[1].off)
  BY DEF Readable, Decodes
<1>b. \A k \in 1 .. Stride : r[k] = IF o + k <= Len(f) THEN f[o + k] ELSE Hole
  BY DEF ReadAt
<1> HIDE DEF r
<1>2. o + 1 <= Len(f) /\ f[o + 1] # Hole /\ r[1] = f[o + 1]
  <2>1. r[1] = IF o + 1 <= Len(f) THEN f[o + 1] ELSE Hole
    BY <1>1, <1>b
  <2> QED
    BY <2>1, <1>a
<1>3. f[o + 1] \in IdxCell
  <2>1. o + 1 \in 1 .. Len(f)
    BY <1>1, <1>2
  <2>2. f[o + 1] \in IdxCell \union {Hole}
    BY <2>1 DEF IdxFile
  <2> QED
    BY <1>2, <2>2
<1>4. f[o + 1].off \in Nat /\ f[o + 1].entry \in Entry
  BY <1>3 DEF IdxCell
<1>c. o + Stride <= Len(f)
  <2>1. Record(r[1].entry, r[1].off)[Stride] \in IdxCell
    <3>1. Stride \in 1 .. Stride
      BY <1>1
    <3>2. Record(r[1].entry, r[1].off)[Stride] = [entry |-> r[1].entry, off |-> r[1].off, part |-> Stride]
      BY <3>1 DEF Record
    <3>3. r[1].entry \in Entry /\ r[1].off \in Nat
      BY <1>2, <1>4
    <3> QED
      BY <3>1, <3>2, <3>3 DEF IdxCell
  <2>2. r[Stride] # Hole
    BY <1>a, <2>1, HoleAssumption
  <2>3. r[Stride] = IF o + Stride <= Len(f) THEN f[o + Stride] ELSE Hole
    BY <1>1, <1>b
  <2> QED
    BY <2>2, <2>3
<1> DEFINE off == f[o + 1].off
           n == PayLen[f[o + 1].entry.ev]
           p == Pointed(f, g, o)
<1>5. n \in Nat /\ n >= 1
  BY <1>4, EntryTypes
<1>6. p = ReadAt(g, off, n) /\ p[1] # Hole /\ p = PayCells(p[1].entry)
  BY DEF Readable, Pointed
<1>7. \A k \in 1 .. n : p[k] = IF off + k <= Len(g) THEN g[off + k] ELSE Hole
  BY <1>6 DEF ReadAt
<1>8. DOMAIN p = 1 .. n
  BY <1>6 DEF ReadAt
<1>x. EntryAt(f, g, o) = p[1].entry
  BY DEF EntryAt
<1> HIDE DEF n, p, off
<1>9. p[1].entry \in Entry
  <2>1. off + 1 <= Len(g) /\ p[1] = g[off + 1]
    BY <1>5, <1>6, <1>7
  <2>2. off + 1 \in 1 .. Len(g)
    BY <1>1, <1>4, <2>1 DEF off
  <2>3. g[off + 1] \in PayCell \union {Hole}
    BY <2>2 DEF PayFile
  <2> QED
    BY <1>6, <2>1, <2>3 DEF PayCell
<1>10. off + n <= Len(g)
  <2> DEFINE l == PayLen[p[1].entry.ev]
  <2>1. l \in Nat /\ l >= 1
    BY <1>9, EntryTypes
  <2>2. p = [k \in 1 .. l |-> [entry |-> p[1].entry, part |-> k]]
    BY <1>6 DEF PayCells
  <2> HIDE DEF l
  <2>3. 1 .. l = 1 .. n
    BY <1>8, <2>2
  <2>4. n \in 1 .. l
    <3>1. n \in 1 .. n
      BY <1>5
    <3> QED
      BY <2>3, <3>1, Zenon
  <2>5. p[n] = [entry |-> p[1].entry, part |-> n]
    BY <2>2, <2>4
  <2>6. p[n] \in PayCell
    BY <1>5, <1>9, <2>5 DEF PayCell
  <2>7. p[n] # Hole
    BY <2>6, HoleAssumption
  <2> QED
    BY <1>5, <1>7, <2>7
<1> QED
  BY <1>3, <1>4, <1>9, <1>10, <1>c, <1>x DEF off, n

\* Two files agree on their first n cells.
Alike(f, f2, n) == n <= Len(f) /\ n <= Len(f2) /\ \A i \in 1 .. n : f2[i] = f[i]

\* What can be read can be read in any files that begin alike.
LEMMA ReadAlike ==
  ASSUME NEW f \in IdxFile, NEW f2 \in IdxFile, NEW g \in PayFile, NEW g2 \in PayFile,
         NEW o \in Nat, Readable(f, g, o), Alike(f, f2, o + Stride), Alike(g, g2, Len(g))
  PROVE  Readable(f2, g2, o) /\ EntryAt(f2, g2, o) = EntryAt(f, g, o)
<1>1. /\ Len(f) \in Nat /\ Len(g) \in Nat /\ Len(f2) \in Nat /\ Len(g2) \in Nat
      /\ Stride \in Nat /\ Stride >= 1
  BY OpfsAssumption DEF IdxFile, PayFile
<1>2. ReadAt(f2, o, Stride) = ReadAt(f, o, Stride) /\ f2[o + 1] = f[o + 1]
  <2>1. \A k \in 1 .. Stride : o + k \in 1 .. o + Stride /\ o + k <= Len(f) /\ o + k <= Len(f2)
    BY <1>1 DEF Alike
  <2>2. \A k \in 1 .. Stride : f2[o + k] = f[o + k]
    BY <2>1 DEF Alike
  <2>3. 1 \in 1 .. Stride
    BY <1>1
  <2> QED
    BY <2>1, <2>2, <2>3 DEF ReadAt
<1> DEFINE off == f[o + 1].off
           n == PayLen[f[o + 1].entry.ev]
<1>3. Pointed(f2, g2, o) = ReadAt(g2, off, n) /\ Pointed(f, g, o) = ReadAt(g, off, n)
  BY <1>2 DEF Pointed
<1>4. off \in Nat /\ n \in Nat /\ off + n <= Len(g)
  BY ReadableWithin, EntryTypes
<1> HIDE DEF off, n
<1>5. \A k \in 1 .. n : off + k \in 1 .. Len(g) /\ off + k <= Len(g) /\ off + k <= Len(g2)
  BY <1>1, <1>4 DEF Alike
<1>6. \A k \in 1 .. n : g2[off + k] = g[off + k]
  BY <1>5 DEF Alike
<1>7. Pointed(f2, g2, o) = Pointed(f, g, o)
  BY <1>3, <1>5, <1>6 DEF ReadAt
<1>8. Decodes(f2, o) <=> Decodes(f, o)
  BY <1>2 DEF Decodes
<1> QED
  BY <1>7, <1>8 DEF Readable, EntryAt

-----------------------------------------------------------------------------
(* Scans. *)

\* A scan ends behind so many records, which it can read; it cannot read the next one,
\* unless the limit does not lie beyond.
LEMMA ScanReach ==
  ASSUME NEW f, NEW g, NEW limit \in Nat
  PROVE  \E e \in 0 .. Tried(limit) :
           /\ ScanEnd(f, g, limit) = At(e)
           /\ \A i \in 0 .. e - 1 : Readable(f, g, At(i))
           /\ At(e) < limit => ~Readable(f, g, At(e))
<1> DEFINE bad == {o \in Offsets(limit) : ~Readable(f, g, o)}
           none == {i \in 0 .. Tried(limit) - 1 : ~Readable(f, g, At(i))}
<1>1. Tried(limit) \in Nat /\ limit <= At(Tried(limit)) /\ \A i \in Nat : At(i) \in Nat
  BY TriedReaches, Multiples
<1>2. ScanEnd(f, g, limit) = IF bad = {} THEN At(Tried(limit))
                             ELSE CHOOSE o \in bad : \A p \in bad : o <= p
  BY DEF ScanEnd, At, Tried
<1>3. bad = {At(i) : i \in none}
  <2>1. Offsets(limit) = {At(i) : i \in 0 .. Tried(limit) - 1}
    BY DEF Offsets, At, Tried
  <2> QED
    BY <2>1
<1>4. CASE none = {}
  <2>1. ScanEnd(f, g, limit) = At(Tried(limit))
    BY <1>2, <1>3, <1>4
  <2>2. \A i \in 0 .. Tried(limit) - 1 : Readable(f, g, At(i))
    BY <1>4
  <2>3. Tried(limit) \in 0 .. Tried(limit) /\ ~(At(Tried(limit)) < limit)
    BY <1>1
  <2> QED
    BY <2>1, <2>2, <2>3
<1>5. CASE none # {}
  <2>1. none \in SUBSET Nat
    OBVIOUS
  <2>2. PICK e \in none : \A i \in none : e <= i
    <3> HIDE DEF none
    <3> QED
      BY <1>5, <2>1, LeastNatural
  <2>3. e \in 0 .. Tried(limit) - 1 /\ ~Readable(f, g, At(e))
    OBVIOUS
  <2>4. At(e) \in bad /\ \A p \in bad : At(e) <= p
    <3>1. ASSUME NEW i \in none PROVE At(e) <= At(i)
      <4>1. e <= i /\ e \in Nat /\ i \in Nat
        BY <2>1, <2>2
      <4> QED
        BY <4>1, Nearer
    <3> HIDE DEF bad, none
    <3> QED
      BY <1>3, <3>1
  <2>5. bad \in SUBSET Nat
    <3> HIDE DEF bad
    <3> QED
      BY <1>1, <1>3, <2>1
  <2>6. ScanEnd(f, g, limit) = At(e)
    <3> DEFINE c == CHOOSE o \in bad : \A p \in bad : o <= p
    <3>1. c \in bad /\ \A p \in bad : c <= p
      <4> HIDE DEF bad
      <4> QED
        BY <2>4
    <3>2. bad # {} /\ ScanEnd(f, g, limit) = c
      BY <1>2, <2>4
    <3> HIDE DEF c, bad
    <3>3. c <= At(e) /\ At(e) <= c /\ c \in Nat /\ At(e) \in Nat
      BY <2>4, <2>5, <3>1
    <3> QED
      BY <3>2, <3>3
  <2>7. ASSUME NEW i \in 0 .. e - 1 PROVE Readable(f, g, At(i))
    <3>1. i \in 0 .. Tried(limit) - 1 /\ ~(e <= i)
      BY <1>1, <2>3
    <3>2. i \notin none
      <4> HIDE DEF none
      <4> QED
        BY <2>2, <3>1
    <3> QED
      BY <3>1, <3>2
  <2>8. e \in 0 .. Tried(limit)
    BY <1>1, <2>3
  <2> QED
    BY <2>3, <2>6, <2>7, <2>8
<1> QED
  BY <1>4, <1>5

\* What a scan that ends behind k records yields.
Found(f, g, k) == [i \in 1 .. k |-> [off |-> At(i - 1), entry |-> EntryAt(f, g, At(i - 1))]]

LEMMA ScanYields ==
  ASSUME NEW f, NEW g, NEW limit, NEW e \in Nat, ScanEnd(f, g, limit) = At(e)
  PROVE  Scan(f, g, limit) = Found(f, g, e)
<1>1. At(e) \div Stride = e
  BY Multiples
<1>2. \A i \in 1 .. e : (i - 1) * Stride = At(i - 1)
  <2>1. \A i \in 1 .. e : i - 1 \in Nat
    OBVIOUS
  <2> QED
    BY <2>1, Multiples
<1> QED
  BY <1>1, <1>2 DEF Scan, Found

LEMMA FoundTypes ==
  ASSUME NEW f \in IdxFile, NEW g \in PayFile, NEW e \in Nat,
         \A i \in 0 .. e - 1 : Readable(f, g, At(i))
  PROVE  Found(f, g, e) \in Seq(Located) /\ Len(Found(f, g, e)) = e
<1>1. ASSUME NEW i \in 1 .. e
      PROVE  [off |-> At(i - 1), entry |-> EntryAt(f, g, At(i - 1))] \in Located
  <2>1. i - 1 \in 0 .. e - 1 /\ i - 1 \in Nat
    OBVIOUS
  <2>2. At(i - 1) \in Nat /\ Readable(f, g, At(i - 1))
    BY <2>1, Multiples
  <2>3. EntryAt(f, g, At(i - 1)) \in Entry
    BY <2>2, ReadableWithin
  <2> QED
    BY <2>2, <2>3 DEF Located
<1>2. [i \in 1 .. e |-> [off |-> At(i - 1), entry |-> EntryAt(f, g, At(i - 1))]]
        \in [1 .. e -> Located]
  BY <1>1
<1> QED
  BY <1>2 DEF Found

\* A scan leaves the file and the limit as they are, or cuts both off where it ends.
LEMMA Leaving ==
  ASSUME NEW f, NEW g, NEW limit, NEW left \in ScanLeaves(f, g, limit), NEW end,
         ScanEnd(f, g, limit) = end
  PROVE  \/ Cuts(f, g, limit) /\ left = [file |-> SubSeq(f, 1, end), limit |-> end]
         \/ /\ left = [file |-> f, limit |-> limit]
            /\ Cuts(f, g, limit) => "truncate" \in Faults
<1> DEFINE cut == [file |-> SubSeq(f, 1, end), limit |-> end]
           as == [file |-> f, limit |-> limit]
<1>1. left \in (IF Cuts(f, g, limit) THEN {cut} ELSE {})
                \union (IF Cuts(f, g, limit) => "truncate" \in Faults THEN {as} ELSE {})
  BY DEF ScanLeaves
<1> HIDE DEF cut, as
<1>2. (Cuts(f, g, limit) /\ left = cut)
      \/ (left = as /\ (Cuts(f, g, limit) => "truncate" \in Faults))
  BY <1>1
<1> QED
  BY <1>2 DEF cut, as

LEMMA ScanTypes ==
  ASSUME NEW f \in IdxFile, NEW g \in PayFile, NEW limit \in Nat
  PROVE  /\ Scan(f, g, limit) \in Seq(Located)
         /\ \A left \in ScanLeaves(f, g, limit) : left.file \in IdxFile /\ left.limit \in Nat
<1>1. PICK e \in 0 .. Tried(limit) :
        ScanEnd(f, g, limit) = At(e) /\ \A i \in 0 .. e - 1 : Readable(f, g, At(i))
  BY ScanReach
<1>2. e \in Nat /\ At(e) \in Nat
  BY TriedReaches, Multiples
<1>3. Scan(f, g, limit) \in Seq(Located)
  BY <1>1, <1>2, ScanYields, FoundTypes
<1>4. Cuts(f, g, limit) => SubSeq(f, 1, At(e)) \in IdxFile
  <2>1. Cuts(f, g, limit) => At(e) <= Len(f)
    <3>1. Cuts(f, g, limit) => At(e) + Stride <= Len(f)
      BY <1>1 DEF Cuts
    <3>2. Len(f) \in Nat /\ Stride \in Nat
      BY OpfsAssumption DEF IdxFile
    <3> QED
      BY <1>2, <3>1, <3>2
  <2> QED
    BY <1>2, <2>1, PrefixTypes DEF IdxFile
<1>5. ASSUME NEW left \in ScanLeaves(f, g, limit)
      PROVE  left.file \in IdxFile /\ left.limit \in Nat
  <2>1. \/ Cuts(f, g, limit) /\ left = [file |-> SubSeq(f, 1, At(e)), limit |-> At(e)]
        \/ left = [file |-> f, limit |-> limit]
    BY <1>1, Leaving
  <2>2. CASE Cuts(f, g, limit) /\ left = [file |-> SubSeq(f, 1, At(e)), limit |-> At(e)]
    <3>1. left.file = SubSeq(f, 1, At(e)) /\ left.limit = At(e)
      BY <2>2
    <3> QED
      BY <1>2, <1>4, <2>2, <3>1
  <2>3. CASE left = [file |-> f, limit |-> limit]
    <3>1. left.file = f /\ left.limit = limit
      BY <2>3
    <3> QED
      BY <3>1
  <2> QED
    BY <2>1, <2>2, <2>3
<1> QED
  BY <1>3, <1>5

\* The seqs of a finite index are bounded.
LEMMA SeqsBounded ==
  ASSUME NEW s \in Seq(Located)
  PROVE  /\ Seqs(s) \in SUBSET Nat
         /\ \E B \in Nat : \A n \in Seqs(s) : n <= B
<1> DEFINE seq(i) == s[i].entry.seq
           Bounded(k) == \E B \in Nat : \A i \in 1 .. k : seq(i) <= B
           Unbounded == {k \in 0 .. Len(s) : ~Bounded(k)}
<1>1. Len(s) \in Nat /\ \A i \in 1 .. Len(s) : seq(i) \in Nat
  <2>1. \A i \in 1 .. Len(s) : s[i] \in Located
    OBVIOUS
  <2> QED
    BY <2>1 DEF Located, Entry
<1>2. Seqs(s) = {seq(i) : i \in 1 .. Len(s)}
  BY DEF Seqs, Elements
<1> HIDE DEF seq
<1>3. Unbounded = {}
  <2> SUFFICES ASSUME Unbounded # {} PROVE FALSE
    OBVIOUS
  <2>1. Unbounded \in SUBSET Nat
    OBVIOUS
  <2>2. PICK k \in Unbounded : \A j \in Unbounded : k <= j
    <3> HIDE DEF Unbounded
    <3> QED
      BY <2>1, LeastNatural
  <2>3. k \in 0 .. Len(s) /\ ~Bounded(k)
    OBVIOUS
  <2>4. k # 0
    <3>1. \A i \in 1 .. 0 : seq(i) <= 0
      OBVIOUS
    <3>2. Bounded(0)
      BY <3>1
    <3> QED
      BY <2>3, <3>2
  <2>5. Bounded(k - 1)
    <3>1. k - 1 \in 0 .. Len(s) /\ ~(k <= k - 1)
      BY <1>1, <2>3, <2>4
    <3> QED
      BY <2>2, <3>1
  <2>6. PICK B \in Nat : \A i \in 1 .. k - 1 : seq(i) <= B
    BY <2>5
  <2>7. seq(k) \in Nat
    BY <1>1, <2>3, <2>4
  <2>8. Larger(B, seq(k)) \in Nat /\ Larger(B, seq(k)) >= B /\ Larger(B, seq(k)) >= seq(k)
    BY <2>7, LargerBounds
  <2>9. ASSUME NEW i \in 1 .. k PROVE seq(i) <= Larger(B, seq(k))
    <3>1. CASE i = k
      BY <2>8, <3>1
    <3>2. CASE i # k
      <4>1. i \in 1 .. k - 1
        BY <3>2
      <4>2. i \in 1 .. Len(s)
        BY <1>1, <2>3
      <4>3. seq(i) \in Nat
        BY <1>1, <4>2
      <4>4. seq(i) <= B
        BY <2>6, <4>1
      <4>5. Larger(B, seq(k)) \in Nat /\ Larger(B, seq(k)) >= B
        BY <2>8
      <4> HIDE DEF Unbounded, Bounded
      <4> QED
        BY <4>3, <4>4, <4>5
    <3> QED
      BY <3>1, <3>2
  <2> QED
    BY <2>3, <2>8, <2>9
<1>4. Bounded(Len(s))
  <2>1. Len(s) \in 0 .. Len(s)
    BY <1>1
  <2> HIDE DEF Bounded
  <2> QED
    BY <1>3, <2>1
<1> QED
  BY <1>1, <1>2, <1>4

LEMMA SeqsTypes ==
  ASSUME NEW s \in Seq(Located)
  PROVE  MaxOf(Seqs(s)) \in Nat /\ Cardinality(Seqs(s)) \in Nat
<1>1. PICK B \in Nat : Seqs(s) \in SUBSET Nat /\ \A n \in Seqs(s) : n <= B
  BY SeqsBounded
<1>2. MaxOf(Seqs(s)) \in Nat
  <2>1. CASE Seqs(s) = {}
    BY <2>1 DEF MaxOf
  <2>2. CASE Seqs(s) # {}
    <3>1. \E n \in Seqs(s) : \A m \in Seqs(s) : m <= n
      BY <1>1, <2>2, GreatestBelow
    <3> QED
      BY <1>1, <2>2, <3>1 DEF MaxOf
  <2> QED
    BY <2>1, <2>2
<1>3. IsFiniteSet(Seqs(s))
  BY <1>1, FS_BoundedSetOfNaturals
<1> QED
  BY <1>2, <1>3, FS_CardinalityType

\* What is migrated of log.bin are entries.
LEMMA LegacyEntries == LegacyPrefix \in Seq(Entry)
<1> DEFINE bad == {i \in 1 .. Len(Legacy) : Legacy[i] = Hole}
           l == IF bad = {} THEN Len(Legacy) ELSE (CHOOSE i \in bad : \A j \in bad : i <= j) - 1
<1>1. Legacy \in Seq(Entry \union {Hole}) /\ Len(Legacy) \in Nat
  BY OpfsAssumption
<1>2. l \in 0 .. Len(Legacy) /\ \A i \in 1 .. l : i \notin bad
  <2>1. CASE bad = {}
    BY <1>1, <2>1
  <2>2. CASE bad # {}
    <3> DEFINE b == CHOOSE i \in bad : \A j \in bad : i <= j
    <3>1. bad \in SUBSET Nat
      BY <1>1
    <3>2. b \in bad /\ \A j \in bad : b <= j
      <4> HIDE DEF bad
      <4>1. \E i \in bad : \A j \in bad : i <= j
        BY <2>2, <3>1, LeastNatural
      <4> QED
        BY <4>1
    <3>3. b \in 1 .. Len(Legacy) /\ l = b - 1
      BY <2>2, <3>2
    <3> HIDE DEF b, l, bad
    <3>4. ASSUME NEW i \in 1 .. l PROVE i \notin bad
      <4>1. i \in Nat /\ ~(b <= i)
        BY <1>1, <3>3
      <4> QED
        BY <3>2, <4>1
    <3> QED
      BY <1>1, <3>3, <3>4
  <2> QED
    BY <2>1, <2>2
<1>3. LegacyPrefix = SubSeq(Legacy, 1, l)
  BY DEF LegacyPrefix
<1> HIDE DEF l
<1>4. \A i \in 1 .. l : Legacy[i] \in Entry
  <2>1. \A i \in 1 .. l : i \in 1 .. Len(Legacy)
    BY <1>1, <1>2
  <2>2. \A i \in 1 .. Len(Legacy) : Legacy[i] \in Entry \union {Hole}
    BY <1>1
  <2> QED
    BY <1>2, <2>1, <2>2
<1>5. SubSeq(Legacy, 1, l) = [i \in 1 .. l |-> Legacy[i]]
  BY <1>1, <1>2
<1>6. [i \in 1 .. l |-> Legacy[i]] \in Seq(Entry)
  BY <1>2, <1>4
<1> QED
  BY <1>3, <1>5, <1>6

-----------------------------------------------------------------------------
(* Types. *)

Appending == pc \in {"payload", "record", "flush"} => job.entry \in Entry

TypeInv == TypeOK /\ Appending

Migrated == LegacyPrefix[job.migrated + 1]

LEMMA MigratedTypes ==
  ASSUME TypeInv, MigrateRecord
  PROVE  /\ Migrated \in Entry
         /\ pay' = WriteAt(pay, log.payBytes, PayCells(Migrated))
         /\ idx' = WriteAt(idx, log.idxBytes, Record(Migrated, log.payBytes))
         /\ log' = Advanced(Migrated)
<1>1. job.migrated \in Nat /\ Len(LegacyPrefix) \in Nat /\ LegacyPrefix \in Seq(Entry)
  BY LegacyEntries DEF TypeInv, TypeOK
<1>2. job.migrated < Len(LegacyPrefix)
  BY DEF MigrateRecord
<1>3. job.migrated + 1 \in 1 .. Len(LegacyPrefix)
  BY <1>1, <1>2
<1> QED
  BY <1>1, <1>3 DEF MigrateRecord, Migrated

LEMMA InitTypes == Init => TypeInv
BY OpfsAssumption DEF Init, TypeInv, TypeOK, Appending, Open, Closed, NoJob, IdxCell, PayCell

LEMMA AdvancedTypes ==
  ASSUME TypeInv, NEW entry \in Entry
  PROVE  Advanced(entry) \in [idxBytes : Nat, payBytes : Nat]
<1>1. log.idxBytes \in Nat /\ log.payBytes \in Nat /\ Stride \in Nat /\ PayLen[entry.ev] \in Nat
  BY OpfsAssumption, EntryTypes DEF TypeInv, TypeOK
<1> QED
  BY <1>1 DEF Advanced

LEMMA StepTypes ==
  ASSUME TypeInv, [Next]_vars
  PROVE  TypeInv'
<1>0. Closed \in [idxBytes : Nat, payBytes : Nat] /\ NoJob \in [entry : Entry \union {Hole}, migrated : Nat]
  BY DEF Closed, NoJob
<1> USE DEF TypeInv, TypeOK, Appending, Open
<1>a. /\ given \in Nat /\ opens \in Nat /\ ckpt \in Nat /\ position \in Nat
      /\ log.idxBytes \in Nat /\ log.payBytes \in Nat /\ job.migrated \in Nat
      /\ job.entry \in Entry \union {Hole}
      /\ idx \in IdxFile /\ pay \in PayFile /\ Len(idx) \in Nat /\ Len(pay) \in Nat
  BY DEF IdxFile, PayFile
<1>b. log.idxBytes \in Nat /\ log.payBytes \in Nat /\ given \in Nat
  BY <1>a
<1> HIDE DEF TypeInv, TypeOK, Appending
<1>1. CASE StartMigration
  <2>1. idx' \in Seq(IdxCell \union {Hole}) /\ pay' \in Seq(PayCell \union {Hole})
    <3>1. idx' \in {<< >>, idx} /\ pay' \in {<< >>, pay}
      BY <1>1 DEF StartMigration, Truncated
    <3>2. << >> \in IdxFile /\ << >> \in PayFile
      BY DEF IdxFile, PayFile
    <3> QED
      BY <1>a, <3>1, <3>2 DEF IdxFile, PayFile
  <2>2. opens' \in Nat
    BY <1>a, <1>1 DEF StartMigration
  <2> QED
    BY TypeInv, <1>0, <1>1, <2>1, <2>2 DEF StartMigration, TypeInv, TypeOK, Appending
<1>2. CASE MigrateRecord
  <2>1. /\ Migrated \in Entry /\ log' = Advanced(Migrated)
        /\ pay' = WriteAt(pay, log.payBytes, PayCells(Migrated))
        /\ idx' = WriteAt(idx, log.idxBytes, Record(Migrated, log.payBytes))
    BY <1>2, MigratedTypes
  <2>3. PayCells(Migrated) \in PayFile /\ Record(Migrated, log.payBytes) \in IdxFile
    BY <1>a, <2>1, CellTypes
  <2>4. pay' \in PayFile /\ idx' \in IdxFile
    BY <1>a, <2>1, <2>3, Writing DEF PayFile, IdxFile
  <2>5. log' \in [idxBytes : Nat, payBytes : Nat]
    BY <2>1, AdvancedTypes
  <2>6. job' \in [entry : Entry \union {Hole}, migrated : Nat]
    <3>1. job \in [entry : Entry \union {Hole}, migrated : Nat]
      BY TypeInv DEF TypeInv, TypeOK
    <3>2. job' = [entry |-> job.entry, migrated |-> job.migrated + 1]
      BY <1>2, <3>1 DEF MigrateRecord
    <3> QED
      BY <1>a, <3>2
  <2> QED
    BY TypeInv, <1>2, <2>4, <2>5, <2>6 DEF MigrateRecord, PayFile, IdxFile, TypeInv, TypeOK, Appending
<1>3. CASE MigrationThrows
  BY TypeInv, <1>0, <1>3 DEF MigrationThrows, TypeInv, TypeOK, Appending
<1>4. CASE CommitMigration
  BY TypeInv, <1>0, <1>4 DEF CommitMigration, Unlinked, TypeInv, TypeOK, Appending
<1>5. CASE StartOpen
  <2>1. opens' \in Nat
    BY <1>a, <1>5 DEF StartOpen
  <2>2. legacy' \in BOOLEAN
    BY TypeInv, <1>5 DEF StartOpen, Unlinked, TypeInv, TypeOK
  <2>3. pc' = "opening" /\ UNCHANGED <<idx, pay, cache, ckpt, log, index, position, job, given, acked>>
    BY <1>5 DEF StartOpen
  <2>4. {ckpt', position', given', opens'} \subseteq Nat
    BY <1>a, TypeInv, <2>1, <2>3 DEF TypeInv, TypeOK
  <2>5. TypeOK'
    BY TypeInv, <2>2, <2>3, <2>4 DEF TypeInv, TypeOK
  <2> QED
    BY <2>3, <2>5 DEF TypeInv, Appending
<1>6. CASE FinishOpen
  <2>1. idx \in IdxFile /\ pay \in PayFile /\ Len(idx) \in Nat /\ Len(pay) \in Nat
    BY <1>a
  <2>4. /\ Scan(idx, pay, Len(idx)) \in Seq(Located)
        /\ \A left \in ScanLeaves(idx, pay, Len(idx)) : left.file \in IdxFile /\ left.limit \in Nat
    BY <2>1, ScanTypes
  <2>5. idx' \in IdxFile /\ log' \in [idxBytes : Nat, payBytes : Nat]
    <3>1. PICK left \in IF CacheHit THEN {[file |-> idx, limit |-> Len(idx)]}
                                    ELSE ScanLeaves(idx, pay, Len(idx)) :
            idx' = left.file /\ log' = [idxBytes |-> left.limit, payBytes |-> Len(pay)]
      BY <1>6 DEF FinishOpen
    <3>2. left.file \in IdxFile /\ left.limit \in Nat
      BY <2>1, <2>4, <3>1
    <3> QED
      BY <2>1, <3>1, <3>2
  <2>6. index' \in Seq(Located)
    <3>1. cache.entries \in Seq(Located)
      BY TypeInv DEF TypeInv, TypeOK
    <3> QED
      BY <1>6, <2>4, <3>1 DEF FinishOpen
  <2>7. position' \in Nat
    <3>1. MaxOf(Seqs(index')) \in Nat
      BY <2>6, SeqsTypes
    <3>2. position' = Larger(ckpt, MaxOf(Seqs(index')))
      BY <1>6 DEF FinishOpen, ReadyHead
    <3> QED
      BY <1>a, <3>1, <3>2, LargerBounds
  <2>8. given' \in Nat
    <3> DEFINE found == Scan(idx, pay, Len(idx))
    <3>1. MaxOf(Seqs(found)) \in Nat /\ Len(found) \in Nat
      BY <2>4, SeqsTypes
    <3>2. given' \in CountsFrom(found)
      BY <1>6 DEF FinishOpen
    <3> HIDE DEF found
    <3> QED
      BY <3>1, <3>2 DEF CountsFrom
  <2> QED
    BY TypeInv, <1>6, <2>5, <2>6, <2>7, <2>8 DEF FinishOpen, IdxFile, TypeInv, TypeOK, Appending
<1>7. ASSUME NEW e \in Events, NEW skip \in 0 .. MaxSkip, Request(e, given + skip + 1)
      PROVE  TypeInv'
  <2>1. given + skip + 1 \in Nat
    <3>1. skip \in Nat
      BY OpfsAssumption
    <3> QED
      BY <1>b, <3>1
  <2>2. [seq |-> given + skip + 1, ev |-> e] \in Entry
    BY <2>1 DEF Entry
  <2>3. job' = [job EXCEPT !.entry = [seq |-> given + skip + 1, ev |-> e]]
    BY <1>7 DEF Request
  <2>4. job' \in [entry : Entry \union {Hole}, migrated : Nat] /\ job'.entry \in Entry
    <3>1. job \in [entry : Entry \union {Hole}, migrated : Nat]
      BY TypeInv DEF TypeInv, TypeOK
    <3>2. job' = [entry |-> [seq |-> given + skip + 1, ev |-> e], migrated |-> job.migrated]
      BY <2>3, <3>1
    <3> QED
      BY <1>a, <2>2, <3>2
  <2>5. given' \in Nat
    BY <1>7, <2>1 DEF Request
  <2> QED
    BY TypeInv, <1>7, <2>4, <2>5 DEF Request, TypeInv, TypeOK, Appending
<1>8. CASE WritePayload
  <2>1. job.entry \in Entry
    BY TypeInv, <1>8 DEF WritePayload, TypeInv, Appending
  <2>2. PayCells(job.entry) \in PayFile /\ \A cells \in Failed(PayCells(job.entry)) : cells \in PayFile
    BY <1>a, <2>1, CellTypes
  <2>3. PICK cells \in PayFile : pay' = WriteAt(pay, log.payBytes, cells)
    BY <1>8, <2>2 DEF WritePayload
  <2>4. pay' \in PayFile
    BY <1>a, <2>3, Writing DEF PayFile
  <2>5. \/ pc' = "record" /\ job' = job
        \/ pc' = "ready" /\ job' = NoJob
    BY <1>8 DEF WritePayload, Reject
  <2> QED
    BY TypeInv, <1>0, <1>8, <2>1, <2>4, <2>5 DEF WritePayload, PayFile, TypeInv, TypeOK, Appending
<1>9. CASE WriteRecord
  <2>1. job.entry \in Entry
    BY TypeInv, <1>9 DEF WriteRecord, TypeInv, Appending
  <2> DEFINE r == Record(job.entry, log.payBytes)
  <2>2. r \in IdxFile /\ \A cells \in Failed(r) : cells \in IdxFile
    BY <1>a, <2>1, CellTypes
  <2>3. PICK cells \in IdxFile : idx' = WriteAt(idx, log.idxBytes, cells)
    BY <1>9, <2>2 DEF WriteRecord, RecordOffset
  <2>4. idx' \in IdxFile
    BY <1>a, <2>3, Writing DEF IdxFile
  <2>5. \/ pc' = "flush" /\ job' = job
        \/ pc' = "ready" /\ job' = NoJob
    BY <1>9 DEF WriteRecord, Reject
  <2> QED
    BY TypeInv, <1>0, <1>9, <2>1, <2>4, <2>5 DEF WriteRecord, IdxFile, TypeInv, TypeOK, Appending
<1>10. CASE Acknowledge
  <2>1. job.entry \in Entry /\ job.entry.seq \in Nat
    BY TypeInv, <1>10, EntryTypes DEF Acknowledge, TypeInv, Appending
  <2>2. log' \in [idxBytes : Nat, payBytes : Nat]
    BY <1>10, <2>1, AdvancedTypes DEF Acknowledge
  <2>3. index' \in Seq(Located)
    <3>1. [off |-> log.idxBytes, entry |-> job.entry] \in Located
      BY <1>a, <2>1 DEF Located
    <3> QED
      BY TypeInv, <1>10, <3>1 DEF Acknowledge, TypeInv, TypeOK
  <2>4. acked' \subseteq [off : Nat, entry : Entry, clean : BOOLEAN]
    <3>1. [off |-> log.idxBytes, entry |-> job.entry, clean |-> Clean]
             \in [off : Nat, entry : Entry, clean : BOOLEAN]
      <4>1. Clean \in BOOLEAN
        BY DEF Clean
      <4> QED
        BY <1>a, <2>1, <4>1
    <3>2. acked' = acked \union {[off |-> log.idxBytes, entry |-> job.entry, clean |-> Clean]}
      BY <1>10 DEF Acknowledge
    <3> QED
      BY TypeInv, <3>1, <3>2 DEF TypeInv, TypeOK
  <2>5. /\ pc' = "ready" /\ job' = NoJob /\ position' \in Nat
        /\ UNCHANGED <<legacy, idx, pay, cache, ckpt, given, opens>>
    BY <1>10, <2>1 DEF Acknowledge, Reject
  <2>6. {ckpt', position', given', opens'} \subseteq Nat
    BY TypeInv, <2>5 DEF TypeInv, TypeOK
  <2>7. TypeOK'
    BY TypeInv, <1>0, <2>2, <2>3, <2>4, <2>5, <2>6 DEF TypeInv, TypeOK
  <2> QED
    BY <2>5, <2>7 DEF TypeInv, Appending
<1>11. CASE FlushThrows
  BY TypeInv, <1>0, <1>11 DEF FlushThrows, Reject, TypeInv, TypeOK, Appending
<1>12. ASSUME NEW left \in ScanLeaves(idx, pay, log.idxBytes),
              idx' = left.file, log' = [log EXCEPT !.idxBytes = left.limit]
       PROVE  idx' \in IdxFile /\ log' \in [idxBytes : Nat, payBytes : Nat]
  <2>1. left.file \in IdxFile /\ left.limit \in Nat
    BY <1>a, ScanTypes
  <2>2. log \in [idxBytes : Nat, payBytes : Nat]
    BY TypeInv DEF TypeInv, TypeOK
  <2> QED
    BY <1>12, <2>1, <2>2
<1>13. CASE ScanRequest
  <2>1. idx' \in IdxFile /\ log' \in [idxBytes : Nat, payBytes : Nat]
    BY <1>12, <1>13 DEF ScanRequest
  <2> QED
    BY TypeInv, <1>13, <2>1 DEF ScanRequest, IdxFile, TypeInv, TypeOK, Appending
<1>14. CASE SaveInitCache
  <2>1. PICK left \in ScanLeaves(idx, pay, log.idxBytes) :
          /\ idx' = left.file /\ log' = [log EXCEPT !.idxBytes = left.limit]
          /\ cache' = CachePayload(Seqs(index), left.limit)
    BY <1>14 DEF SaveInitCache
  <2> DEFINE found == Scan(idx, pay, log.idxBytes)
             limit == left.limit
             card == Cardinality(Seqs(index))
             n == IF Len(found) < card THEN Len(found) ELSE card
             whole == Clean /\ Len(found) = card
  <2>2. found \in Seq(Located) /\ limit \in Nat /\ card \in Nat
    <3>1. index \in Seq(Located)
      BY TypeInv DEF TypeInv, TypeOK
    <3> QED
      BY <1>a, <3>1, ScanTypes, SeqsTypes
  <2>3. cache' = [size |-> limit + log.payBytes, bad |-> Len(found) < card,
                  entries |-> SubSeq(found, 1, n), whole |-> whole]
    BY <2>1 DEF CachePayload
  <2>4. whole \in BOOLEAN
    BY DEF Clean
  <2> HIDE DEF found, limit, card, whole
  <2>5. Len(found) \in Nat /\ limit + log.payBytes \in Int /\ n \in Nat /\ n <= Len(found)
    BY <1>b, <2>2
  <2> HIDE DEF n
  <2>6. SubSeq(found, 1, n) \in Seq(Located)
    BY <2>2, <2>5
  <2>7. cache' \in [size : Int, bad : BOOLEAN, entries : Seq(Located), whole : BOOLEAN]
    BY <2>3, <2>4, <2>5, <2>6
  <2>8. idx' \in IdxFile /\ log' \in [idxBytes : Nat, payBytes : Nat]
    BY <1>12, <2>1
  <2> QED
    BY TypeInv, <1>14, <2>7, <2>8 DEF SaveInitCache, IdxFile, TypeInv, TypeOK, Appending
<1>15. CASE SaveCheckpoint
  BY TypeInv, <1>15 DEF SaveCheckpoint, TypeInv, TypeOK, Appending
<1>16. CASE Kill
  BY TypeInv, <1>0, <1>16 DEF Kill, TypeInv, TypeOK, Appending
<1>17. CASE UNCHANGED vars
  BY TypeInv, <1>17 DEF vars, TypeInv, TypeOK, Appending
<1> QED
  BY <1>1, <1>2, <1>3, <1>4, <1>5, <1>6, <1>7, <1>8, <1>9, <1>10, <1>11, <1>13, <1>14,
     <1>15, <1>16, <1>17 DEF Next, Migrate, AppendRaw

\* The state of the log is of the types that TypeOK gives, whatever fails.
THEOREM OpfsTypeCorrect == Spec => []TypeOK
<1>1. Init => TypeInv
  BY InitTypes
<1>2. TypeInv /\ [Next]_vars => TypeInv'
  BY StepTypes
<1>3. TypeInv => TypeOK
  BY DEF TypeInv
<1> QED
  BY <1>1, <1>2, <1>3, PTL DEF Spec

-----------------------------------------------------------------------------
(* Records that are there for good. *)

\* The first k records can be read from the first m cells of the payload file.
Solid(f, g, k, m) ==
  /\ At(k) <= Len(f) /\ m <= Len(g)
  /\ \A i \in 0 .. k - 1 : Readable(f, SubSeq(g, 1, m), At(i))

LEMMA NothingSolid ==
  ASSUME NEW f \in IdxFile, NEW g \in PayFile
  PROVE  Solid(f, g, 0, 0)
<1>1. At(0) = 0
  BY Multiples
<1>2. Len(f) \in Nat /\ Len(g) \in Nat
  BY DEF IdxFile, PayFile
<1>3. \A i \in 0 .. 0 - 1 : FALSE
  OBVIOUS
<1>4. At(0) <= Len(f) /\ 0 <= Len(g)
  BY <1>1, <1>2
<1> QED
  BY <1>3, <1>4, Zenon DEF Solid

\* What comes behind the first k records, or behind m cells, does not matter to them.
LEMMA SolidStays ==
  ASSUME NEW f \in IdxFile, NEW f2 \in IdxFile, NEW g \in PayFile, NEW g2 \in PayFile,
         NEW k \in Nat, NEW m \in Nat, Solid(f, g, k, m), Alike(f, f2, At(k)), Alike(g, g2, m)
  PROVE  /\ Solid(f2, g2, k, m)
         /\ \A i \in 0 .. k - 1 : /\ Readable(f2, g2, At(i))
                                  /\ EntryAt(f2, g2, At(i)) = EntryAt(f, g, At(i))
         /\ Found(f2, g2, k) = Found(f, g, k)
<1> DEFINE h == SubSeq(g, 1, m)
           h2 == SubSeq(g2, 1, m)
<1>1. /\ h \in PayFile /\ Len(h) = m /\ h2 \in PayFile /\ Len(h2) = m
      /\ \A i \in 1 .. m : h[i] = g[i] /\ h2[i] = g[i] /\ g2[i] = g[i]
      /\ m <= Len(g) /\ m <= Len(g2)
  <2>1. m <= Len(g) /\ m <= Len(g2) /\ \A i \in 1 .. m : g2[i] = g[i]
    BY DEF Solid, Alike
  <2>2. /\ h \in PayFile /\ Len(h) = m /\ h2 \in PayFile /\ Len(h2) = m
        /\ \A i \in 1 .. m : h[i] = g[i] /\ h2[i] = g2[i]
    BY <2>1, PrefixTypes DEF PayFile
  <2> QED
    BY <2>1, <2>2
<1>2. \A i \in 0 .. k - 1 : Readable(f, h, At(i))
  BY DEF Solid
<1> HIDE DEF h, h2
<1>3. Alike(h, h2, Len(h)) /\ Alike(h, g2, Len(h)) /\ Alike(h, g, Len(h))
  BY <1>1 DEF Alike
<1>4. ASSUME NEW i \in 0 .. k - 1
      PROVE  /\ Readable(f2, h2, At(i)) /\ Readable(f2, g2, At(i))
             /\ EntryAt(f2, g2, At(i)) = EntryAt(f, g, At(i))
  <2>1. i \in Nat /\ At(i) \in Nat /\ At(i) + Stride <= At(k) /\ At(k) \in Nat /\ Stride \in Nat
    BY Within
  <2>2. Alike(f, f2, At(i) + Stride) /\ Alike(f, f, At(i) + Stride)
    <3>1. Len(f) \in Nat /\ Len(f2) \in Nat
      BY DEF IdxFile
    <3> QED
      BY <2>1, <3>1 DEF Alike
  <2>3. Readable(f, h, At(i))
    BY <1>2
  <2>4. Readable(f2, h2, At(i))
    BY <1>1, <1>3, <2>1, <2>2, <2>3, ReadAlike
  <2>5. Readable(f2, g2, At(i)) /\ EntryAt(f2, g2, At(i)) = EntryAt(f, h, At(i))
    BY <1>1, <1>3, <2>1, <2>2, <2>3, ReadAlike
  <2>6. EntryAt(f, g, At(i)) = EntryAt(f, h, At(i))
    BY <1>1, <1>3, <2>1, <2>2, <2>3, ReadAlike
  <2> QED
    BY <2>4, <2>5, <2>6
<1>5. Solid(f2, g2, k, m)
  <2>1. At(k) <= Len(f2)
    BY DEF Alike
  <2> QED
    BY <1>1, <1>4, <2>1 DEF Solid, h2
<1>6. Found(f2, g2, k) = Found(f, g, k)
  <2>1. \A i \in 1 .. k : i - 1 \in 0 .. k - 1
    OBVIOUS
  <2>2. \A i \in 1 .. k : EntryAt(f2, g2, At(i - 1)) = EntryAt(f, g, At(i - 1))
    BY <1>4, <2>1
  <2> QED
    BY <2>2 DEF Found
<1> QED
  BY <1>4, <1>5, <1>6

LEMMA SolidReadable ==
  ASSUME NEW f \in IdxFile, NEW g \in PayFile, NEW k \in Nat, NEW m \in Nat, Solid(f, g, k, m)
  PROVE  \A i \in 0 .. k - 1 : Readable(f, g, At(i))
<1>1. Alike(f, f, At(k)) /\ Alike(g, g, m)
  BY DEF Alike, Solid
<1> QED
  BY <1>1, SolidStays

\* A clean log is solid up to its counters.
LEMMA CleanSolid ==
  ASSUME NEW f \in IdxFile, NEW g \in PayFile, NEW n \in Nat, NEW m \in Nat, m <= Len(g),
         ScanEnd(f, SubSeq(g, 1, m), n) = n
  PROVE  \E e \in Nat : n = At(e) /\ Solid(f, g, e, m)
<1> DEFINE h == SubSeq(g, 1, m)
<1>1. PICK e \in 0 .. Tried(n) :
        ScanEnd(f, h, n) = At(e) /\ \A i \in 0 .. e - 1 : Readable(f, h, At(i))
  BY ScanReach
<1>2. e \in Nat /\ n = At(e)
  BY <1>1, TriedReaches
<1>3. At(e) <= Len(f)
  <2>1. CASE e = 0
    <3>1. At(0) = 0 /\ Len(f) \in Nat
      BY Multiples DEF IdxFile
    <3> QED
      BY <2>1, <3>1
  <2>2. CASE e # 0
    <3>1. e - 1 \in Nat /\ e - 1 \in 0 .. e - 1 /\ (e - 1) + 1 = e
      BY <1>2, <2>2
    <3>2. At(e - 1) \in Nat /\ At((e - 1) + 1) = At(e - 1) + Stride
      BY <3>1, Multiples
    <3>3. Readable(f, h, At(e - 1)) /\ h \in PayFile
      BY <1>1, <3>1, PrefixTypes DEF PayFile
    <3>4. At(e - 1) + Stride <= Len(f)
      BY <3>2, <3>3, ReadableWithin
    <3> QED
      BY <3>1, <3>2, <3>4
  <2> QED
    BY <2>1, <2>2
<1> QED
  BY <1>1, <1>2, <1>3 DEF Solid

\* A scan reads all that is solid below its limit, and no more if that is all.
LEMMA ScanBeyond ==
  ASSUME NEW f \in IdxFile, NEW g \in PayFile, NEW k \in Nat, NEW m \in Nat, Solid(f, g, k, m),
         NEW limit \in Nat, At(k) <= limit
  PROVE  \E e \in Nat : /\ k <= e /\ ScanEnd(f, g, limit) = At(e)
                        /\ \A i \in 0 .. e - 1 : Readable(f, g, At(i))
                        /\ limit = At(k) => e = k
<1>1. PICK e \in 0 .. Tried(limit) :
        /\ ScanEnd(f, g, limit) = At(e) /\ \A i \in 0 .. e - 1 : Readable(f, g, At(i))
        /\ At(e) < limit => ~Readable(f, g, At(e))
  BY ScanReach
<1>2. /\ e \in Nat /\ At(e) \in Nat /\ At(k) \in Nat /\ Tried(limit) \in Nat
      /\ limit <= At(Tried(limit)) /\ At(Tried(limit)) < limit + Stride
      /\ At(Tried(limit)) \in Nat /\ Stride \in Nat
  BY TriedReaches, Multiples
<1>3. k <= e
  <2> SUFFICES ASSUME e < k PROVE FALSE
    BY <1>2
  <2>1. At(e) + Stride <= At(k) /\ Stride >= 1
    BY <1>2, Further, Multiples
  <2>2. At(e) < limit
    BY <1>2, <2>1
  <2>3. e \in 0 .. k - 1
    BY <1>2
  <2>4. Readable(f, g, At(e))
    BY <2>3, SolidReadable
  <2> QED
    BY <1>1, <2>2, <2>4
<1>4. ASSUME limit = At(k) PROVE e = k
  <2>1. At(k + 1) = At(k) + Stride /\ k + 1 \in Nat
    BY Multiples
  <2>2. At(Tried(limit)) < At(k + 1)
    BY <1>2, <1>4, <2>1
  <2>3. Tried(limit) < k + 1
    BY <1>2, <2>1, <2>2, Nearer
  <2> QED
    BY <1>2, <1>3, <2>3
<1> QED
  BY <1>1, <1>2, <1>3, <1>4

\* What a scan cuts off lies behind what is solid.
LEMMA LeavesSolid ==
  ASSUME NEW f \in IdxFile, NEW g \in PayFile, NEW k \in Nat, NEW m \in Nat, Solid(f, g, k, m),
         NEW limit \in Nat, At(k) <= limit, NEW left \in ScanLeaves(f, g, limit)
  PROVE  Alike(f, left.file, At(k)) /\ At(k) <= left.limit
<1>1. PICK e \in Nat : k <= e /\ ScanEnd(f, g, limit) = At(e)
  BY ScanBeyond
<1>2. /\ At(k) \in Nat /\ At(e) \in Nat /\ At(k) <= At(e) /\ At(k) <= Len(f)
      /\ Len(f) \in Nat /\ Stride \in Nat
  <2>1. At(k) \in Nat /\ At(e) \in Nat /\ Stride \in Nat
    BY Multiples
  <2>2. At(k) <= At(e)
    BY <1>1, Nearer
  <2>3. At(k) <= Len(f) /\ Len(f) \in Nat
    BY DEF Solid, IdxFile
  <2> QED
    BY <2>1, <2>2, <2>3
<1>3. \/ Cuts(f, g, limit) /\ left = [file |-> SubSeq(f, 1, At(e)), limit |-> At(e)]
      \/ left = [file |-> f, limit |-> limit]
  BY <1>1, Leaving
<1>4. CASE Cuts(f, g, limit) /\ left = [file |-> SubSeq(f, 1, At(e)), limit |-> At(e)]
  <2>1. left.file = SubSeq(f, 1, At(e)) /\ left.limit = At(e)
    BY <1>4
  <2>2. At(e) <= Len(f)
    <3>1. At(e) + Stride <= Len(f)
      BY <1>1, <1>4 DEF Cuts
    <3> QED
      BY <1>2, <3>1
  <2>3. /\ Len(SubSeq(f, 1, At(e))) = At(e)
        /\ \A i \in 1 .. At(e) : SubSeq(f, 1, At(e))[i] = f[i]
    BY <1>2, <2>2, PrefixTypes DEF IdxFile
  <2> QED
    BY <1>2, <2>1, <2>3 DEF Alike
<1>5. CASE left = [file |-> f, limit |-> limit]
  <2>1. left.file = f /\ left.limit = limit
    BY <1>5
  <2> QED
    BY <1>2, <2>1 DEF Alike
<1> QED
  BY <1>3, <1>4, <1>5

\* A payload and a record that are in the files as a whole.
PayloadAt(g, m, entry) ==
  /\ m + PayLen[entry.ev] <= Len(g)
  /\ \A j \in 1 .. PayLen[entry.ev] : g[m + j] = [entry |-> entry, part |-> j]
RecordAt(f, n, entry, off) ==
  /\ n + Stride <= Len(f)
  /\ \A j \in 1 .. Stride : f[n + j] = [entry |-> entry, off |-> off, part |-> j]

LEMMA AppendedReadable ==
  ASSUME NEW f \in IdxFile, NEW g \in PayFile, NEW n \in Nat, NEW m \in Nat,
         NEW entry \in Entry, RecordAt(f, n, entry, m), PayloadAt(g, m, entry)
  PROVE  Readable(f, g, n) /\ EntryAt(f, g, n) = entry
<1> DEFINE l == PayLen[entry.ev]
<1>1. l \in Nat /\ l >= 1 /\ Stride \in Nat /\ Stride >= 1 /\ Len(f) \in Nat /\ Len(g) \in Nat
  BY EntryTypes, OpfsAssumption DEF IdxFile, PayFile
<1>2. ReadAt(f, n, Stride) = Record(entry, m)
  <2>1. \A j \in 1 .. Stride : /\ n + j <= Len(f)
                               /\ f[n + j] = [entry |-> entry, off |-> m, part |-> j]
    BY <1>1 DEF RecordAt
  <2> QED
    BY <2>1 DEF ReadAt, Record
<1>3. f[n + 1] = [entry |-> entry, off |-> m, part |-> 1]
  BY <1>1 DEF RecordAt
<1>4. Decodes(f, n)
  <2> DEFINE r == Record(entry, m)
  <2>1. r[1] = [entry |-> entry, off |-> m, part |-> 1]
    <3>1. 1 \in 1 .. Stride
      BY <1>1
    <3> QED
      BY <3>1 DEF Record
  <2>2. [entry |-> entry, off |-> m, part |-> 1] # Hole
    <3>1. 1 \in 1 .. Stride
      BY <1>1
    <3>2. [entry |-> entry, off |-> m, part |-> 1] \in IdxCell
      BY <3>1 DEF IdxCell
    <3> QED
      BY <3>2, HoleAssumption
  <2>3. r[1].entry = entry /\ r[1].off = m
    BY <2>1
  <2>4. r = Record(r[1].entry, r[1].off) /\ r[1] # Hole
    BY <2>1, <2>2, <2>3
  <2>5. ReadAt(f, n, Stride) = r
    BY <1>2
  <2> HIDE DEF r
  <2> QED
    BY <2>4, <2>5 DEF Decodes
<1>5. Pointed(f, g, n) = PayCells(entry)
  <2>1. Pointed(f, g, n) = ReadAt(g, m, l)
    BY <1>3 DEF Pointed
  <2>2. \A j \in 1 .. l : m + j <= Len(g) /\ g[m + j] = [entry |-> entry, part |-> j]
    BY <1>1 DEF PayloadAt
  <2>3. ReadAt(g, m, l) = [j \in 1 .. l |-> IF m + j <= Len(g) THEN g[m + j] ELSE Hole]
    BY DEF ReadAt
  <2>4. PayCells(entry) = [j \in 1 .. l |-> [entry |-> entry, part |-> j]]
    BY DEF PayCells
  <2> HIDE DEF l
  <2> QED
    BY <2>1, <2>2, <2>3, <2>4
<1> DEFINE p == PayCells(entry)
<1>6. p[1] = [entry |-> entry, part |-> 1]
  <2>1. 1 \in 1 .. l
    BY <1>1
  <2> QED
    BY <2>1 DEF PayCells
<1>7. p[1] # Hole /\ p[1].entry = entry
  <2>1. [entry |-> entry, part |-> 1] \in PayCell
    BY DEF PayCell
  <2> QED
    BY <1>6, <2>1, HoleAssumption
<1>8. p = PayCells(p[1].entry) /\ Pointed(f, g, n) = p
  BY <1>5, <1>7
<1> HIDE DEF p
<1> QED
  BY <1>4, <1>7, <1>8 DEF Readable, EntryAt

\* An append at the end of what is solid makes one record more of it.
LEMMA AppendedSolid ==
  ASSUME NEW f \in IdxFile, NEW g \in PayFile, NEW k \in Nat, NEW m \in Nat,
         NEW entry \in Entry, Solid(f, g, k, m),
         RecordAt(f, At(k), entry, m), PayloadAt(g, m, entry)
  PROVE  /\ Solid(f, g, k + 1, m + PayLen[entry.ev])
         /\ EntryAt(f, g, At(k)) = entry
<1> DEFINE m2 == m + PayLen[entry.ev]
           h == SubSeq(g, 1, m)
           h2 == SubSeq(g, 1, m2)
<1>1. /\ m2 \in Nat /\ m <= m2 /\ m2 <= Len(g) /\ m <= Len(g) /\ Len(g) \in Nat
      /\ At(k) \in Nat /\ At(k + 1) = At(k) + Stride /\ At(k) + Stride <= Len(f)
      /\ PayLen[entry.ev] \in Nat
  <2>1. PayLen[entry.ev] \in Nat
    BY EntryTypes
  <2>2. At(k) \in Nat /\ At(k + 1) = At(k) + Stride
    BY Multiples
  <2>3. At(k) + Stride <= Len(f) /\ m2 <= Len(g) /\ m <= Len(g) /\ Len(g) \in Nat
    BY DEF PayloadAt, RecordAt, PayFile, Solid
  <2> QED
    BY <2>1, <2>2, <2>3
<1>2. /\ h \in PayFile /\ Len(h) = m /\ h2 \in PayFile /\ Len(h2) = m2
      /\ \A i \in 1 .. m : h[i] = g[i]
      /\ \A i \in 1 .. m2 : h2[i] = g[i]
  <2> HIDE DEF m2
  <2> QED
    BY <1>1, PrefixTypes DEF PayFile
<1>3. EntryAt(f, g, At(k)) = entry
  BY <1>1, AppendedReadable
<1>4. PayloadAt(h2, m, entry)
  <2>1. \A j \in 1 .. PayLen[entry.ev] : m + j \in 1 .. m2 /\ g[m + j] = [entry |-> entry, part |-> j]
    BY <1>1 DEF PayloadAt
  <2>2. m + PayLen[entry.ev] <= Len(h2)
    BY <1>1, <1>2
  <2> HIDE DEF m2, h2
  <2>3. \A j \in 1 .. PayLen[entry.ev] : h2[m + j] = [entry |-> entry, part |-> j]
    BY <1>2, <2>1
  <2> QED
    BY <2>2, <2>3 DEF PayloadAt
<1>5. Readable(f, h2, At(k))
  BY <1>1, <1>2, <1>4, AppendedReadable
<1>6. ASSUME NEW i \in 0 .. k - 1 PROVE Readable(f, h2, At(i))
  <2>1. i \in Nat /\ At(i) \in Nat /\ At(i) + Stride <= At(k) /\ Stride \in Nat
    BY Within
  <2>2. Readable(f, h, At(i))
    BY DEF Solid
  <2> HIDE DEF h, h2, m2
  <2>3. Alike(f, f, At(i) + Stride)
    BY <1>1, <2>1 DEF Alike, IdxFile
  <2>4. Alike(h, h2, Len(h))
    <3>1. \A j \in 1 .. m : j \in 1 .. m2
      BY <1>1
    <3>2. Len(h) = m /\ m <= Len(h2)
      BY <1>1, <1>2
    <3>3. \A j \in 1 .. m : h2[j] = h[j]
      BY <1>2, <3>1
    <3>4. m <= Len(h)
      BY <3>2
    <3> QED
      BY <3>2, <3>3, <3>4, Zenon DEF Alike
  <2> QED
    BY <1>2, <2>1, <2>2, <2>3, <2>4, ReadAlike
<1>7. ASSUME NEW i \in 0 .. (k + 1) - 1 PROVE Readable(f, h2, At(i))
  <2>1. i = k \/ i \in 0 .. k - 1
    OBVIOUS
  <2> QED
    BY <1>5, <1>6, <2>1
<1> QED
  BY <1>1, <1>3, <1>7 DEF Solid

-----------------------------------------------------------------------------
(* The invariant. *)

\* log.bin is still to be migrated, so that whatever is in the files will be dropped.
Pending == legacy /\ Legacy # << >>

Kept(n) == \A i \in 1 .. n : EntryAt(idx, pay, At(i - 1)) = LegacyPrefix[i]

\* The first k records, with the first m cells of payload, are there for good.
Base(k, m) ==
  /\ Solid(idx, pay, k, m)
  /\ \A a \in CleanAcks : \E i \in 0 .. k - 1 :
       a.off = At(i) /\ a.entry = EntryAt(idx, pay, At(i))
  /\ cache.whole => /\ cache.size <= At(k) + m
                    /\ cache.size = At(k) + m => cache.entries = Found(idx, pay, k)
  /\ HasLegacy => Len(LegacyPrefix) <= k /\ Kept(Len(LegacyPrefix))

\* Whatever is written is written behind them.
Behind(k, m) == pc \in Open => At(k) <= log.idxBytes /\ m <= log.payBytes

HasBase == \E k, m \in Nat : Base(k, m) /\ Behind(k, m)

\* What an append has written so far.
JobSound ==
  /\ pc \in {"record", "flush"} => PayloadAt(pay, log.payBytes, job.entry)
  /\ pc = "flush" => RecordAt(idx, log.idxBytes, job.entry, log.payBytes)

\* What a migration has written so far.
MigratingSound ==
  pc = "migrating" =>
    /\ Pending
    /\ Solid(idx, pay, job.migrated, log.payBytes)
    /\ log.idxBytes = At(job.migrated)
    /\ job.migrated <= Len(LegacyPrefix) /\ Kept(job.migrated)

\* The payload counter does not point beyond its file.
PayloadWithin == pc \in Open => log.payBytes <= Len(pay)

\* Nothing was acknowledged, or cached, on a clean log.
Nothing == CleanAcks = {} /\ ~cache.whole

Lasting == (Pending => Nothing) /\ (~Pending => HasBase)

OpfsInv == TypeInv /\ JobSound /\ MigratingSound /\ PayloadWithin /\ Lasting

FileTypes ==
  /\ idx \in IdxFile /\ pay \in PayFile /\ Len(idx) \in Nat /\ Len(pay) \in Nat
  /\ log.idxBytes \in Nat /\ log.payBytes \in Nat

LEMMA Files ==
  ASSUME TypeInv
  PROVE  FileTypes
<1>1. /\ idx \in IdxFile /\ pay \in PayFile /\ log.idxBytes \in Nat /\ log.payBytes \in Nat
  BY DEF TypeInv, TypeOK, IdxFile, PayFile
<1> QED
  BY <1>1 DEF FileTypes, IdxFile, PayFile

LEMMA FilesNext ==
  ASSUME TypeInv'
  PROVE  FileTypes'
<1>1. /\ idx' \in IdxFile /\ pay' \in PayFile /\ log'.idxBytes \in Nat /\ log'.payBytes \in Nat
  BY DEF TypeInv, TypeOK, IdxFile, PayFile
<1> QED
  BY <1>1 DEF FileTypes, IdxFile, PayFile

\* An empty log.bin leaves nothing to keep.
LEMMA EmptyLegacy ==
  ASSUME Legacy = << >>
  PROVE  Len(LegacyPrefix) = 0
<1> DEFINE bad == {i \in 1 .. Len(Legacy) : Legacy[i] = Hole}
<1>1. bad = {} /\ Len(Legacy) = 0
  OBVIOUS
<1>2. LegacyPrefix = SubSeq(Legacy, 1, Len(Legacy))
  BY <1>1 DEF LegacyPrefix
<1> QED
  BY <1>1, <1>2

LEMMA NoBase ==
  ASSUME TypeInv, Nothing, HasLegacy => Legacy = << >>
  PROVE  Base(0, 0)
<1>1. Solid(idx, pay, 0, 0)
  BY Files, NothingSolid DEF FileTypes
<1>2. HasLegacy => Len(LegacyPrefix) <= 0 /\ Kept(Len(LegacyPrefix))
  <2>1. HasLegacy => Len(LegacyPrefix) = 0
    BY EmptyLegacy
  <2>2. Kept(0)
    BY DEF Kept
  <2> QED
    BY <2>1, <2>2
<1>3. CleanAcks = {} /\ ~cache.whole
  BY DEF Nothing
<1> QED
  BY <1>1, <1>2, <1>3 DEF Base

\* The base stays when the files agree on it.
LEMMA BaseStays ==
  ASSUME TypeInv, TypeInv', NEW k \in Nat, NEW m \in Nat, Base(k, m),
         Alike(idx, idx', At(k)), Alike(pay, pay', m),
         CleanAcks' = CleanAcks, cache' = cache \/ ~cache'.whole
  PROVE  Base(k, m)'
<1>1. FileTypes /\ FileTypes'
  BY Files, FilesNext
<1>2. Solid(idx, pay, k, m)
  BY DEF Base
<1>3. /\ Solid(idx', pay', k, m)
      /\ \A i \in 0 .. k - 1 : EntryAt(idx', pay', At(i)) = EntryAt(idx, pay, At(i))
      /\ Found(idx', pay', k) = Found(idx, pay, k)
  BY <1>1, <1>2, SolidStays DEF FileTypes
<1>4. ASSUME NEW a \in CleanAcks
      PROVE  \E i \in 0 .. k - 1 : a.off = At(i) /\ a.entry = EntryAt(idx', pay', At(i))
  BY <1>3 DEF Base
<1>5. cache'.whole => /\ cache'.size <= At(k) + m
                      /\ cache'.size = At(k) + m => cache'.entries = Found(idx', pay', k)
  BY <1>3 DEF Base
<1>6. HasLegacy => Len(LegacyPrefix) <= k /\ Kept(Len(LegacyPrefix))'
  <2>1. ASSUME HasLegacy, NEW i \in 1 .. Len(LegacyPrefix)
        PROVE  EntryAt(idx', pay', At(i - 1)) = LegacyPrefix[i]
    <3>1. Len(LegacyPrefix) <= k /\ Len(LegacyPrefix) \in Nat
      BY <2>1, LegacyEntries DEF Base
    <3>2. i - 1 \in 0 .. k - 1
      BY <3>1
    <3>3. EntryAt(idx, pay, At(i - 1)) = LegacyPrefix[i]
      BY <2>1 DEF Base, Kept
    <3> QED
      BY <1>3, <3>2, <3>3
  <2>2. HasLegacy => Len(LegacyPrefix) <= k
    BY DEF Base
  <2> QED
    BY <2>1, <2>2 DEF Kept
<1> QED
  BY <1>3, <1>4, <1>5, <1>6 DEF Base

\* A clean log is there for good up to its counters.
LEMMA CleanBase ==
  ASSUME TypeInv, PayloadWithin, Lasting, pc \in Open, Clean
  PROVE  \E e \in Nat : log.idxBytes = At(e) /\ Base(e, log.payBytes)
<1>1. FileTypes
  BY Files
<1>2. ~Pending /\ ScanEnd(idx, SubSeq(pay, 1, log.payBytes), log.idxBytes) = log.idxBytes
  BY DEF Clean, Pending
<1>3. PICK k, m \in Nat : Base(k, m) /\ Behind(k, m)
  BY <1>2 DEF Lasting, HasBase
<1>4. log.payBytes <= Len(pay) /\ At(k) <= log.idxBytes /\ m <= log.payBytes
  BY <1>3 DEF PayloadWithin, Behind
<1>5. PICK e \in Nat : log.idxBytes = At(e) /\ Solid(idx, pay, e, log.payBytes)
  BY <1>1, <1>2, <1>4, CleanSolid DEF FileTypes
<1>6. /\ k <= e /\ At(k) \in Nat /\ At(e) \in Nat
      /\ At(k) = At(e) => k = e
  <2>1. At(k) \in Nat /\ At(e) \in Nat
    BY Multiples
  <2>2. k <= e <=> At(k) <= At(e)
    BY Nearer
  <2>3. k = e <=> At(k) = At(e)
    BY Nearer
  <2> QED
    BY <1>4, <1>5, <2>1, <2>2, <2>3
<1>7. ASSUME NEW a \in CleanAcks
      PROVE  \E i \in 0 .. e - 1 : a.off = At(i) /\ a.entry = EntryAt(idx, pay, At(i))
  <2>1. PICK i \in 0 .. k - 1 : a.off = At(i) /\ a.entry = EntryAt(idx, pay, At(i))
    BY <1>3 DEF Base
  <2>2. i \in 0 .. e - 1
    BY <1>6
  <2> QED
    BY <2>1, <2>2
<1>8. ASSUME cache.whole
      PROVE  /\ cache.size <= At(e) + log.payBytes
             /\ cache.size = At(e) + log.payBytes => cache.entries = Found(idx, pay, e)
  <2>1. /\ cache.size <= At(k) + m
        /\ cache.size = At(k) + m => cache.entries = Found(idx, pay, k)
    BY <1>3, <1>8 DEF Base
  <2>2. cache.size \in Int /\ log.payBytes \in Nat
    BY <1>1 DEF TypeInv, TypeOK, FileTypes
  <2>3. At(k) <= At(e)
    BY <1>4, <1>5
  <2>4. cache.size <= At(e) + log.payBytes
    BY <1>4, <1>6, <2>1, <2>2, <2>3
  <2>5. cache.size = At(e) + log.payBytes => cache.size = At(k) + m /\ At(k) = At(e)
    BY <1>4, <1>6, <2>1, <2>2, <2>3
  <2>6. cache.size = At(e) + log.payBytes => cache.entries = Found(idx, pay, e)
    BY <1>6, <2>1, <2>5
  <2> QED
    BY <2>4, <2>6
<1>9. HasLegacy => Len(LegacyPrefix) <= e /\ Kept(Len(LegacyPrefix))
  <2>1. HasLegacy => Len(LegacyPrefix) <= k /\ Kept(Len(LegacyPrefix))
    BY <1>3 DEF Base
  <2>2. Len(LegacyPrefix) \in Nat
    BY LegacyEntries
  <2> QED
    BY <1>6, <2>1, <2>2
<1>10. Base(e, log.payBytes)
  BY <1>5, <1>7, <1>8, <1>9 DEF Base
<1> QED
  BY <1>5, <1>10

LEMMA InitInv == Init => OpfsInv
<1> SUFFICES ASSUME Init PROVE OpfsInv
  OBVIOUS
<1>1. TypeInv
  BY InitTypes
<1>2. pc = "closed" /\ acked = {} /\ ~cache.whole /\ legacy = HasLegacy
  BY DEF Init
<1>3. Nothing
  BY <1>2 DEF Nothing, CleanAcks
<1>4. ~Pending => HasBase
  <2> SUFFICES ASSUME ~Pending PROVE HasBase
    OBVIOUS
  <2>1. HasLegacy => Legacy = << >>
    BY <1>2 DEF Pending
  <2>2. Base(0, 0)
    BY <1>1, <1>3, <2>1, NoBase
  <2>3. Behind(0, 0)
    BY <1>2 DEF Behind, Open
  <2> QED
    BY <2>2, <2>3 DEF HasBase
<1> QED
  BY <1>1, <1>2, <1>3, <1>4 DEF OpfsInv, JobSound, MigratingSound, PayloadWithin, Lasting, Open

-----------------------------------------------------------------------------
(* Every step keeps the invariant. *)

LEMMA WritesBehind ==
  ASSUME NEW S, Hole \in S, NEW f \in Seq(S), NEW p \in Nat, NEW cells \in Seq(S),
         NEW n \in Nat, n <= Len(f), n <= p
  PROVE  Alike(f, WriteAt(f, p, cells), n)
<1>1. /\ Len(WriteAt(f, p, cells)) \in Nat /\ Len(WriteAt(f, p, cells)) >= Len(f)
      /\ \A i \in 1 .. Len(f) : i <= p => WriteAt(f, p, cells)[i] = f[i]
  BY Writing
<1>2. Len(f) \in Nat
  OBVIOUS
<1>3. \A i \in 1 .. n : i \in 1 .. Len(f) /\ i <= p
  BY <1>2
<1>4. n <= Len(WriteAt(f, p, cells))
  BY <1>1, <1>2
<1> QED
  BY <1>1, <1>3, <1>4 DEF Alike

LEMMA PayloadBehind ==
  ASSUME NEW g \in PayFile, NEW p \in Nat, NEW cells \in PayFile, NEW m \in Nat,
         m <= Len(g), m <= p
  PROVE  Alike(g, WriteAt(g, p, cells), m)
BY WritesBehind DEF PayFile

LEMMA RecordBehind ==
  ASSUME NEW f \in IdxFile, NEW p \in Nat, NEW cells \in IdxFile, NEW n \in Nat,
         n <= Len(f), n <= p
  PROVE  Alike(f, WriteAt(f, p, cells), n)
BY WritesBehind DEF IdxFile

LEMMA WrittenPayload ==
  ASSUME NEW g \in PayFile, NEW m \in Nat, NEW entry \in Entry
  PROVE  PayloadAt(WriteAt(g, m, PayCells(entry)), m, entry)
<1> DEFINE c == PayCells(entry)
           w == WriteAt(g, m, c)
<1>1. /\ c \in PayFile /\ Len(c) = PayLen[entry.ev]
      /\ \A k \in 1 .. PayLen[entry.ev] : c[k] = [entry |-> entry, part |-> k]
  BY CellTypes
<1> HIDE DEF c
<1>2. Len(w) >= m + Len(c) /\ \A k \in 1 .. Len(c) : w[m + k] = c[k]
  BY <1>1, Writing DEF PayFile
<1> HIDE DEF w
<1>3. PayloadAt(w, m, entry)
  BY <1>1, <1>2 DEF PayloadAt
<1> QED
  BY <1>3 DEF w, c

LEMMA WrittenRecord ==
  ASSUME NEW f \in IdxFile, NEW n \in Nat, NEW entry \in Entry, NEW off \in Nat
  PROVE  RecordAt(WriteAt(f, n, Record(entry, off)), n, entry, off)
<1> DEFINE c == Record(entry, off)
           w == WriteAt(f, n, c)
<1>1. /\ c \in IdxFile /\ Len(c) = Stride
      /\ \A k \in 1 .. Stride : c[k] = [entry |-> entry, off |-> off, part |-> k]
  BY CellTypes
<1> HIDE DEF c
<1>2. Len(w) >= n + Len(c) /\ \A k \in 1 .. Len(c) : w[n + k] = c[k]
  BY <1>1, Writing DEF IdxFile
<1> HIDE DEF w
<1>3. RecordAt(w, n, entry, off)
  BY <1>1, <1>2 DEF RecordAt
<1> QED
  BY <1>3 DEF w, c

\* A step that touches nothing of a base.
Spares(k, m) == Alike(idx, idx', At(k)) /\ Alike(pay, pay', m) /\ Behind(k, m)'

LEMMA LastingStays ==
  ASSUME TypeInv, TypeInv', Lasting, legacy' = legacy, CleanAcks' = CleanAcks,
         cache' = cache \/ ~cache'.whole,
         \A k, m \in Nat : ~Pending /\ Base(k, m) /\ Behind(k, m) => Spares(k, m)
  PROVE  Lasting'
<1>1. Pending' <=> Pending
  BY DEF Pending
<1>2. ASSUME Pending PROVE Nothing'
  BY <1>2 DEF Lasting, Nothing
<1>3. ASSUME ~Pending PROVE HasBase'
  <2>1. PICK k, m \in Nat : Base(k, m) /\ Behind(k, m)
    BY <1>3 DEF Lasting, HasBase
  <2>2. Spares(k, m)
    BY <1>3, <2>1
  <2>3. Base(k, m)'
    BY <2>1, <2>2, BaseStays DEF Spares
  <2> QED
    BY <2>2, <2>3 DEF HasBase, Spares
<1> QED
  BY <1>1, <1>2, <1>3 DEF Lasting

\* What a base says of the lengths.
LEMMA BaseLengths ==
  ASSUME TypeInv, NEW k \in Nat, NEW m \in Nat, Base(k, m)
  PROVE  /\ At(k) \in Nat /\ At(k) <= Len(idx) /\ m <= Len(pay)
         /\ Alike(idx, idx, At(k)) /\ Alike(pay, pay, m)
<1>1. At(k) \in Nat
  BY Multiples
<1>2. At(k) <= Len(idx) /\ m <= Len(pay)
  BY DEF Base, Solid
<1> QED
  BY <1>1, <1>2 DEF Alike

LEMMA StepMigrate ==
  ASSUME OpfsInv, TypeInv', Migrate
  PROVE  OpfsInv'
<1>1. TypeInv /\ FileTypes /\ FileTypes' /\ Lasting
  BY Files, FilesNext DEF OpfsInv
<1>2. CleanAcks' = CleanAcks /\ cache' = cache
  BY DEF Migrate, StartMigration, MigrateRecord, MigrationThrows, CommitMigration, CleanAcks
<1>3. pc \in {"closed", "migrating"} /\ pc' \in {"closed", "migrating", "opening"}
  BY DEF Migrate, StartMigration, MigrateRecord, MigrationThrows, CommitMigration
<1>4. JobSound' /\ PayloadWithin'
  BY <1>3 DEF JobSound, PayloadWithin, Open
<1>5. Pending /\ Nothing
  <2>1. pc = "migrating" \/ Pending
    BY DEF Migrate, StartMigration, MigrateRecord, MigrationThrows, CommitMigration, Pending
  <2> QED
    BY <1>1, <2>1 DEF OpfsInv, MigratingSound, Lasting
<1>6. legacy' = legacy => Lasting'
  BY <1>2, <1>5 DEF Lasting, Nothing, Pending
<1>7. CASE StartMigration
  <2>1. /\ legacy' = legacy /\ job'.migrated = 0 /\ log'.idxBytes = 0 /\ log'.payBytes = 0
    BY <1>7 DEF StartMigration, NoJob, Closed
  <2>2. Solid(idx', pay', 0, 0)
    BY <1>1, NothingSolid DEF FileTypes
  <2>3. Kept(0)' /\ 0 <= Len(LegacyPrefix) /\ At(0) = 0
    BY LegacyEntries, Multiples DEF Kept
  <2>4. Pending'
    BY <1>5, <2>1 DEF Pending
  <2>5. MigratingSound'
    BY <2>1, <2>2, <2>3, <2>4 DEF MigratingSound, Kept
  <2> QED
    BY <1>4, <1>6, <2>1, <2>5 DEF OpfsInv
<1>8. CASE MigrateRecord
  <2> DEFINE j == job.migrated
             m == log.payBytes
  <2>1. /\ pc = "migrating" /\ pc' = "migrating" /\ legacy' = legacy
        /\ job.migrated < Len(LegacyPrefix)
    BY <1>8 DEF MigrateRecord
  <2>2. job'.migrated = j + 1 /\ j \in Nat
    <3>1. job \in [entry : Entry \union {Hole}, migrated : Nat]
      BY <1>1 DEF TypeInv, TypeOK
    <3>2. job' = [job EXCEPT !.migrated = @ + 1]
      BY <1>8 DEF MigrateRecord
    <3> QED
      BY <3>1, <3>2
  <2>3. /\ Migrated \in Entry /\ log' = Advanced(Migrated)
        /\ pay' = WriteAt(pay, m, PayCells(Migrated))
        /\ idx' = WriteAt(idx, log.idxBytes, Record(Migrated, m))
    BY <1>1, <1>8, MigratedTypes
  <2>4. Solid(idx, pay, j, m) /\ log.idxBytes = At(j) /\ Kept(j)
    BY <2>1 DEF OpfsInv, MigratingSound
  <2>5. /\ At(j) \in Nat /\ m \in Nat /\ At(j) <= Len(idx) /\ m <= Len(pay)
        /\ At(j + 1) = At(j) + Stride
    <3>1. At(j) \in Nat /\ At(j + 1) = At(j) + Stride
      BY <2>2, Multiples
    <3>2. At(j) <= Len(idx) /\ m <= Len(pay)
      BY <2>4 DEF Solid
    <3> QED
      BY <1>1, <3>1, <3>2 DEF FileTypes
  <2>6. PayCells(Migrated) \in PayFile /\ Record(Migrated, m) \in IdxFile
    BY <2>3, <2>5, CellTypes
  <2>7. Alike(idx, idx', At(j)) /\ Alike(pay, pay', m)
    BY <1>1, <2>3, <2>4, <2>5, <2>6, PayloadBehind, RecordBehind DEF FileTypes
  <2>8. /\ Solid(idx', pay', j, m)
        /\ \A i \in 0 .. j - 1 : EntryAt(idx', pay', At(i)) = EntryAt(idx, pay, At(i))
    BY <1>1, <2>2, <2>4, <2>5, <2>7, SolidStays DEF FileTypes
  <2>9. RecordAt(idx', At(j), Migrated, m) /\ PayloadAt(pay', m, Migrated)
    BY <1>1, <2>3, <2>4, <2>5, WrittenPayload, WrittenRecord DEF FileTypes
  <2>10. Solid(idx', pay', j + 1, m + PayLen[Migrated.ev]) /\ EntryAt(idx', pay', At(j)) = Migrated
    BY <1>1, <2>2, <2>3, <2>5, <2>8, <2>9, AppendedSolid DEF FileTypes
  <2>11. Solid(idx', pay', job'.migrated, log'.payBytes) /\ log'.idxBytes = At(job'.migrated)
    <3>1. log'.payBytes = m + PayLen[Migrated.ev] /\ log'.idxBytes = At(j) + Stride
      BY <2>3, <2>4 DEF Advanced
    <3> QED
      BY <2>2, <2>5, <2>10, <3>1
  <2>12. ASSUME NEW i \in 1 .. j + 1 PROVE EntryAt(idx', pay', At(i - 1)) = LegacyPrefix[i]
    <3>1. CASE i = j + 1
      <4>1. At(i - 1) = At(j) /\ LegacyPrefix[i] = Migrated
        BY <2>2, <3>1 DEF Migrated
      <4> QED
        BY <2>10, <4>1
    <3>2. CASE i # j + 1
      <4>1. i \in 1 .. j /\ i - 1 \in 0 .. j - 1
        BY <2>2, <3>2
      <4>2. EntryAt(idx, pay, At(i - 1)) = LegacyPrefix[i]
        BY <2>4, <4>1 DEF Kept
      <4> QED
        BY <2>8, <4>1, <4>2
    <3> QED
      BY <3>1, <3>2
  <2>13. Kept(job.migrated)'
    BY <2>2, <2>12 DEF Kept
  <2>14. job'.migrated <= Len(LegacyPrefix)
    <3>1. Len(LegacyPrefix) \in Nat
      BY LegacyEntries
    <3> QED
      BY <2>1, <2>2, <3>1
  <2>15. Pending'
    BY <1>5, <2>1 DEF Pending
  <2>16. MigratingSound'
    BY <2>11, <2>13, <2>14, <2>15 DEF MigratingSound
  <2> QED
    BY <1>4, <1>6, <2>1, <2>16 DEF OpfsInv
<1>9. CASE MigrationThrows
  <2>1. pc' = "closed" /\ legacy' = legacy
    BY <1>9 DEF MigrationThrows
  <2>2. MigratingSound'
    BY <2>1 DEF MigratingSound
  <2> QED
    BY <1>4, <1>6, <2>1, <2>2 DEF OpfsInv
<1>10. CASE CommitMigration
  <2> DEFINE j == job.migrated
  <2>1. /\ pc = "migrating" /\ pc' = "opening" /\ j = Len(LegacyPrefix)
        /\ UNCHANGED <<idx, pay, cache, acked>>
    BY <1>10 DEF CommitMigration, MigrationDone
  <2>2. MigratingSound'
    BY <2>1 DEF MigratingSound
  <2>3. j \in Nat /\ log.payBytes \in Nat
    BY <1>1 DEF TypeInv, TypeOK
  <2>4. Solid(idx, pay, j, log.payBytes) /\ Kept(j)
    BY <2>1 DEF OpfsInv, MigratingSound
  <2>5. Base(j, log.payBytes)
    <3>1. HasLegacy => Len(LegacyPrefix) <= j /\ Kept(Len(LegacyPrefix))
      BY <2>1, <2>3, <2>4
    <3> QED
      BY <1>5, <2>4, <3>1 DEF Base, Nothing
  <2>6. Alike(idx, idx', At(j)) /\ Alike(pay, pay', log.payBytes)
    BY <1>1, <2>1, <2>3, <2>5, BaseLengths
  <2>8. PICK mm \in Nat : mm = log.payBytes
    BY <2>3
  <2>9. PICK jj \in Nat : jj = j
    BY <2>3
  <2>10. Base(jj, mm) /\ Alike(idx, idx', At(jj)) /\ Alike(pay, pay', mm)
    BY <2>5, <2>6, <2>8, <2>9
  <2>11. Base(jj, mm)'
    BY <1>1, <1>2, <2>10, BaseStays
  <2>12. Behind(jj, mm)'
    BY <2>1 DEF Behind, Open
  <2>13. HasBase' /\ Nothing'
    BY <1>2, <1>5, <2>11, <2>12 DEF HasBase, Nothing
  <2> QED
    BY <1>4, <2>2, <2>13 DEF OpfsInv, Lasting
<1> QED
  BY <1>7, <1>8, <1>9, <1>10 DEF Migrate

LEMMA StepQuiet ==
  ASSUME OpfsInv, TypeInv', UNCHANGED <<legacy, idx, pay, cache, acked>>,
         pc' \in Open => pc \in Open /\ log' = log
  PROVE  Lasting' /\ PayloadWithin'
<1>1. TypeInv /\ Lasting /\ PayloadWithin
  BY DEF OpfsInv
<1>2. CleanAcks' = CleanAcks
  BY DEF CleanAcks
<1>3. ASSUME NEW k \in Nat, NEW m \in Nat, Base(k, m), Behind(k, m) PROVE Spares(k, m)
  <2>1. Alike(idx, idx', At(k)) /\ Alike(pay, pay', m)
    BY <1>1, <1>3, BaseLengths
  <2>2. Behind(k, m)'
    BY <1>3 DEF Behind
  <2> QED
    BY <2>1, <2>2 DEF Spares
<1>4. Lasting'
  BY <1>1, <1>2, <1>3, LastingStays
<1>5. PayloadWithin'
  BY <1>1 DEF PayloadWithin
<1> QED
  BY <1>4, <1>5

LEMMA StepStartOpen ==
  ASSUME OpfsInv, TypeInv', StartOpen
  PROVE  OpfsInv'
<1>1. TypeInv /\ Lasting /\ ~Pending
  BY DEF OpfsInv, StartOpen, Pending
<1>2. ~Pending' /\ pc' = "opening" /\ UNCHANGED <<idx, pay, cache, acked>>
  BY <1>1 DEF StartOpen, Unlinked, Pending
<1>3. CleanAcks' = CleanAcks
  BY <1>2 DEF CleanAcks
<1>4. PICK k, m \in Nat : Base(k, m)
  BY <1>1 DEF Lasting, HasBase
<1>5. Alike(idx, idx', At(k)) /\ Alike(pay, pay', m)
  BY <1>1, <1>2, <1>4, BaseLengths
<1>6. Base(k, m)'
  BY <1>1, <1>2, <1>3, <1>4, <1>5, BaseStays
<1>7. Behind(k, m)'
  BY <1>2 DEF Behind, Open
<1>8. Lasting'
  BY <1>2, <1>6, <1>7 DEF Lasting, HasBase
<1> QED
  BY <1>2, <1>8 DEF OpfsInv, JobSound, MigratingSound, PayloadWithin, Open

LEMMA StepFinishOpen ==
  ASSUME OpfsInv, TypeInv', FinishOpen
  PROVE  OpfsInv'
<1>1. TypeInv /\ Lasting /\ FileTypes
  BY Files DEF OpfsInv
<1>2. pc' = "ready" /\ UNCHANGED <<legacy, pay, cache, acked>>
  BY DEF FinishOpen
<1>3. CleanAcks' = CleanAcks
  BY <1>2 DEF CleanAcks
<1>4. PICK left \in IF CacheHit THEN {[file |-> idx, limit |-> Len(idx)]}
                                ELSE ScanLeaves(idx, pay, Len(idx)) :
        idx' = left.file /\ log' = [idxBytes |-> left.limit, payBytes |-> Len(pay)]
  BY DEF FinishOpen
<1>5. log'.idxBytes = left.limit /\ log'.payBytes = Len(pay)
  BY <1>4
<1>6. ASSUME NEW k \in Nat, NEW m \in Nat, Base(k, m) PROVE Spares(k, m)
  <2>1. /\ At(k) <= Len(idx) /\ m <= Len(pay) /\ Solid(idx, pay, k, m)
        /\ Alike(idx, idx, At(k)) /\ Alike(pay, pay', m)
    BY <1>1, <1>2, <1>6, BaseLengths DEF Base
  <2>2. Alike(idx, left.file, At(k)) /\ At(k) <= left.limit
    <3>1. CASE CacheHit
      <4>1. left.file = idx /\ left.limit = Len(idx)
        BY <1>4, <3>1
      <4> QED
        BY <2>1, <4>1
    <3>2. CASE ~CacheHit
      <4>1. left \in ScanLeaves(idx, pay, Len(idx))
        BY <1>4, <3>2
      <4> QED
        BY <1>1, <2>1, <4>1, LeavesSolid DEF FileTypes
    <3> QED
      BY <3>1, <3>2
  <2>3. Behind(k, m)'
    BY <1>5, <2>1, <2>2 DEF Behind
  <2> QED
    BY <1>4, <2>1, <2>2, <2>3 DEF Spares
<1>7. Lasting'
  BY <1>1, <1>2, <1>3, <1>6, LastingStays
<1>8. PayloadWithin'
  <2>1. Len(pay) \in Nat /\ pay' = pay
    BY <1>1, <1>2 DEF FileTypes
  <2> QED
    BY <1>5, <2>1 DEF PayloadWithin
<1> QED
  BY <1>2, <1>7, <1>8 DEF OpfsInv, JobSound, MigratingSound

LEMMA StepWritePayload ==
  ASSUME OpfsInv, TypeInv', WritePayload
  PROVE  OpfsInv'
<1>1. TypeInv /\ Lasting /\ PayloadWithin /\ FileTypes /\ FileTypes'
  BY Files, FilesNext DEF OpfsInv
<1>2. /\ pc = "payload" /\ pc' \in {"record", "ready"} /\ pc \in Open
      /\ UNCHANGED <<legacy, idx, cache, log, acked>>
  BY DEF WritePayload, Reject, Open
<1>3. CleanAcks' = CleanAcks
  BY <1>2 DEF CleanAcks
<1>4. job.entry \in Entry
  BY <1>1, <1>2 DEF TypeInv, Appending
<1>5. PICK cells \in PayFile : pay' = WriteAt(pay, log.payBytes, cells)
  <2>1. PayCells(job.entry) \in PayFile /\ \A c \in Failed(PayCells(job.entry)) : c \in PayFile
    BY <1>4, CellTypes, 0 \in Nat
  <2> QED
    BY <2>1 DEF WritePayload
<1>6. ASSUME NEW k \in Nat, NEW m \in Nat, Base(k, m), Behind(k, m) PROVE Spares(k, m)
  <2>1. m <= Len(pay) /\ Alike(idx, idx', At(k)) /\ m <= log.payBytes
    BY <1>1, <1>2, <1>6, BaseLengths DEF Behind
  <2>2. Alike(pay, pay', m)
    BY <1>1, <1>5, <2>1, PayloadBehind DEF FileTypes
  <2>3. Behind(k, m)'
    BY <1>2, <1>6 DEF Behind
  <2> QED
    BY <2>1, <2>2, <2>3 DEF Spares
<1>7. Lasting'
  BY <1>1, <1>2, <1>3, <1>6, LastingStays
<1>8. PayloadWithin'
  <2>1. log.payBytes <= Len(pay)
    BY <1>1, <1>2 DEF PayloadWithin
  <2>2. Alike(pay, pay', log.payBytes)
    BY <1>1, <1>5, <2>1, PayloadBehind DEF FileTypes
  <2> QED
    BY <1>2, <2>2 DEF PayloadWithin, Alike
<1>9. JobSound'
  <2>1. ASSUME pc' = "record" PROVE PayloadAt(pay', log.payBytes, job.entry) /\ job' = job
    <3>1. pay' = WriteAt(pay, log.payBytes, PayCells(job.entry)) /\ job' = job
      BY <2>1 DEF WritePayload, Reject
    <3> QED
      BY <1>1, <1>4, <3>1, WrittenPayload DEF FileTypes
  <2> QED
    BY <1>2, <2>1 DEF JobSound
<1> QED
  BY <1>2, <1>7, <1>8, <1>9 DEF OpfsInv, MigratingSound

LEMMA StepWriteRecord ==
  ASSUME OpfsInv, TypeInv', WriteRecord
  PROVE  OpfsInv'
<1>1. TypeInv /\ Lasting /\ PayloadWithin /\ FileTypes /\ FileTypes'
  BY Files, FilesNext DEF OpfsInv
<1>2. /\ pc = "record" /\ pc' \in {"flush", "ready"} /\ pc \in Open
      /\ UNCHANGED <<legacy, pay, cache, log, acked>>
  BY DEF WriteRecord, Reject, Open
<1>3. CleanAcks' = CleanAcks
  BY <1>2 DEF CleanAcks
<1>4. job.entry \in Entry
  BY <1>1, <1>2 DEF TypeInv, Appending
<1>5. PICK cells \in IdxFile : idx' = WriteAt(idx, log.idxBytes, cells)
  <2>1. log.payBytes \in Nat
    BY <1>1 DEF FileTypes
  <2>2. /\ Record(job.entry, log.payBytes) \in IdxFile
        /\ \A c \in Failed(Record(job.entry, log.payBytes)) : c \in IdxFile
    BY <1>4, <2>1, CellTypes
  <2> QED
    BY <2>2 DEF WriteRecord, RecordOffset
<1>6. ASSUME NEW k \in Nat, NEW m \in Nat, Base(k, m), Behind(k, m) PROVE Spares(k, m)
  <2>1. /\ At(k) \in Nat /\ At(k) <= Len(idx) /\ Alike(pay, pay', m) /\ At(k) <= log.idxBytes
    BY <1>1, <1>2, <1>6, BaseLengths DEF Behind
  <2>2. Alike(idx, idx', At(k))
    BY <1>1, <1>5, <2>1, RecordBehind DEF FileTypes
  <2>3. Behind(k, m)'
    BY <1>2, <1>6 DEF Behind
  <2> QED
    BY <2>1, <2>2, <2>3 DEF Spares
<1>7. Lasting'
  BY <1>1, <1>2, <1>3, <1>6, LastingStays
<1>8. PayloadWithin'
  BY <1>1, <1>2 DEF PayloadWithin
<1>9. JobSound'
  <2>1. PayloadAt(pay, log.payBytes, job.entry)
    BY <1>2 DEF OpfsInv, JobSound
  <2>2. ASSUME pc' = "flush"
        PROVE  RecordAt(idx', log.idxBytes, job.entry, log.payBytes) /\ job' = job
    <3>1. /\ idx' = WriteAt(idx, log.idxBytes, Record(job.entry, log.payBytes))
          /\ job' = job
      BY <2>2 DEF WriteRecord, Reject, RecordOffset
    <3> QED
      BY <1>1, <1>4, <3>1, WrittenRecord DEF FileTypes
  <2> QED
    BY <1>2, <2>1, <2>2 DEF JobSound
<1> QED
  BY <1>2, <1>7, <1>8, <1>9 DEF OpfsInv, MigratingSound

\* What an acknowledgement makes of a clean log.
LEMMA CleanAppend ==
  ASSUME OpfsInv, Acknowledge, NEW e \in Nat, log.idxBytes = At(e), Base(e, log.payBytes)
  PROVE  /\ Solid(idx, pay, e + 1, log.payBytes + PayLen[job.entry.ev])
         /\ EntryAt(idx, pay, At(e)) = job.entry
<1>1. TypeInv /\ FileTypes
  BY Files DEF OpfsInv
<1>2. pc = "flush"
  BY DEF Acknowledge
<1>3. job.entry \in Entry
  BY <1>1, <1>2 DEF TypeInv, Appending
<1>4. /\ PayloadAt(pay, log.payBytes, job.entry) /\ RecordAt(idx, At(e), job.entry, log.payBytes)
      /\ Solid(idx, pay, e, log.payBytes)
  BY <1>2 DEF OpfsInv, JobSound, Base
<1> QED
  BY <1>1, <1>3, <1>4, AppendedSolid DEF FileTypes

LEMMA StepAcknowledge ==
  ASSUME OpfsInv, TypeInv', Acknowledge
  PROVE  OpfsInv'
<1>1. TypeInv /\ Lasting /\ PayloadWithin /\ JobSound /\ FileTypes /\ FileTypes'
  BY Files, FilesNext DEF OpfsInv
<1>2. /\ pc = "flush" /\ pc' = "ready" /\ pc \in Open
      /\ UNCHANGED <<legacy, idx, pay, cache>> /\ log' = Advanced(job.entry)
      /\ acked' = acked \union {[off |-> log.idxBytes, entry |-> job.entry, clean |-> Clean]}
  BY DEF Acknowledge, Reject, Open
<1>3. job.entry \in Entry
  BY <1>1, <1>2 DEF TypeInv, Appending
<1> DEFINE l == PayLen[job.entry.ev]
           new == [off |-> log.idxBytes, entry |-> job.entry, clean |-> Clean]
<1>4. /\ l \in Nat /\ l >= 1 /\ Stride \in Nat /\ Stride >= 1
      /\ log.idxBytes \in Nat /\ log.payBytes \in Nat
      /\ log'.idxBytes = log.idxBytes + Stride /\ log'.payBytes = log.payBytes + l
  <2>1. l \in Nat /\ l >= 1
    BY <1>3, EntryTypes
  <2>2. Stride \in Nat /\ Stride >= 1
    BY OpfsAssumption
  <2> QED
    BY <1>1, <1>2, <2>1, <2>2 DEF FileTypes, Advanced
<1>5. PayloadWithin'
  <2>1. log.payBytes + l <= Len(pay)
    BY <1>1, <1>2 DEF JobSound, PayloadAt
  <2> QED
    BY <1>2, <1>4, <2>1 DEF PayloadWithin
<1>6. JobSound' /\ MigratingSound'
  BY <1>2 DEF JobSound, MigratingSound
<1>7. CASE ~Clean
  <2>1. CleanAcks' = CleanAcks
    <3>1. new.clean = FALSE
      BY <1>7
    <3> HIDE DEF new
    <3> QED
      BY <1>2, <3>1 DEF CleanAcks, new
  <2>2. ASSUME NEW k \in Nat, NEW m \in Nat, Base(k, m), Behind(k, m) PROVE Spares(k, m)
    <3>1. At(k) \in Nat /\ Alike(idx, idx', At(k)) /\ Alike(pay, pay', m)
      BY <1>1, <1>2, <2>2, BaseLengths
    <3>2. At(k) <= log.idxBytes /\ m <= log.payBytes
      BY <1>2, <2>2 DEF Behind
    <3>3. At(k) <= log'.idxBytes /\ m <= log'.payBytes
      <4> HIDE DEF l
      <4> QED
        BY <1>4, <3>1, <3>2
    <3>4. Behind(k, m)'
      BY <3>3 DEF Behind
    <3> QED
      BY <3>1, <3>4 DEF Spares
  <2>3. Lasting'
    <3>1. legacy' = legacy /\ cache' = cache
      BY <1>2
    <3>2. \A k, m \in Nat : Base(k, m) /\ Behind(k, m) => Spares(k, m)
      BY <2>2
    <3> HIDE DEF l, new
    <3> QED
      BY <1>1, <2>1, <3>1, <3>2, LastingStays
  <2> QED
    BY <1>5, <1>6, <2>3 DEF OpfsInv
<1>8. CASE Clean
  <2>1. PICK e \in Nat : log.idxBytes = At(e) /\ Base(e, log.payBytes)
    BY <1>1, <1>2, <1>8, CleanBase
  <2>2. Solid(idx, pay, e + 1, log.payBytes + l) /\ EntryAt(idx, pay, At(e)) = job.entry
    BY <2>1, CleanAppend
  <2>3. PICK m \in Nat : m = log.payBytes + l
    BY <1>4
  <2>4. At(e) \in Nat /\ At(e + 1) = At(e) + Stride /\ e + 1 \in Nat
    <3>1. At(e) \in Nat /\ At(e + 1) = At(e) + Stride
      BY Multiples, Zenon
    <3>2. e + 1 \in Nat
      OBVIOUS
    <3> QED
      BY <3>1, <3>2
  <2>5. ~Pending'
    BY <1>2, <1>8 DEF Clean, Pending
  <2>6. ASSUME NEW a \in CleanAcks'
        PROVE  \E i \in 0 .. (e + 1) - 1 : a.off = At(i) /\ a.entry = EntryAt(idx, pay, At(i))
    <3>1. a \in CleanAcks \/ a = new
      BY <1>2 DEF CleanAcks
    <3>2. CASE a \in CleanAcks
      <4>1. PICK i \in 0 .. e - 1 : a.off = At(i) /\ a.entry = EntryAt(idx, pay, At(i))
        BY <2>1, <3>2 DEF Base
      <4>2. i \in 0 .. (e + 1) - 1
        OBVIOUS
      <4> QED
        BY <4>1, <4>2
    <3>3. CASE a = new
      <4>1. a.off = At(e) /\ a.entry = EntryAt(idx, pay, At(e))
        BY <2>1, <2>2, <3>3
      <4>2. e \in 0 .. (e + 1) - 1
        OBVIOUS
      <4> QED
        BY <4>1, <4>2
    <3> QED
      BY <3>1, <3>2, <3>3
  <2>7. ASSUME cache.whole PROVE cache.size <= At(e + 1) + m /\ cache.size # At(e + 1) + m
    <3>1. cache.size <= At(e) + log.payBytes
      BY <2>1, <2>7 DEF Base
    <3>2. cache.size \in Int
      BY <1>1 DEF TypeInv, TypeOK
    <3> HIDE DEF l
    <3> QED
      BY <1>4, <2>3, <2>4, <3>1, <3>2
  <2>8. HasLegacy => Len(LegacyPrefix) <= e + 1 /\ Kept(Len(LegacyPrefix))
    <3>1. HasLegacy => Len(LegacyPrefix) <= e /\ Kept(Len(LegacyPrefix))
      BY <2>1 DEF Base
    <3>2. Len(LegacyPrefix) \in Nat
      BY LegacyEntries
    <3> QED
      BY <3>1, <3>2
  <2>9. Base(e + 1, m)'
    <3>1. Solid(idx, pay, e + 1, m)
      BY <2>2, <2>3
    <3> QED
      BY <1>2, <2>6, <2>7, <2>8, <3>1 DEF Base, Kept
  <2>10. Behind(e + 1, m)'
    <3>1. At(e + 1) = log'.idxBytes /\ m = log'.payBytes
      BY <1>4, <2>1, <2>3, <2>4
    <3>2. log'.idxBytes \in Nat /\ log'.payBytes \in Nat
      BY <1>1 DEF FileTypes
    <3> QED
      BY <3>1, <3>2 DEF Behind
  <2>11. HasBase'
    BY <2>4, <2>9, <2>10 DEF HasBase
  <2> QED
    BY <1>5, <1>6, <2>5, <2>11 DEF OpfsInv, Lasting
<1> QED
  BY <1>7, <1>8

\* A scan of the open log, with or without saving the cache.
LEMMA ScanSpares ==
  ASSUME OpfsInv, TypeInv', pc \in Open, NEW left \in ScanLeaves(idx, pay, log.idxBytes),
         idx' = left.file, log' = [log EXCEPT !.idxBytes = left.limit],
         UNCHANGED <<pc, pay>>
  PROVE  /\ \A k, m \in Nat : Base(k, m) /\ Behind(k, m) => Spares(k, m)
         /\ PayloadWithin'
<1>1. TypeInv /\ FileTypes /\ PayloadWithin
  BY Files DEF OpfsInv
<1>2. log'.idxBytes = left.limit /\ log'.payBytes = log.payBytes
  <2>1. log \in [idxBytes : Nat, payBytes : Nat]
    BY <1>1 DEF TypeInv, TypeOK
  <2> QED
    BY <2>1
<1>3. ASSUME NEW k \in Nat, NEW m \in Nat, Base(k, m), Behind(k, m) PROVE Spares(k, m)
  <2>1. Solid(idx, pay, k, m) /\ Alike(pay, pay', m)
    BY <1>1, <1>3, BaseLengths DEF Base
  <2>2. At(k) <= log.idxBytes /\ m <= log.payBytes
    BY <1>3 DEF Behind
  <2>3. Alike(idx, left.file, At(k)) /\ At(k) <= left.limit
    BY <1>1, <2>1, <2>2, LeavesSolid DEF FileTypes
  <2>4. Behind(k, m)'
    BY <1>2, <2>2, <2>3 DEF Behind
  <2> QED
    BY <2>1, <2>3, <2>4 DEF Spares
<1>4. PayloadWithin'
  BY <1>1, <1>2 DEF PayloadWithin
<1> QED
  BY <1>3, <1>4

LEMMA StepScanRequest ==
  ASSUME OpfsInv, TypeInv', ScanRequest
  PROVE  OpfsInv'
<1>1. TypeInv /\ Lasting
  BY DEF OpfsInv
<1>2. pc = "ready" /\ pc \in Open /\ UNCHANGED <<legacy, pay, cache, pc, job, acked>>
  BY DEF ScanRequest, Open
<1>3. CleanAcks' = CleanAcks
  BY <1>2 DEF CleanAcks
<1>4. PICK left \in ScanLeaves(idx, pay, log.idxBytes) :
        idx' = left.file /\ log' = [log EXCEPT !.idxBytes = left.limit]
  BY DEF ScanRequest
<1>5. (\A k, m \in Nat : Base(k, m) /\ Behind(k, m) => Spares(k, m)) /\ PayloadWithin'
  BY <1>2, <1>4, ScanSpares
<1>6. Lasting'
  BY <1>1, <1>2, <1>3, <1>5, LastingStays
<1> QED
  BY <1>2, <1>5, <1>6 DEF OpfsInv, JobSound, MigratingSound

\* A whole cache holds all there is, up to the counters.
LEMMA WholeCache ==
  ASSUME OpfsInv, pc \in Open, NEW left \in ScanLeaves(idx, pay, log.idxBytes),
         CachePayload(Seqs(index), left.limit).whole
  PROVE  \E e \in Nat : /\ log.idxBytes = At(e) /\ Base(e, log.payBytes)
                        /\ left = [file |-> idx, limit |-> log.idxBytes]
                        /\ CachePayload(Seqs(index), left.limit).entries = Found(idx, pay, e)
                        /\ CachePayload(Seqs(index), left.limit).size = At(e) + log.payBytes
<1> DEFINE found == Scan(idx, pay, log.idxBytes)
           card == Cardinality(Seqs(index))
           n == IF Len(found) < card THEN Len(found) ELSE card
<1>1. TypeInv /\ FileTypes /\ PayloadWithin /\ Lasting
  BY Files DEF OpfsInv
<1>2. Clean /\ Len(found) = card
  BY DEF CachePayload
<1>3. PICK e \in Nat : log.idxBytes = At(e) /\ Base(e, log.payBytes)
  BY <1>1, <1>2, CleanBase
<1>4. Solid(idx, pay, e, log.payBytes) /\ At(e) \in Nat /\ At(e) <= At(e)
  BY <1>3, Multiples DEF Base
<1>5. ScanEnd(idx, pay, At(e)) = At(e) /\ \A i \in 0 .. e - 1 : Readable(idx, pay, At(i))
  BY <1>1, <1>4, ScanBeyond DEF FileTypes
<1>6. found = Found(idx, pay, e)
  BY <1>3, <1>5, ScanYields
<1>7. found \in Seq(Located) /\ Len(found) = e
  BY <1>1, <1>5, <1>6, FoundTypes DEF FileTypes
<1>8. left = [file |-> idx, limit |-> log.idxBytes]
  <2>1. ~Cuts(idx, pay, At(e))
    BY <1>4, <1>5 DEF Cuts
  <2>2. left \in ScanLeaves(idx, pay, At(e))
    BY <1>3
  <2>3. left = [file |-> idx, limit |-> At(e)]
    BY <1>5, <2>1, <2>2, Leaving
  <2> QED
    BY <1>3, <2>3
<1>9. CachePayload(Seqs(index), left.limit).entries = SubSeq(found, 1, n)
      /\ CachePayload(Seqs(index), left.limit).size = left.limit + log.payBytes
  BY DEF CachePayload
<1> HIDE DEF found, card
<1>10. n = Len(found)
  BY <1>2, <1>7
<1>11. SubSeq(found, 1, Len(found)) = found
  BY <1>7
<1>12. left.limit = At(e)
  BY <1>3, <1>8
<1> QED
  BY <1>3, <1>6, <1>8, <1>9, <1>10, <1>11, <1>12

LEMMA StepSaveCache ==
  ASSUME OpfsInv, TypeInv', SaveInitCache
  PROVE  OpfsInv'
<1>1. TypeInv /\ Lasting /\ FileTypes
  BY Files DEF OpfsInv
<1>2. pc = "ready" /\ pc \in Open /\ UNCHANGED <<legacy, pay, pc, job, acked>>
  BY DEF SaveInitCache, Open
<1>3. CleanAcks' = CleanAcks
  BY <1>2 DEF CleanAcks
<1>4. PICK left \in ScanLeaves(idx, pay, log.idxBytes) :
        /\ idx' = left.file /\ log' = [log EXCEPT !.idxBytes = left.limit]
        /\ cache' = CachePayload(Seqs(index), left.limit)
  BY DEF SaveInitCache
<1>5. (\A k, m \in Nat : Base(k, m) /\ Behind(k, m) => Spares(k, m)) /\ PayloadWithin'
  BY <1>2, <1>4, ScanSpares
<1>6. Lasting'
  <2>1. CASE ~cache'.whole
    BY <1>1, <1>2, <1>3, <1>5, <2>1, LastingStays
  <2>2. CASE cache'.whole
    <3>1. PICK e \in Nat :
            /\ log.idxBytes = At(e) /\ Base(e, log.payBytes)
            /\ left = [file |-> idx, limit |-> log.idxBytes]
            /\ cache'.entries = Found(idx, pay, e)
            /\ cache'.size = At(e) + log.payBytes
      BY <1>2, <1>4, <2>2, WholeCache
    <3>2. idx' = idx /\ log' = log
      <4>1. left.file = idx /\ left.limit = log.idxBytes
        BY <3>1
      <4>2. log \in [idxBytes : Nat, payBytes : Nat]
        BY <1>1 DEF TypeInv, TypeOK
      <4> QED
        BY <1>4, <4>1, <4>2
    <3>3. PICK m \in Nat : m = log.payBytes
      BY <1>1 DEF FileTypes
    <3>4. Base(e, m)
      BY <3>1, <3>3
    <3>5. At(e) + m \in Int /\ cache'.size = At(e) + m
      <4>1. At(e) \in Nat
        BY Multiples, Zenon
      <4>2. cache'.size = At(e) + m
        BY <3>1, <3>3, Zenon
      <4> QED
        BY <4>1, <4>2
    <3>6. Base(e, m)'
      <4>1. UNCHANGED <<idx, pay, CleanAcks>>
        BY <1>2, <1>3, <3>2
      <4>2. cache'.size <= At(e) + m /\ cache'.entries = Found(idx', pay', e)
        BY <3>1, <3>5, <4>1
      <4>3. Solid(idx', pay', e, m)
        BY <3>4, <4>1 DEF Base
      <4>4. \A a \in CleanAcks' : \E i \in 0 .. e - 1 :
              a.off = At(i) /\ a.entry = EntryAt(idx', pay', At(i))
        BY <3>4, <4>1, Zenon DEF Base
      <4>5. HasLegacy => Len(LegacyPrefix) <= e /\ Kept(Len(LegacyPrefix))'
        BY <3>4, <4>1 DEF Base, Kept
      <4> QED
        BY <4>2, <4>3, <4>4, <4>5 DEF Base
    <3>7. Behind(e, m)'
      <4>1. At(e) = log'.idxBytes /\ m = log'.payBytes /\ At(e) \in Nat
        BY <3>1, <3>2, <3>3, Multiples
      <4> QED
        BY <4>1 DEF Behind
    <3>8. ~Pending'
      <4>1. Clean
        BY <1>4, <2>2 DEF CachePayload
      <4> QED
        BY <1>2, <4>1 DEF Clean, Pending
    <3> QED
      BY <3>6, <3>7, <3>8 DEF Lasting, HasBase
  <2> QED
    BY <2>1, <2>2
<1> QED
  BY <1>2, <1>5, <1>6 DEF OpfsInv, JobSound, MigratingSound

LEMMA StepInv ==
  ASSUME OpfsInv, [Next]_vars
  PROVE  OpfsInv'
<1>1. TypeInv'
  BY StepTypes DEF OpfsInv
<1>2. CASE Migrate
  BY <1>1, <1>2, StepMigrate
<1>3. CASE StartOpen
  BY <1>1, <1>3, StepStartOpen
<1>4. CASE FinishOpen
  BY <1>1, <1>4, StepFinishOpen
<1>5. ASSUME NEW e \in Events, NEW s, Request(e, s) PROVE OpfsInv'
  <2>1. pc' = "payload" /\ pc = "ready" /\ UNCHANGED <<legacy, idx, pay, cache, acked, log>>
    BY <1>5 DEF Request
  <2>2. Lasting' /\ PayloadWithin'
    BY <1>1, <2>1, StepQuiet DEF Open
  <2> QED
    BY <1>1, <2>1, <2>2 DEF OpfsInv, JobSound, MigratingSound
<1>6. CASE WritePayload
  BY <1>1, <1>6, StepWritePayload
<1>7. CASE WriteRecord
  BY <1>1, <1>7, StepWriteRecord
<1>8. CASE Acknowledge
  BY <1>1, <1>8, StepAcknowledge
<1>9. CASE FlushThrows
  <2>1. pc' = "ready" /\ pc = "flush" /\ UNCHANGED <<legacy, idx, pay, cache, acked, log>>
    BY <1>9 DEF FlushThrows, Reject
  <2>2. Lasting' /\ PayloadWithin'
    BY <1>1, <2>1, StepQuiet DEF Open
  <2> QED
    BY <1>1, <2>1, <2>2 DEF OpfsInv, JobSound, MigratingSound
<1>10. CASE ScanRequest
  BY <1>1, <1>10, StepScanRequest
<1>11. CASE SaveInitCache
  BY <1>1, <1>11, StepSaveCache
<1>12. CASE SaveCheckpoint
  <2>1. pc' = pc /\ pc = "ready" /\ UNCHANGED <<legacy, idx, pay, cache, acked, log>>
    BY <1>12 DEF SaveCheckpoint
  <2>2. Lasting' /\ PayloadWithin'
    BY <1>1, <2>1, StepQuiet
  <2> QED
    BY <1>1, <2>1, <2>2 DEF OpfsInv, JobSound, MigratingSound
<1>13. CASE Kill
  <2>1. pc' = "closed" /\ UNCHANGED <<legacy, idx, pay, cache, acked>>
    BY <1>13 DEF Kill
  <2>2. Lasting' /\ PayloadWithin'
    BY <1>1, <2>1, StepQuiet DEF Open
  <2> QED
    BY <1>1, <2>1, <2>2 DEF OpfsInv, JobSound, MigratingSound
<1>14. CASE UNCHANGED vars
  <2>1. UNCHANGED <<legacy, idx, pay, cache, acked, log, pc, job>>
    BY <1>14 DEF vars
  <2>2. Lasting' /\ PayloadWithin'
    BY <1>1, <2>1, StepQuiet
  <2>3. JobSound' /\ MigratingSound'
    BY <2>1 DEF OpfsInv, JobSound, MigratingSound, Pending, Kept
  <2> QED
    BY <1>1, <2>2, <2>3 DEF OpfsInv
<1> QED
  BY <1>2, <1>3, <1>4, <1>5, <1>6, <1>7, <1>8, <1>9, <1>10, <1>11, <1>12, <1>13, <1>14
     DEF Next, AppendRaw

-----------------------------------------------------------------------------
(* What the invariant says. *)

LEMMA AcksInBase ==
  ASSUME OpfsInv, CleanAcks # {} \/ cache.whole \/ (~legacy /\ HasLegacy)
  PROVE  \E k, m \in Nat : Base(k, m) /\ Behind(k, m)
<1>1. ~Pending
  BY DEF OpfsInv, Lasting, Nothing, Pending
<1> QED
  BY <1>1 DEF OpfsInv, Lasting, HasBase

LEMMA InvReadable == OpfsInv => CleanAcksReadable
<1> SUFFICES ASSUME OpfsInv, NEW a \in CleanAcks PROVE CanBeRead(a)
  BY DEF CleanAcksReadable
<1>1. FileTypes
  BY Files DEF OpfsInv
<1>2. PICK k, m \in Nat : Base(k, m)
  BY AcksInBase
<1>3. PICK i \in 0 .. k - 1 : a.off = At(i) /\ a.entry = EntryAt(idx, pay, At(i))
  BY <1>2 DEF Base
<1>4. Solid(idx, pay, k, m)
  BY <1>2 DEF Base
<1>5. Readable(idx, pay, At(i))
  BY <1>1, <1>4, SolidReadable DEF FileTypes
<1>6. At(i) < Len(idx)
  <2>1. At(i) + Stride <= At(k) /\ At(i) \in Nat /\ At(k) \in Nat
    BY Within
  <2>2. Stride \in Nat /\ Stride >= 1
    BY OpfsAssumption
  <2>3. At(k) <= Len(idx) /\ Len(idx) \in Nat
    BY <1>1, <1>4 DEF Solid, FileTypes
  <2> QED
    BY <2>1, <2>2, <2>3
<1> QED
  BY <1>3, <1>5, <1>6 DEF CanBeRead

LEMMA InvFresh == OpfsInv => CacheFresh
<1> SUFFICES ASSUME OpfsInv, CacheHit, cache.whole
             PROVE  cache.entries = Scan(idx, pay, Len(idx))
  BY DEF CacheFresh
<1>1. FileTypes /\ TypeInv
  BY Files DEF OpfsInv
<1>2. PICK k, m \in Nat : Base(k, m)
  BY AcksInBase
<1>3. Solid(idx, pay, k, m)
  BY <1>2 DEF Base
<1>4. cache.size <= At(k) + m /\ (cache.size = At(k) + m => cache.entries = Found(idx, pay, k))
  BY <1>2 DEF Base
<1>5. cache.size = Len(idx) + Len(pay)
  BY DEF CacheHit
<1>6. At(k) = Len(idx) /\ cache.size = At(k) + m
  <2>1. At(k) \in Nat
    BY Multiples, Zenon
  <2>2. At(k) <= Len(idx) /\ m <= Len(pay) /\ Len(idx) \in Nat /\ Len(pay) \in Nat
    BY <1>1, <1>3 DEF Solid, FileTypes
  <2> QED
    BY <1>4, <1>5, <2>1, <2>2
<1>7. PICK e \in Nat : ScanEnd(idx, pay, Len(idx)) = At(e) /\ e = k
  <2>1. At(k) <= Len(idx)
    BY <1>3 DEF Solid
  <2> QED
    BY <1>1, <1>3, <1>6, <2>1, ScanBeyond DEF FileTypes
<1>8. Scan(idx, pay, Len(idx)) = Found(idx, pay, k)
  BY <1>7, ScanYields
<1> QED
  BY <1>4, <1>6, <1>8

\* The scan of an open finds what is solid.
LEMMA OpenFinds ==
  ASSUME OpfsInv, NEW k \in Nat, NEW m \in Nat, Base(k, m)
  PROVE  \E e \in Nat : k <= e /\ Scan(idx, pay, Len(idx)) = Found(idx, pay, e)
<1>1. FileTypes
  BY Files DEF OpfsInv
<1>2. Solid(idx, pay, k, m) /\ At(k) <= Len(idx)
  BY DEF Base, Solid
<1>3. PICK e \in Nat : k <= e /\ ScanEnd(idx, pay, Len(idx)) = At(e)
  BY <1>1, <1>2, ScanBeyond DEF FileTypes
<1> QED
  BY <1>3, ScanYields

LEMMA FoundHas ==
  ASSUME NEW f, NEW g, NEW e \in Nat, NEW i \in 0 .. e - 1
  PROVE  /\ Len(Found(f, g, e)) = e /\ i + 1 \in 1 .. e
         /\ Found(f, g, e)[i + 1].entry = EntryAt(f, g, At(i))
<1>1. i + 1 \in 1 .. e /\ (i + 1) - 1 = i
  OBVIOUS
<1>2. Len(Found(f, g, e)) = e
  BY DEF Found
<1>3. Found(f, g, e)[i + 1] = [off |-> At(i), entry |-> EntryAt(f, g, At(i))]
  BY <1>1 DEF Found
<1> QED
  BY <1>1, <1>2, <1>3

LEMMA InvKept == OpfsInv => MigrationKeepsAll
<1> DEFINE found == Scan(idx, pay, Len(idx))
<1> SUFFICES ASSUME OpfsInv, ~legacy, HasLegacy
             PROVE  /\ Len(LegacyPrefix) <= Len(found)
                    /\ \A i \in 1 .. Len(LegacyPrefix) : found[i].entry = LegacyPrefix[i]
  BY DEF MigrationKeepsAll
<1>1. PICK k, m \in Nat : Base(k, m)
  BY AcksInBase
<1>2. PICK e \in Nat : k <= e /\ found = Found(idx, pay, e)
  BY <1>1, OpenFinds
<1>3. Len(LegacyPrefix) <= k /\ Kept(Len(LegacyPrefix)) /\ Len(LegacyPrefix) \in Nat
  BY <1>1, LegacyEntries DEF Base
<1>4. Len(Found(idx, pay, e)) = e
  BY DEF Found
<1>5. ASSUME NEW i \in 1 .. Len(LegacyPrefix)
      PROVE  Found(idx, pay, e)[i].entry = LegacyPrefix[i]
  <2>1. i - 1 \in 0 .. e - 1 /\ (i - 1) + 1 = i
    BY <1>2, <1>3
  <2>2. Found(idx, pay, e)[(i - 1) + 1].entry = EntryAt(idx, pay, At(i - 1))
    BY <2>1, FoundHas
  <2>3. EntryAt(idx, pay, At(i - 1)) = LegacyPrefix[i]
    BY <1>3 DEF Kept
  <2> QED
    BY <2>1, <2>2, <2>3
<1> HIDE DEF found
<1> QED
  BY <1>2, <1>3, <1>4, <1>5

\* The highest seq of an index is not below any of them.
LEMMA MaxCovers ==
  ASSUME NEW s \in Seq(Located), NEW n \in Seqs(s)
  PROVE  n \in Nat /\ MaxOf(Seqs(s)) \in Nat /\ n <= MaxOf(Seqs(s))
<1>1. PICK B \in Nat : Seqs(s) \in SUBSET Nat /\ \A x \in Seqs(s) : x <= B
  BY SeqsBounded
<1>2. \E x \in Seqs(s) : \A y \in Seqs(s) : y <= x
  BY <1>1, GreatestBelow
<1>3. MaxOf(Seqs(s)) \in Seqs(s) /\ \A y \in Seqs(s) : y <= MaxOf(Seqs(s))
  BY <1>2 DEF MaxOf
<1> QED
  BY <1>1, <1>3

LEMMA StepHead ==
  ASSUME OpfsInv, TypeInv', [Next]_vars, pc = "opening", pc' = "ready",
         index' = Scan(idx, pay, Len(idx)), NEW a \in CleanAcks
  PROVE  a.entry.seq <= position'
<1>1. FinishOpen
  BY DEF Next, Migrate, AppendRaw, StartMigration, MigrateRecord, MigrationThrows, CommitMigration,
         StartOpen, Request, WritePayload, WriteRecord, Acknowledge, FlushThrows, ScanRequest,
         SaveInitCache, SaveCheckpoint, Kill, vars
<1>2. PICK k, m \in Nat : Base(k, m)
  BY AcksInBase
<1>3. PICK i \in 0 .. k - 1 : a.entry = EntryAt(idx, pay, At(i))
  BY <1>2 DEF Base
<1>4. PICK e \in Nat : k <= e /\ index' = Found(idx, pay, e)
  BY <1>2, OpenFinds
<1>5. i \in 0 .. e - 1
  BY <1>4
<1>6. Len(index') = e /\ i + 1 \in 1 .. e /\ index'[i + 1].entry = a.entry
  BY <1>3, <1>4, <1>5, FoundHas
<1>7. index' \in Seq(Located)
  BY DEF TypeInv, TypeOK
<1>8. a.entry.seq \in Seqs(index')
  <2>1. index'[i + 1] \in Elements(index')
    BY <1>6 DEF Elements
  <2> QED
    BY <1>6, <2>1 DEF Seqs
<1> DEFINE s == a.entry.seq
           top == MaxOf(Seqs(index'))
<1>9. s \in Nat /\ top \in Nat /\ s <= top
  BY <1>7, <1>8, MaxCovers
<1>10. position' = Larger(ckpt, top) /\ ckpt \in Nat
  BY <1>1 DEF FinishOpen, ReadyHead, OpfsInv, TypeInv, TypeOK
<1> HIDE DEF s, top
<1>11. Larger(ckpt, top) \in Nat /\ Larger(ckpt, top) >= top
  BY <1>9, <1>10, LargerBounds
<1>12. s <= position'
  BY <1>9, <1>10, <1>11
<1> QED
  BY <1>12 DEF s

\* An append that is acknowledged on a clean log (all of it can be read, and there is no
\* log.bin left to be migrated again) can be read at its offset ever after, whatever is
\* killed, throws, tears, is renumbered, or cannot be truncated or unlinked since.
THEOREM CleanAcksStayReadable == Spec => []CleanAcksReadable
<1>1. Init => OpfsInv
  BY InitInv
<1>2. OpfsInv /\ [Next]_vars => OpfsInv'
  BY StepInv
<1>3. OpfsInv => CleanAcksReadable
  BY InvReadable
<1> QED
  BY <1>1, <1>2, <1>3, PTL DEF Spec

\* The size check of the init cache is enough: a cache that was whole when it was saved and
\* that an open takes holds exactly what a scan of the log would find.
THEOREM TakenCacheIsFresh == Spec => []CacheFresh
<1>1. Init => OpfsInv
  BY InitInv
<1>2. OpfsInv /\ [Next]_vars => OpfsInv'
  BY StepInv
<1>3. OpfsInv => CacheFresh
  BY InvFresh
<1> QED
  BY <1>1, <1>2, <1>3, PTL DEF Spec

\* Once log.bin is gone the log begins with every entry of it that could be read, however
\* often the migration was cut short, failed and was started again.
THEOREM LegacyLogIsKept == Spec => []MigrationKeepsAll
<1>1. Init => OpfsInv
  BY InitInv
<1>2. OpfsInv /\ [Next]_vars => OpfsInv'
  BY StepInv
<1>3. OpfsInv => MigrationKeepsAll
  BY InvKept
<1> QED
  BY <1>1, <1>2, <1>3, PTL DEF Spec

\* The head reported at an open that indexes the whole log is not below any append that
\* was acknowledged on a clean log.
THEOREM HeadIsNotBehind == Spec => HeadCovers
<1>1. Init => OpfsInv
  BY InitInv
<1>2. OpfsInv /\ [Next]_vars => OpfsInv'
  BY StepInv
<1>3. OpfsInv /\ OpfsInv' /\ [Next]_vars =>
        [pc = "opening" /\ pc' = "ready" /\ index' = Scan(idx, pay, Len(idx)) =>
           \A a \in CleanAcks : a.entry.seq <= position']_vars
  BY StepHead DEF OpfsInv
<1> QED
  BY <1>1, <1>2, <1>3, PTL DEF Spec, HeadCovers

-----------------------------------------------------------------------------
(* The files implement AppendLog. *)

\* A step does not touch the base.
LEMMA StepAlike ==
  ASSUME OpfsInv, TypeInv', [Next]_vars, ~Pending,
         NEW k \in Nat, NEW m \in Nat, Base(k, m), Behind(k, m)
  PROVE  Alike(idx, idx', At(k)) /\ Alike(pay, pay', m)
<1>1. TypeInv /\ FileTypes
  BY Files DEF OpfsInv
<1>2. /\ Solid(idx, pay, k, m) /\ At(k) \in Nat /\ At(k) <= Len(idx) /\ m <= Len(pay)
      /\ Alike(idx, idx, At(k)) /\ Alike(pay, pay, m)
  BY <1>1, BaseLengths DEF Base
<1>3. ASSUME UNCHANGED <<idx, pay>> PROVE Alike(idx, idx', At(k)) /\ Alike(pay, pay', m)
  BY <1>2, <1>3
<1>4. pc \in Open => At(k) <= log.idxBytes /\ m <= log.payBytes
  BY DEF Behind
<1>5. CASE Migrate
  <2>1. Pending
    BY <1>5 DEF OpfsInv, MigratingSound, Migrate, StartMigration, MigrateRecord,
                MigrationThrows, CommitMigration, Pending
  <2> QED
    BY <2>1
<1>6. CASE FinishOpen
  <2>1. PICK left \in IF CacheHit THEN {[file |-> idx, limit |-> Len(idx)]}
                                  ELSE ScanLeaves(idx, pay, Len(idx)) : idx' = left.file
    BY <1>6 DEF FinishOpen
  <2>2. pay' = pay
    BY <1>6 DEF FinishOpen
  <2>3. Alike(idx, left.file, At(k))
    <3>1. CASE CacheHit
      <4>1. left.file = idx
        BY <2>1, <3>1
      <4> QED
        BY <1>2, <4>1
    <3>2. CASE ~CacheHit
      <4>1. left \in ScanLeaves(idx, pay, Len(idx))
        BY <2>1, <3>2
      <4> QED
        BY <1>1, <1>2, <4>1, LeavesSolid DEF FileTypes
    <3> QED
      BY <3>1, <3>2
  <2> QED
    BY <1>2, <2>1, <2>2, <2>3
<1>7. ASSUME pc \in Open, NEW left \in ScanLeaves(idx, pay, log.idxBytes),
             idx' = left.file, pay' = pay
      PROVE  Alike(idx, idx', At(k)) /\ Alike(pay, pay', m)
  BY <1>1, <1>2, <1>4, <1>7, LeavesSolid DEF FileTypes
<1>8. CASE ScanRequest \/ SaveInitCache
  BY <1>7, <1>8 DEF ScanRequest, SaveInitCache, Open
<1>9. CASE WritePayload
  <2>1. pc = "payload" /\ pc \in Open /\ idx' = idx
    BY <1>9 DEF WritePayload, Open
  <2>2. job.entry \in Entry
    BY <1>1, <2>1 DEF TypeInv, Appending
  <2>3. PayCells(job.entry) \in PayFile /\ \A c \in Failed(PayCells(job.entry)) : c \in PayFile
    BY <2>2, CellTypes, 0 \in Nat
  <2>4. PICK cells \in PayFile : pay' = WriteAt(pay, log.payBytes, cells)
    BY <1>9, <2>3 DEF WritePayload
  <2>5. Alike(pay, pay', m)
    BY <1>1, <1>2, <1>4, <2>1, <2>4, PayloadBehind DEF FileTypes
  <2> QED
    BY <1>2, <2>1, <2>5
<1>10. CASE WriteRecord
  <2>1. pc = "record" /\ pc \in Open /\ pay' = pay
    BY <1>10 DEF WriteRecord, Open
  <2>2. job.entry \in Entry /\ log.payBytes \in Nat
    BY <1>1, <2>1 DEF TypeInv, Appending, FileTypes
  <2>3. /\ Record(job.entry, log.payBytes) \in IdxFile
        /\ \A c \in Failed(Record(job.entry, log.payBytes)) : c \in IdxFile
    BY <2>2, CellTypes
  <2>4. PICK cells \in IdxFile : idx' = WriteAt(idx, log.idxBytes, cells)
    BY <1>10, <2>3 DEF WriteRecord, RecordOffset
  <2>5. Alike(idx, idx', At(k))
    BY <1>1, <1>2, <1>4, <2>1, <2>4, RecordBehind DEF FileTypes
  <2> QED
    BY <1>2, <2>1, <2>5
<1>11. CASE \/ StartOpen \/ Acknowledge \/ FlushThrows \/ SaveCheckpoint \/ Kill \/ UNCHANGED vars
            \/ \E e \in Events, skip \in 0 .. MaxSkip : Request(e, given + skip + 1)
  <2>1. UNCHANGED <<idx, pay>>
    BY <1>11 DEF StartOpen, Acknowledge, FlushThrows, SaveCheckpoint, Kill, Request, vars
  <2> QED
    BY <1>3, <2>1
<1> QED
  BY <1>5, <1>6, <1>8, <1>9, <1>10, <1>11 DEF Next, AppendRaw

\* Durable, of given files and acknowledgements.
EndOf(acks) == MaxOf({a.off + Stride : a \in acks})
Entries(f, g, j) == [i \in 1 .. j |-> EntryAt(f, g, At(i - 1))]
LogOf(f, g, n) == LET found == Scan(f, g, n) IN [i \in 1 .. Len(found) |-> found[i].entry]

LEMMA DurableIs ==
  /\ Durable = LogOf(idx, pay, EndOf(CleanAcks))
  /\ Durable' = LogOf(idx', pay', EndOf(CleanAcks'))
BY DEF Durable, DurableEnd, LogOf, EndOf

LEMMA LogOfSolid ==
  ASSUME NEW f \in IdxFile, NEW g \in PayFile, NEW j \in Nat, NEW m \in Nat, Solid(f, g, j, m)
  PROVE  LogOf(f, g, At(j)) = Entries(f, g, j)
<1>1. At(j) \in Nat /\ At(j) <= At(j)
  BY Multiples
<1>2. ScanEnd(f, g, At(j)) = At(j)
  BY <1>1, ScanBeyond
<1>3. Scan(f, g, At(j)) = Found(f, g, j)
  BY <1>2, ScanYields
<1>4. Len(Found(f, g, j)) = j
  BY DEF Found
<1>5. \A i \in 1 .. j : Found(f, g, j)[i].entry = EntryAt(f, g, At(i - 1))
  BY DEF Found
<1> QED
  BY <1>3, <1>4, <1>5 DEF LogOf, Entries

LEMMA SolidLess ==
  ASSUME NEW f \in IdxFile, NEW g \in PayFile, NEW k \in Nat, NEW m \in Nat, Solid(f, g, k, m),
         NEW j \in 0 .. k
  PROVE  Solid(f, g, j, m)
<1>1. At(j) <= At(k) /\ At(j) \in Nat /\ At(k) \in Nat
  BY NotBeyond
<1>2. At(k) <= Len(f) /\ m <= Len(g) /\ Len(f) \in Nat
  BY DEF Solid, IdxFile
<1>3. At(j) <= Len(f)
  BY <1>1, <1>2
<1>4. \A i \in 0 .. j - 1 : i \in 0 .. k - 1
  OBVIOUS
<1> QED
  BY <1>2, <1>3, <1>4 DEF Solid

LEMMA EndNone == EndOf({}) = At(0)
<1>1. {a.off + Stride : a \in {}} = {}
  OBVIOUS
<1>2. At(0) = 0
  BY Multiples
<1> QED
  BY <1>1, <1>2 DEF EndOf, MaxOf

\* The last acknowledgement ends where one of the first k records ends.
LEMMA EndReached ==
  ASSUME NEW acks, acks # {}, NEW k \in Nat, \A a \in acks : \E i \in 0 .. k - 1 : a.off = At(i)
  PROVE  \E j \in 1 .. k : EndOf(acks) = At(j)
<1> DEFINE ends == {a.off + Stride : a \in acks}
<1>1. ASSUME NEW n \in ends
      PROVE  n \in Nat /\ n <= At(k) /\ \E j \in 1 .. k : n = At(j)
  <2>1. PICK a \in acks : n = a.off + Stride
    OBVIOUS
  <2>2. PICK i \in 0 .. k - 1 : a.off = At(i)
    OBVIOUS
  <2>3. At(i) \in Nat /\ At(i + 1) = At(i) + Stride /\ At(i) + Stride <= At(k) /\ Stride \in Nat
    BY Within, Multiples
  <2>4. i + 1 \in 1 .. k
    OBVIOUS
  <2> QED
    BY <2>1, <2>2, <2>3, <2>4
<1>2. ends # {} /\ At(k) \in Nat
  BY Multiples
<1>3. EndOf(acks) = MaxOf(ends)
  BY DEF EndOf
<1> HIDE DEF ends
<1>4. \E n \in ends : \A x \in ends : x <= n
  BY <1>1, <1>2, GreatestBelow
<1>5. MaxOf(ends) \in ends
  BY <1>4 DEF MaxOf
<1> QED
  BY <1>1, <1>3, <1>5

\* The next acknowledgement is the last one.
LEMMA EndGrows ==
  ASSUME NEW acks, NEW e \in Nat, \A a \in acks : \E i \in 0 .. e - 1 : a.off = At(i),
         NEW new, new.off = At(e)
  PROVE  EndOf(acks \union {new}) = At(e + 1)
<1> DEFINE all == acks \union {new}
           ends == {a.off + Stride : a \in all}
<1>1. At(e) \in Nat /\ At(e + 1) = At(e) + Stride /\ Stride \in Nat
  BY Multiples
<1>2. At(e + 1) \in ends
  <2>1. new \in all /\ new.off + Stride = At(e + 1)
    BY <1>1
  <2> HIDE DEF all
  <2> QED
    BY <2>1
<1>3. ASSUME NEW n \in ends PROVE n \in Nat /\ n <= At(e + 1)
  <2>1. PICK a \in all : n = a.off + Stride
    OBVIOUS
  <2>2. CASE a = new
    BY <1>1, <2>1, <2>2
  <2>3. CASE a \in acks
    <3>1. PICK i \in 0 .. e - 1 : a.off = At(i)
      BY <2>3
    <3>2. At(i) \in Nat /\ At(i) + Stride <= At(e)
      BY Within
    <3> QED
      BY <1>1, <2>1, <3>1, <3>2
  <2> QED
    BY <2>2, <2>3
<1>4. EndOf(all) = MaxOf(ends)
  BY DEF EndOf
<1> HIDE DEF ends
<1>5. MaxOf(ends) \in ends /\ \A x \in ends : x <= MaxOf(ends)
  <2>1. \E n \in ends : \A x \in ends : x <= n
    BY <1>2, <1>3
  <2>2. ends # {}
    BY <1>2
  <2> QED
    BY <2>1, <2>2 DEF MaxOf
<1>6. MaxOf(ends) = At(e + 1)
  <2>1. MaxOf(ends) <= At(e + 1) /\ At(e + 1) <= MaxOf(ends) /\ MaxOf(ends) \in Nat
        /\ At(e + 1) \in Nat
    BY <1>2, <1>3, <1>5
  <2> QED
    BY <2>1
<1> QED
  BY <1>4, <1>6

\* What is durable stays as it is when nothing is acknowledged on a clean log.
LEMMA DurableStays ==
  ASSUME OpfsInv, TypeInv', [Next]_vars, CleanAcks' = CleanAcks
  PROVE  Durable' = Durable
<1>1. FileTypes /\ FileTypes'
  BY Files, FilesNext DEF OpfsInv
<1>2. CASE CleanAcks = {}
  <2>1. Solid(idx, pay, 0, 0) /\ Solid(idx', pay', 0, 0)
    BY <1>1, NothingSolid DEF FileTypes
  <2>2. /\ LogOf(idx, pay, At(0)) = Entries(idx, pay, 0)
        /\ LogOf(idx', pay', At(0)) = Entries(idx', pay', 0)
    BY <1>1, <2>1, LogOfSolid DEF FileTypes
  <2>3. Entries(idx', pay', 0) = Entries(idx, pay, 0)
    BY DEF Entries
  <2> QED
    BY <1>2, <2>2, <2>3, DurableIs, EndNone
<1>3. CASE CleanAcks # {}
  <2>1. PICK k, m \in Nat : Base(k, m) /\ Behind(k, m)
    BY <1>3, AcksInBase
  <2>2. ~Pending
    BY <1>3 DEF OpfsInv, Lasting, Nothing
  <2>3. \A a \in CleanAcks : \E i \in 0 .. k - 1 : a.off = At(i)
    BY <2>1 DEF Base
  <2>4. PICK j \in 1 .. k : EndOf(CleanAcks) = At(j)
    BY <1>3, <2>3, EndReached
  <2>5. j \in Nat /\ j \in 0 .. k /\ Solid(idx, pay, k, m)
    BY <2>1 DEF Base
  <2>6. Solid(idx, pay, j, m)
    BY <1>1, <2>5, SolidLess DEF FileTypes
  <2>7. Alike(idx, idx', At(j)) /\ Alike(pay, pay', m)
    <3>1. Alike(idx, idx', At(k)) /\ Alike(pay, pay', m)
      BY <2>1, <2>2, StepAlike
    <3>2. At(j) <= At(k) /\ At(j) \in Nat /\ At(k) \in Nat
      BY <2>5, NotBeyond
    <3>3. Len(idx) \in Nat /\ Len(idx') \in Nat
      BY <1>1 DEF FileTypes
    <3> QED
      BY <3>1, <3>2, <3>3 DEF Alike
  <2>8. /\ Solid(idx', pay', j, m)
        /\ \A i \in 0 .. j - 1 : EntryAt(idx', pay', At(i)) = EntryAt(idx, pay, At(i))
    BY <1>1, <2>5, <2>6, <2>7, SolidStays DEF FileTypes
  <2>9. /\ LogOf(idx, pay, At(j)) = Entries(idx, pay, j)
        /\ LogOf(idx', pay', At(j)) = Entries(idx', pay', j)
    BY <1>1, <2>5, <2>6, <2>8, LogOfSolid DEF FileTypes
  <2>10. Entries(idx', pay', j) = Entries(idx, pay, j)
    <3>1. \A i \in 1 .. j : i - 1 \in 0 .. j - 1
      OBVIOUS
    <3> QED
      BY <2>8, <3>1 DEF Entries
  <2> QED
    BY <2>4, <2>9, <2>10, DurableIs
<1> QED
  BY <1>2, <1>3

\* It grows up to the entry that is acknowledged on a clean log.
LEMMA DurableGrows ==
  ASSUME OpfsInv, Acknowledge, Clean
  PROVE  /\ AppendLog!Extends(Durable', Durable)
         /\ CleanAcks' = CleanAcks \union {[off |-> log.idxBytes, entry |-> job.entry, clean |-> TRUE]}
         /\ Durable'[Len(Durable')] = job.entry
<1> DEFINE new == [off |-> log.idxBytes, entry |-> job.entry, clean |-> TRUE]
<1>1. TypeInv /\ FileTypes /\ PayloadWithin /\ Lasting /\ pc \in Open /\ ~Pending
  BY Files DEF OpfsInv, Acknowledge, Open, Clean, Pending
<1>2. UNCHANGED <<idx, pay>>
  BY DEF Acknowledge
<1>3. CleanAcks' = CleanAcks \union {new}
  <2>1. acked' = acked \union {new}
    BY DEF Acknowledge, Clean
  <2>2. new.clean
    OBVIOUS
  <2> HIDE DEF new
  <2> QED
    BY <2>1, <2>2 DEF CleanAcks
<1>4. PICK e \in Nat : log.idxBytes = At(e) /\ Base(e, log.payBytes)
  BY <1>1, CleanBase
<1>5. Solid(idx, pay, e + 1, log.payBytes + PayLen[job.entry.ev]) /\ EntryAt(idx, pay, At(e)) = job.entry
  BY <1>4, CleanAppend
<1>6. PICK m \in Nat : m = log.payBytes + PayLen[job.entry.ev]
  <2>1. job.entry \in Entry
    BY <1>1 DEF Acknowledge, TypeInv, Appending
  <2>2. PayLen[job.entry.ev] \in Nat /\ log.payBytes \in Nat
    BY <1>1, <2>1, EntryTypes DEF FileTypes
  <2> QED
    BY <2>2
<1>7. Solid(idx, pay, e + 1, m) /\ e + 1 \in Nat
  BY <1>5, <1>6
<1>8. \A a \in CleanAcks : \E i \in 0 .. e - 1 : a.off = At(i)
  BY <1>4 DEF Base
<1>9. EndOf(CleanAcks \union {new}) = At(e + 1)
  <2>1. new.off = At(e)
    BY <1>4
  <2> HIDE DEF new
  <2> QED
    BY <1>8, <2>1, EndGrows
<1>10. Durable' = Entries(idx, pay, e + 1)
  <2>1. LogOf(idx, pay, At(e + 1)) = Entries(idx, pay, e + 1)
    BY <1>1, <1>7, LogOfSolid DEF FileTypes
  <2> HIDE DEF new
  <2> QED
    BY <1>2, <1>3, <1>9, <2>1, DurableIs
<1>11. PICK j \in 0 .. e : EndOf(CleanAcks) = At(j)
  <2>1. CASE CleanAcks = {}
    BY <2>1, EndNone
  <2>2. CASE CleanAcks # {}
    <3>1. PICK j \in 1 .. e : EndOf(CleanAcks) = At(j)
      BY <1>8, <2>2, EndReached
    <3>2. j \in 0 .. e
      OBVIOUS
    <3> QED
      BY <3>1, <3>2
  <2> QED
    BY <2>1, <2>2
<1>12. Durable = Entries(idx, pay, j)
  <2>1. j \in 0 .. e + 1 /\ j \in Nat
    OBVIOUS
  <2>2. Solid(idx, pay, j, m)
    BY <1>1, <1>7, <2>1, SolidLess DEF FileTypes
  <2>3. LogOf(idx, pay, At(j)) = Entries(idx, pay, j)
    BY <1>1, <2>1, <2>2, LogOfSolid DEF FileTypes
  <2> QED
    BY <1>11, <2>3, DurableIs
<1>13. Len(Entries(idx, pay, e + 1)) = e + 1 /\ Len(Entries(idx, pay, j)) = j
  BY DEF Entries
<1>14. SubSeq(Entries(idx, pay, e + 1), 1, j) = Entries(idx, pay, j)
  <2>1. \A i \in 1 .. j : i \in 1 .. e + 1
    OBVIOUS
  <2>2. j \in 0 .. e + 1
    OBVIOUS
  <2> QED
    BY <2>1, <2>2 DEF Entries
<1>15. AppendLog!Extends(Durable', Durable)
  <2>1. e + 1 > j
    OBVIOUS
  <2> QED
    BY <1>10, <1>12, <1>13, <1>14, <2>1 DEF AppendLog!Extends
<1>16. Durable'[Len(Durable')] = job.entry
  <2>1. e + 1 \in 1 .. e + 1 /\ (e + 1) - 1 = e
    OBVIOUS
  <2>2. Entries(idx, pay, e + 1)[e + 1] = EntryAt(idx, pay, At(e))
    BY <2>1 DEF Entries
  <2> QED
    BY <1>5, <1>10, <1>13, <2>2
<1> QED
  BY <1>3, <1>15, <1>16

LEMMA InitImplements == Init => AppendLog!Init
<1> SUFFICES ASSUME Init PROVE AppendLog!Init
  OBVIOUS
<1>1. OpfsInv
  BY InitInv
<1>2. FileTypes /\ CleanAcks = {}
  BY <1>1, Files DEF OpfsInv, Init, CleanAcks
<1>3. Solid(idx, pay, 0, 0)
  BY <1>2, NothingSolid DEF FileTypes
<1>4. LogOf(idx, pay, At(0)) = Entries(idx, pay, 0)
  BY <1>2, <1>3, LogOfSolid DEF FileTypes
<1>5. Entries(idx, pay, 0) = << >>
  BY DEF Entries
<1>6. Durable = << >>
  BY <1>2, <1>4, <1>5, DurableIs, EndNone
<1> QED
  BY <1>2, <1>6 DEF AppendLog!Init

LEMMA StepImplements ==
  ASSUME OpfsInv, TypeInv', [Next]_vars
  PROVE  [AppendLog!Next]_<<Durable, {a.entry : a \in CleanAcks}>>
<1>1. CASE Acknowledge /\ Clean
  <2> DEFINE new == [off |-> log.idxBytes, entry |-> job.entry, clean |-> TRUE]
  <2>1. /\ AppendLog!Extends(Durable', Durable) /\ CleanAcks' = CleanAcks \union {new}
        /\ Durable'[Len(Durable')] = job.entry
    BY <1>1, DurableGrows
  <2>2. {a.entry : a \in CleanAcks'} = {a.entry : a \in CleanAcks} \union {job.entry}
    <3>1. new.entry = job.entry
      OBVIOUS
    <3> HIDE DEF new
    <3> QED
      BY <2>1, <3>1
  <2>3. AppendLog!Add
    BY <2>1, <2>2 DEF AppendLog!Add
  <2> QED
    BY <2>3 DEF AppendLog!Next
<1>2. CASE ~(Acknowledge /\ Clean)
  <2>1. CleanAcks' = CleanAcks
    <3>1. CASE Acknowledge
      <4> DEFINE new == [off |-> log.idxBytes, entry |-> job.entry, clean |-> FALSE]
      <4>1. ~Clean /\ Clean \in BOOLEAN
        BY <1>2, <3>1 DEF Clean
      <4>2. acked' = acked \union {new}
        BY <3>1, <4>1 DEF Acknowledge
      <4>3. ~new.clean
        OBVIOUS
      <4> HIDE DEF new
      <4> QED
        BY <4>2, <4>3 DEF CleanAcks
    <3>2. CASE ~Acknowledge
      <4>1. acked' = acked
        BY <3>2 DEF Next, Migrate, AppendRaw, StartMigration, MigrateRecord, MigrationThrows,
             CommitMigration, StartOpen, FinishOpen, Request, WritePayload, WriteRecord,
             FlushThrows, ScanRequest, SaveInitCache, SaveCheckpoint, Kill, vars
      <4> QED
        BY <4>1 DEF CleanAcks
    <3> QED
      BY <3>1, <3>2
  <2>2. Durable' = Durable
    BY <2>1, DurableStays
  <2> QED
    BY <2>1, <2>2
<1> QED
  BY <1>1, <1>2

\* Up to the last append acknowledged on a clean log the two files are one log that only
\* grows and that holds whatever was acknowledged so: they implement AppendLog.
THEOREM FilesImplementAppendLog == Spec => ImplementsAppendLog
<1>1. Init => OpfsInv
  BY InitInv
<1>2. OpfsInv /\ [Next]_vars => OpfsInv'
  BY StepInv
<1>3. Init => AppendLog!Init
  BY InitImplements
<1>4. OpfsInv /\ OpfsInv' /\ [Next]_vars =>
        [AppendLog!Next]_<<Durable, {a.entry : a \in CleanAcks}>>
  BY StepImplements DEF OpfsInv
<1> QED
  BY <1>1, <1>2, <1>3, <1>4, PTL DEF Spec, ImplementsAppendLog, AppendLog!Spec
=============================================================================
