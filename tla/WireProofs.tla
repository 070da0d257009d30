----------------------------- MODULE WireProofs -----------------------------
(***************************************************************************)
(* Theorems about what the links take for granted, for every input: the    *)
(* frames, for every text, payload and piece of garbage; the layout and    *)
(* the batches of an overlay, for every screen that may be saved; and the  *)
(* date, for every day.  And about the serial link of the original         *)
(* firmware, for any number of requests.                                   *)
(*                                                                         *)
(* The functions of Frames are recursive, or folds.  That each of them     *)
(* obeys the recursion that defines it is the existence of such a function *)
(* (Recursion), by induction on a measure; what it computes then follows   *)
(* by induction on the length of the text.                                 *)
(*                                                                         *)
(* Legacy: no marker is inside a frame (EscapeType), and unescape undoes   *)
(* escape whatever follows (EscapeThenUnescape).                           *)
(*                                                                         *)
(* KANALI: what is kept of a buffer begins where the first frame may start *)
(* (FirstFound), and that is decided by eight bytes that what comes later  *)
(* does not change (FirstStays).  Hence a buffer may be replaced by what   *)
(* is kept of it, and it does not matter how the bytes are cut into reads  *)
(* (AnyPieces).                                                            *)
(*                                                                         *)
(* An overlay: what is selected of a half is known by its ranks            *)
(* (SelectedIs), and a label by the place of its metric in the catalogue   *)
(* (LabelsAre).  Hence the groups of a layout are apart (LayoutPlaced),    *)
(* and a batch, which is computed without the layout, names labels that    *)
(* are there, none twice, and each value as often as it is asked for       *)
(* (BatchReaches).                                                         *)
(*                                                                         *)
(* The date: every day is the one of a century, of four years, of a year   *)
(* and of a day in it, counted from March (DayFound); that fixes the date  *)
(* (DateFound), and the next day is the next in the year, or the first of  *)
(* the next year (Calendar).                                               *)
(*                                                                         *)
(* The serial link: nothing in a reply names its request, so the argument  *)
(* is about what can still arrive: in a clean call nothing is owed when a  *)
(* request is written, hence all that can be read afterwards are pieces of *)
(* one frame, that of the request (OneFrame), and the frame is found only  *)
(* when the last of them is read.  The same cannot be said of a call that  *)
(* sends without waiting.                                                  *)
(***************************************************************************)
EXTENDS MCWire, SequenceTheorems, FiniteSetTheorems, WellFoundedInduction, TLAPS

-----------------------------------------------------------------------------
(* Induction and recursion.                                                *)

\* What holds of 0, and of n + 1 when of n, holds of every number.  (The
\* theorem of the library takes an operator; a set will do.)
LEMMA NatSetInduction ==
  ASSUME NEW S, 0 \in S, \A n \in Nat : n \in S => n + 1 \in S
  PROVE  Nat \subseteq S
<1> DEFINE R == {ss \in Nat \X Nat : ss[1] < ss[2]}
           T == Nat \ S
<1>1. IsWellFoundedOn(R, Nat)
  BY NatLessThanWellFounded DEF OpToRel
<1>2. SUFFICES ASSUME T # {} PROVE FALSE
  OBVIOUS
<1>3. \A a, b \in Nat : <<a, b>> \in R <=> a < b
  OBVIOUS
<1> HIDE DEF R
<1>4. PICK x \in T : \A y \in T : ~(<<y, x>> \in R)
  BY <1>1, <1>2, WFMin
<1>5. x # 0 /\ x - 1 \in Nat /\ x - 1 < x
  BY <1>4
<1>6. x - 1 \notin T
  BY <1>3, <1>4, <1>5
<1>7. x - 1 + 1 \in S
  BY <1>5, <1>6
<1> QED
  BY <1>4, <1>7, <1>5

(* A function f on D whose value at d is given where a recursion stops, and *)
(* elsewhere is made, by op, of its value at rest[d], which is less by m.   *)
WellDefined(D, V, m, stop, base, rest, op) ==
  /\ m \in [D -> Nat] /\ stop \in SUBSET D
  /\ base \in [stop -> V] /\ rest \in [D \ stop -> D] /\ op \in [D \ stop -> [V -> V]]
  /\ \A d \in D \ stop : m[rest[d]] < m[d]
Solution(f, D, V, stop, base, rest, op) ==
  /\ f \in [D -> V]
  /\ \A d \in D : f[d] = IF d \in stop THEN base[d] ELSE op[d][f[rest[d]]]

\* There is such a function.
LEMMA Recursion ==
  ASSUME NEW D, NEW V, NEW m, NEW stop, NEW base, NEW rest, NEW op,
         WellDefined(D, V, m, stop, base, rest, op)
  PROVE  \E f : Solution(f, D, V, stop, base, rest, op)
<1> USE DEF WellDefined
<1> DEFINE Below(n) == {d \in D : m[d] < n}
           Value(f, d) == IF d \in stop THEN base[d] ELSE op[d][f[rest[d]]]
           Solves(f, n) == f \in [Below(n) -> V] /\ \A d \in Below(n) : f[d] = Value(f, d)
<1>1. \A n \in Nat : \E f : Solves(f, n)
  <2> DEFINE S == {n \in Nat : \E f : Solves(f, n)}
  <2>1. 0 \in S
    <3> DEFINE e == [d \in Below(0) |-> base[d]]
    <3>1. Below(0) = {}
      OBVIOUS
    <3>2. Solves(e, 0)
      BY <3>1
    <3> QED BY <3>2
  <2>2. ASSUME NEW n \in Nat, n \in S PROVE n + 1 \in S
    <3>1. PICK f : Solves(f, n)
      BY <2>2
    <3> DEFINE g == [d \in Below(n + 1) |-> Value(f, d)]
    <3>2. ASSUME NEW d \in Below(n + 1), d \notin stop PROVE rest[d] \in Below(n)
      BY <3>2
    <3>3. ASSUME NEW d \in Below(n + 1) PROVE Value(f, d) \in V
      BY <3>1, <3>2, <3>3
    <3>4. \A d \in Below(n) : d \in Below(n + 1) /\ g[d] = f[d]
      BY <3>1
    <3>5. ASSUME NEW d \in Below(n + 1) PROVE g[d] = Value(g, d)
      BY <3>2, <3>4, <3>5
    <3>6. Solves(g, n + 1)
      BY <3>3, <3>5
    <3> HIDE DEF g, Solves
    <3> QED BY <3>6
  <2> HIDE DEF S
  <2>3. Nat \subseteq S
    BY <2>1, <2>2, NatSetInduction
  <2> QED
    BY <2>3 DEF S
<1>2. ASSUME NEW f, NEW g, NEW n \in Nat, NEW k \in Nat, n <= k, Solves(f, n), Solves(g, k)
      PROVE  \A d \in Below(n) : f[d] = g[d]
  <2> DEFINE S == {j \in Nat : \A d \in Below(n) : m[d] < j => f[d] = g[d]}
  <2>1. 0 \in S
    OBVIOUS
  <2>2. ASSUME NEW j \in Nat, j \in S PROVE j + 1 \in S
    <3>1. ASSUME NEW d \in Below(n), m[d] < j + 1 PROVE f[d] = g[d]
      <4>1. d \in Below(k)
        BY <1>2
      <4>2. f[d] = Value(f, d) /\ g[d] = Value(g, d)
        BY <1>2, <4>1
      <4>3. CASE d \in stop
        BY <4>2, <4>3
      <4>4. CASE d \notin stop
        <5>1. rest[d] \in D /\ m[rest[d]] \in Nat /\ m[rest[d]] < m[d]
          BY <4>4
        <5>2. rest[d] \in Below(n) /\ m[rest[d]] < j
          BY <3>1, <5>1
        <5>3. f[rest[d]] = g[rest[d]]
          BY <2>2, <5>2
        <5> QED BY <4>2, <4>4, <5>3
      <4> QED BY <4>3, <4>4
    <3> QED BY <3>1
  <2> HIDE DEF S
  <2>3. Nat \subseteq S
    BY <2>1, <2>2, NatSetInduction
  <2>4. ASSUME NEW d \in Below(n) PROVE f[d] = g[d]
    <3>1. n \in S
      BY <2>3
    <3> QED BY <3>1, <2>4 DEF S
  <2> QED BY <2>4
<1> DEFINE h(n) == CHOOSE f : Solves(f, n)
           F == [d \in D |-> h(m[d] + 1)[d]]
<1>3. \A n \in Nat : Solves(h(n), n)
  BY <1>1
<1> HIDE DEF h
<1>4. ASSUME NEW d \in D
      PROVE  F[d] \in V /\ F[d] = Value(F, d)
  <2> DEFINE n == m[d] + 1
  <2>1. n \in Nat /\ d \in Below(n)
    OBVIOUS
  <2>2. h(n)[d] \in V /\ h(n)[d] = Value(h(n), d)
    BY <1>3, <2>1
  <2>3. CASE d \in stop
    BY <2>2, <2>3
  <2>4. CASE d \notin stop
    <3> DEFINE r == rest[d]
    <3>1. r \in D /\ m[r] \in Nat /\ m[r] < m[d]
      BY <2>4
    <3>2. m[r] + 1 \in Nat /\ m[r] + 1 <= n /\ r \in Below(m[r] + 1)
      BY <3>1
    <3>3. Solves(h(m[r] + 1), m[r] + 1) /\ Solves(h(n), n)
      BY <1>3, <2>1, <3>2
    <3> HIDE DEF Solves
    <3>4. h(m[r] + 1)[r] = h(n)[r]
      BY <1>2, <3>2, <3>3, <2>1
    <3>5. F[r] = h(n)[r]
      BY <3>1, <3>4
    <3> QED BY <2>2, <2>4, <3>5
  <2> QED BY <2>3, <2>4
<1>5. F \in [D -> V] /\ \A d \in D : F[d] = Value(F, d)
  BY <1>4
<1> QED
  BY <1>5 DEF Solution

(* Whatever obeys the recursion has its values in V.                       *)
LEMMA RecursionType ==
  ASSUME NEW D, NEW V, NEW m, NEW stop, NEW base, NEW rest, NEW op,
         WellDefined(D, V, m, stop, base, rest, op), NEW f,
         \A d \in stop : f[d] = base[d],
         \A d \in D \ stop : f[rest[d]] \in V => f[d] = op[d][f[rest[d]]]
  PROVE  \A d \in D : f[d] \in V
<1> USE DEF WellDefined
<1> DEFINE S == {n \in Nat : \A d \in D : m[d] < n => f[d] \in V}
<1>1. 0 \in S
  OBVIOUS
<1>2. ASSUME NEW n \in Nat, n \in S PROVE n + 1 \in S
  <2>1. ASSUME NEW d \in D, m[d] < n + 1 PROVE f[d] \in V
    <3>1. CASE d \in stop
      BY <3>1
    <3>2. CASE d \notin stop
      <4>1. rest[d] \in D /\ m[rest[d]] \in Nat /\ m[d] \in Nat /\ m[rest[d]] < m[d]
        BY <3>2
      <4>2. m[rest[d]] < n
        BY <2>1, <4>1
      <4>3. f[rest[d]] \in V
        BY <1>2, <4>1, <4>2
      <4> QED BY <3>2, <4>3
    <3> QED BY <3>1, <3>2
  <2> QED BY <2>1
<1> HIDE DEF S
<1>3. Nat \subseteq S
  BY <1>1, <1>2, NatSetInduction
<1>4. ASSUME NEW d \in D PROVE f[d] \in V
  <2>1. m[d] \in Nat /\ m[d] < m[d] + 1 /\ m[d] + 1 \in Nat
    OBVIOUS
  <2>2. m[d] + 1 \in S
    BY <1>3, <2>1
  <2> QED BY <2>1, <2>2 DEF S
<1> QED
  BY <1>4

\* What a slice of a sequence is.
LEMMA Slice ==
  ASSUME NEW X, NEW s \in Seq(X), NEW a \in 1..Len(s) + 1, NEW b \in a - 1..Len(s)
  PROVE  /\ SubSeq(s, a, b) \in Seq(X) /\ Len(SubSeq(s, a, b)) = b - a + 1
         /\ \A i \in 1..b - a + 1 : SubSeq(s, a, b)[i] = s[a + i - 1]
<1>1. a \in Int /\ b \in Int /\ \A i \in a..b : s[i] \in X
  OBVIOUS
<1>2. /\ SubSeq(s, a, b) \in Seq(X)
      /\ Len(SubSeq(s, a, b)) = IF a <= b THEN b - a + 1 ELSE 0
      /\ \A i \in 1..b - a + 1 : SubSeq(s, a, b)[i] = s[a + i - 1]
  BY <1>1, SubSeqProperties
<1> QED
  BY <1>2

\* Three texts, one after the other.
LEMMA Associative ==
  ASSUME NEW s \in Seq(Nat), NEW t \in Seq(Nat), NEW u \in Seq(Nat)
  PROVE  (s \o t) \o u = s \o (t \o u)
BY ConcatAssociative, SMTT(30)

(* What FlattenSeq of the library is: the parts, one after the other. *)
LEMMA Flatten ==
  ASSUME NEW X, NEW seqs \in Seq(Seq(X))
  PROVE  \E g \in [0..Len(seqs) -> Seq(X)] :
           /\ g[0] = <<>> /\ FlattenSeq(seqs) = g[Len(seqs)]
           /\ \A i \in 1..Len(seqs) : g[i] = g[i - 1] \o seqs[i]
<1> DEFINE n == Len(seqs)
<1>1. n \in Nat /\ seqs \in [1..n -> Seq(X)]
  OBVIOUS
<1>2. CASE n = 0
  <2> DEFINE g == [i \in {0} |-> <<>>]
  <2>1. g \in [0..n -> Seq(X)] /\ g[0] = <<>> /\ FlattenSeq(seqs) = g[n]
    BY <1>2 DEF FlattenSeq
  <2> HIDE DEF g
  <2> QED BY <1>2, <2>1
<1>3. CASE n # 0
  <2> DEFINE D == 1..n
             V == Seq(X)
             m == [d \in D |-> d]
             stop == {1}
             base == [d \in stop |-> seqs[d]]
             rest == [d \in D \ stop |-> d - 1]
             op == [d \in D \ stop |-> [v \in V |-> v \o seqs[d]]]
  <2>1. WellDefined(D, V, m, stop, base, rest, op)
    <3>1. \A d \in D : \A v \in V : v \o seqs[d] \in V
      BY <1>1, ConcatProperties
    <3>2. op \in [D \ stop -> [V -> V]]
      BY <3>1
    <3> QED BY <1>1, <1>3, <3>2 DEF WellDefined
  <2>2. \E f : Solution(f, D, V, stop, base, rest, op)
    <3> HIDE DEF D, V, m, stop, base, rest, op
    <3> QED BY <2>1, Recursion
  <2>3. PICK f \in [D -> V] : \A d \in D : f[d] = IF d = 1 THEN seqs[d] ELSE f[d - 1] \o seqs[d]
    <3>1. PICK f : Solution(f, D, V, stop, base, rest, op)
      BY <2>2
    <3>2. f \in [D -> V]
      BY <3>1 DEF Solution
    <3>3. \A d \in D : f[d] = IF d \in stop THEN base[d] ELSE op[d][f[rest[d]]]
      BY <3>1 DEF Solution
    <3>4. ASSUME NEW d \in D PROVE f[d] = IF d = 1 THEN seqs[d] ELSE f[d - 1] \o seqs[d]
      <4>1. CASE d = 1
        BY <3>3, <4>1
      <4>2. CASE d # 1
        <5>1. d \in D \ stop /\ d - 1 \in D /\ rest[d] = d - 1 /\ f[d - 1] \in V
          <6>1. d - 1 \in 1..n /\ d \in 1..n
            BY <1>1, <4>2
          <6>2. f[d - 1] \in V
            BY <3>2, <6>1
          <6> QED BY <6>1, <6>2, <4>2
        <5>2. f[d] = op[d][f[d - 1]]
          BY <3>3, <5>1
        <5> QED BY <4>2, <5>1, <5>2
      <4> QED BY <4>1, <4>2
    <3> QED BY <3>2, <3>4
  <2>4. f = [i \in 1..n |-> IF i = 1 THEN seqs[i] ELSE f[i - 1] \o seqs[i]]
    BY <2>3
  <2>5. PICK h : /\ h = [i \in 1..n |-> IF i = 1 THEN seqs[i] ELSE h[i - 1] \o seqs[i]]
                 /\ FlattenSeq(seqs) = h[n]
    BY <1>3, <2>4 DEF FlattenSeq
  <2>a. \A j \in 1..n : j # 1 => h[j] = h[j - 1] \o seqs[j]
    BY <2>5
  <2> DEFINE S == {i \in Nat : i \in 1..n => h[i] \in Seq(X)}
  <2>6. 0 \in S
    OBVIOUS
  <2>7. ASSUME NEW i \in Nat, i \in S PROVE i + 1 \in S
    <3>1. CASE i + 1 \in 1..n /\ i # 0
      <4>1. i + 1 \in 1..n /\ i + 1 # 1 /\ i + 1 - 1 = i /\ i \in 1..n
        BY <1>1, <3>1
      <4> DEFINE j == i + 1
      <4>2. j \in 1..n /\ j # 1 /\ j - 1 = i
        BY <4>1
      <4>3. h[i] \in Seq(X)
        BY <2>7, <4>1
      <4> HIDE DEF j
      <4>4. h[j] = h[i] \o seqs[j] /\ seqs[j] \in Seq(X)
        BY <1>1, <2>a, <4>2
      <4>5. h[j] \in Seq(X)
        BY <4>3, <4>4, ConcatProperties
      <4> QED BY <4>5 DEF j
    <3>2. CASE i = 0
      BY <1>1, <2>5, <3>2
    <3> QED BY <3>1, <3>2
  <2> HIDE DEF S
  <2>8. Nat \subseteq S
    BY <2>6, <2>7, NatSetInduction
  <2>9. \A i \in 1..n : h[i] \in Seq(X)
    BY <2>8 DEF S
  <2> DEFINE g == [i \in 0..n |-> IF i = 0 THEN <<>> ELSE h[i]]
  <2>10. g \in [0..n -> Seq(X)] /\ g[0] = <<>> /\ FlattenSeq(seqs) = g[n]
    BY <1>1, <1>3, <2>5, <2>9
  <2>11. ASSUME NEW i \in 1..n PROVE g[i] = g[i - 1] \o seqs[i]
    <3>1. CASE i = 1
      BY <1>1, <2>5, <3>1, ConcatEmptySeq
    <3>2. CASE i # 1
      <4>1. i - 1 \in 1..n /\ i - 1 \in 0..n /\ i - 1 # 0 /\ i # 0
        BY <1>1, <3>2
      <4>2. g[i] = h[i] /\ g[i - 1] = h[i - 1]
        BY <4>1
      <4>3. h[i] = h[i - 1] \o seqs[i]
        BY <2>5, <3>2
      <4> QED BY <4>2, <4>3
    <3> QED BY <3>1, <3>2
  <2> QED BY <2>10, <2>11
<1> QED
  BY <1>1, <1>2, <1>3

-----------------------------------------------------------------------------
(* The legacy frame.                                                       *)

\* What one byte becomes has no marker.
LEMMA StuffedType ==
  ASSUME NEW b \in Nat
  PROVE  /\ Stuffed(b) \in Seq(Nat) /\ Len(Stuffed(b)) \in Nat
         /\ \A i \in 1..Len(Stuffed(b)) : Stuffed(b)[i] # FRAME_MARKER
<1>1. CASE b = FRAME_MARKER
  BY <1>1 DEF Stuffed, FRAME_MARKER, ESCAPE_MARKER
<1>2. CASE b = ESCAPE_MARKER
  BY <1>2 DEF Stuffed, FRAME_MARKER, ESCAPE_MARKER
<1>3. CASE b \notin {FRAME_MARKER, ESCAPE_MARKER}
  BY <1>3 DEF Stuffed, FRAME_MARKER, ESCAPE_MARKER
<1> QED
  BY <1>1, <1>2, <1>3

\* An escaped text grows byte by byte.
LEMMA EscapeGrows ==
  ASSUME NEW data \in Seq(Nat)
  PROVE  \E g \in [0..Len(data) -> Seq(Nat)] :
           /\ g[0] = <<>> /\ escape(data) = g[Len(data)]
           /\ \A i \in 1..Len(data) : g[i] = g[i - 1] \o Stuffed(data[i])
<1> DEFINE n == Len(data)
           parts == [i \in 1..n |-> Stuffed(data[i])]
<1>1. n \in Nat /\ \A i \in 1..n : data[i] \in Nat
  OBVIOUS
<1>2. \A i \in 1..n : Stuffed(data[i]) \in Seq(Nat)
  BY <1>1, StuffedType
<1>3. parts \in Seq(Seq(Nat)) /\ Len(parts) = n /\ \A i \in 1..n : parts[i] = Stuffed(data[i])
  BY <1>1, <1>2
<1>4. escape(data) = FlattenSeq(parts)
  BY DEF escape
<1> HIDE DEF n, parts
<1>5. \E g \in [0..n -> Seq(Nat)] :
           /\ g[0] = <<>> /\ FlattenSeq(parts) = g[n]
           /\ \A i \in 1..n : g[i] = g[i - 1] \o parts[i]
  BY <1>3, Flatten
<1> QED
  BY <1>3, <1>4, <1>5 DEF n

\* No marker occurs inside a frame.
LEMMA EscapeType ==
  ASSUME NEW data \in Seq(Nat)
  PROVE  /\ escape(data) \in Seq(Nat) /\ Len(escape(data)) \in Nat
         /\ \A i \in 1..Len(escape(data)) : escape(data)[i] # FRAME_MARKER
<1>1. PICK g \in [0..Len(data) -> Seq(Nat)] :
           /\ g[0] = <<>> /\ escape(data) = g[Len(data)]
           /\ \A i \in 1..Len(data) : g[i] = g[i - 1] \o Stuffed(data[i])
  BY EscapeGrows
<1> DEFINE n == Len(data)
           Clear(s) == \A i \in 1..Len(s) : s[i] # FRAME_MARKER
           S == {i \in Nat : i \in 0..n => Clear(g[i])}
<1>2. n \in Nat /\ \A i \in 1..n : data[i] \in Nat
  OBVIOUS
<1>3. 0 \in S
  BY <1>1
<1>4. ASSUME NEW i \in Nat, i \in S PROVE i + 1 \in S
  <2> SUFFICES ASSUME i + 1 \in 0..n PROVE Clear(g[i + 1])
    OBVIOUS
  <2> DEFINE j == i + 1
             s == g[i]
             t == Stuffed(data[j])
  <2>1. i \in 0..n /\ j \in 1..n /\ j - 1 = i
    BY <1>2
  <2>2. Clear(s) /\ s \in Seq(Nat)
    BY <1>1, <1>4, <2>1
  <2> HIDE DEF j
  <2>3. t \in Seq(Nat) /\ Clear(t)
    BY <1>2, <2>1, StuffedType
  <2>4. g[j] = s \o t
    BY <1>1, <2>1
  <2> HIDE DEF s, t
  <2>5. Clear(s \o t)
    <3>1. /\ Len(s \o t) = Len(s) + Len(t) /\ Len(s) \in Nat /\ Len(t) \in Nat
          /\ \A k \in 1..Len(s) + Len(t) : (s \o t)[k] = IF k <= Len(s) THEN s[k] ELSE t[k - Len(s)]
      BY <2>2, <2>3, ConcatProperties, LenProperties
    <3> QED
      BY <2>2, <2>3, <3>1
  <2> QED
    BY <2>4, <2>5 DEF j
<1> HIDE DEF S
<1>5. Nat \subseteq S
  BY <1>3, <1>4, NatSetInduction
<1>6. Clear(g[n])
  BY <1>2, <1>5 DEF S
<1> QED
  BY <1>1, <1>2, <1>6

\* unescape obeys its recursion.
LEMMA UnescapeIs ==
  /\ unescape \in [Seq(Nat) -> Seq(Nat)]
  /\ \A data \in Seq(Nat) :
       unescape[data] =
         IF data = << >> THEN << >>
         ELSE IF Len(data) > 1 /\ data[1] = ESCAPE_MARKER /\ data[2] \in {1, 2}
         THEN <<data[2] + FRAME_MARKER - 1>> \o unescape[From(data, 3)]
         ELSE <<data[1]>> \o unescape[Tail(data)]
<1> DEFINE D == Seq(Nat)
           Pair(d) == Len(d) > 1 /\ d[1] = ESCAPE_MARKER /\ d[2] \in {1, 2}
           m == [d \in D |-> Len(d)]
           stop == {<<>>}
           base == [d \in stop |-> <<>>]
           rest == [d \in D \ stop |-> IF Pair(d) THEN From(d, 3) ELSE Tail(d)]
           byte(d) == IF Pair(d) THEN d[2] + FRAME_MARKER - 1 ELSE d[1]
           op == [d \in D \ stop |-> [v \in D |-> <<byte(d)>> \o v]]
<1>1. ASSUME NEW d \in D, d # <<>>
      PROVE  /\ Tail(d) \in D /\ Len(Tail(d)) < Len(d) /\ byte(d) \in Nat
             /\ Pair(d) => From(d, 3) \in D /\ Len(From(d, 3)) < Len(d)
  <2>1. Tail(d) \in D /\ Len(Tail(d)) < Len(d)
    BY <1>1, HeadTailProperties
  <2>2. byte(d) \in Nat
    BY <1>1 DEF FRAME_MARKER
  <2>3. ASSUME Pair(d) PROVE From(d, 3) \in D /\ Len(From(d, 3)) < Len(d)
    <3>1. 3 \in 1..Len(d) + 1 /\ Len(d) \in 3 - 1..Len(d)
      BY <2>3
    <3> QED BY <2>3, <3>1, Slice DEF From
  <2> QED BY <2>1, <2>2, <2>3
<1>2. WellDefined(D, D, m, stop, base, rest, op)
  <2>1. m \in [D -> Nat] /\ stop \in SUBSET D /\ base \in [stop -> D]
    OBVIOUS
  <2>2. rest \in [D \ stop -> D]
    BY <1>1
  <2>3. op \in [D \ stop -> [D -> D]]
    <3>1. \A d \in D \ stop : \A v \in D : <<byte(d)>> \in Seq(Nat) /\ <<byte(d)>> \o v \in D
      BY <1>1, ConcatProperties
    <3> HIDE DEF byte
    <3> QED BY <3>1
  <2>4. \A d \in D \ stop : m[rest[d]] < m[d]
    BY <1>1
  <2> HIDE DEF D, m, stop, base, rest, op
  <2> QED BY <2>1, <2>2, <2>3, <2>4 DEF WellDefined
<1>3. PICK f : Solution(f, D, D, stop, base, rest, op)
  <2> HIDE DEF D, m, stop, base, rest, op
  <2> QED BY <1>2, Recursion
<1> DEFINE Body(g, d) ==
             IF d = << >> THEN << >>
             ELSE IF Len(d) > 1 /\ d[1] = ESCAPE_MARKER /\ d[2] \in {1, 2}
             THEN <<d[2] + FRAME_MARKER - 1>> \o g[From(d, 3)]
             ELSE <<d[1]>> \o g[Tail(d)]
<1>4. f \in [D -> D] /\ \A d \in D : f[d] = Body(f, d)
  <2>1. f \in [D -> D]
    BY <1>3 DEF Solution
  <2>2. ASSUME NEW d \in D PROVE f[d] = Body(f, d)
    <3>1. f[d] = IF d \in stop THEN base[d] ELSE op[d][f[rest[d]]]
      BY <1>3 DEF Solution
    <3>2. CASE d = <<>>
      BY <3>1, <3>2
    <3>3. CASE d # <<>>
      <4>1. d \in D \ stop /\ rest[d] \in D /\ f[rest[d]] \in D
        BY <1>1, <2>1, <3>3
      <4>2. f[d] = <<byte(d)>> \o f[rest[d]]
        <5> HIDE DEF byte
        <5>1. op[d][f[rest[d]]] = <<byte(d)>> \o f[rest[d]]
          BY <4>1
        <5> QED BY <3>1, <4>1, <5>1
      <4>3. rest[d] = IF Pair(d) THEN From(d, 3) ELSE Tail(d)
        BY <4>1
      <4> QED BY <3>3, <4>2, <4>3
    <3> QED BY <3>2, <3>3
  <2> QED BY <2>1, <2>2
<1>5. f = [d \in Seq(Nat) |-> Body(f, d)]
  BY <1>4
<1>6. unescape = [d \in Seq(Nat) |-> Body(unescape, d)]
  BY <1>5 DEF unescape
<1>7. \A d \in D : unescape[d] \in D
  <2>1. \A d \in stop : unescape[d] = base[d]
    BY <1>6
  <2>2. ASSUME NEW d \in D \ stop, unescape[rest[d]] \in D
        PROVE  unescape[d] = op[d][unescape[rest[d]]]
    <3>1. unescape[d] = Body(unescape, d) /\ rest[d] = IF Pair(d) THEN From(d, 3) ELSE Tail(d)
      BY <1>6
    <3>2. unescape[d] = <<byte(d)>> \o unescape[rest[d]]
      BY <3>1
    <3> HIDE DEF byte
    <3>3. op[d][unescape[rest[d]]] = <<byte(d)>> \o unescape[rest[d]]
      BY <2>2
    <3> QED BY <3>2, <3>3
  <2> HIDE DEF D, m, stop, base, rest, op
  <2> QED BY <1>2, <2>1, <2>2, RecursionType
<1> QED
  BY <1>6, <1>7

\* What one byte becomes is read as that byte, whatever follows.
LEMMA UnescapeByte ==
  ASSUME NEW b \in Nat, NEW t \in Seq(Nat)
  PROVE  unescape[Stuffed(b) \o t] = <<b>> \o unescape[t]
<1> DEFINE d == Stuffed(b) \o t
<1> USE DEF FRAME_MARKER, ESCAPE_MARKER
<1>1. t \in Seq(Nat) /\ Len(t) \in Nat
  OBVIOUS
<1>2. ASSUME NEW k \in {1, 2}, Stuffed(b) = <<91, k>>, b = k + 89
      PROVE  unescape[d] = <<b>> \o unescape[t]
  <2> DEFINE p == <<91, k>>
  <2>1. p \in Seq(Nat) /\ Len(p) = 2 /\ p[1] = 91 /\ p[2] = k
    OBVIOUS
  <2>2. d = p \o t
    BY <1>2
  <2> HIDE DEF p, d
  <2>3. /\ d \in Seq(Nat) /\ Len(d) = 2 + Len(t) /\ d[1] = 91 /\ d[2] = k
        /\ \A i \in 1..Len(t) : d[2 + i] = t[i]
    <3>1. /\ d \in Seq(Nat) /\ Len(d) = Len(p) + Len(t)
          /\ \A i \in 1 .. Len(p) + Len(t) : d[i] = IF i <= Len(p) THEN p[i] ELSE t[i - Len(p)]
      <4> HIDE DEF FRAME_MARKER, ESCAPE_MARKER
      <4>1. p \in Seq(Nat) /\ t \in Seq(Nat)
        BY <2>1
      <4> QED BY <4>1, <2>2, ConcatProperties
    <3>2. d[1] = 91 /\ d[2] = k
      BY <2>1, <3>1
    <3>3. ASSUME NEW i \in 1..Len(t) PROVE d[2 + i] = t[i]
      <4>1. 2 + i \in 1..Len(p) + Len(t) /\ ~(2 + i <= Len(p)) /\ 2 + i - Len(p) = i
        BY <2>1
      <4> DEFINE j == 2 + i
      <4>2. j \in 1..Len(p) + Len(t) /\ ~(j <= Len(p)) /\ j - Len(p) = i
        BY <4>1
      <4> HIDE DEF j
      <4>3. d[j] = t[i]
        BY <3>1, <4>2
      <4> QED BY <4>3 DEF j
    <3> QED BY <2>1, <3>1, <3>2, <3>3
  <2>4. From(d, 3) = t
    <3>1. 3 \in 1..Len(d) + 1 /\ Len(d) \in 3 - 1..Len(d)
      BY <2>3
    <3>2. /\ From(d, 3) \in Seq(Nat) /\ Len(From(d, 3)) = Len(d) - 3 + 1
          /\ \A i \in 1..Len(d) - 3 + 1 : From(d, 3)[i] = d[3 + i - 1]
      BY <2>3, <3>1, Slice DEF From
    <3>3. Len(From(d, 3)) = Len(t)
      BY <2>3, <3>2
    <3>4. \A i \in 1..Len(t) : From(d, 3)[i] = t[i]
      BY <2>3, <3>2
    <3> QED BY <3>2, <3>3, <3>4, SeqEqual
  <2>5. unescape[d] = <<d[2] + FRAME_MARKER - 1>> \o unescape[From(d, 3)]
    <3>1. d # <<>> /\ Len(d) > 1 /\ d[1] = ESCAPE_MARKER /\ d[2] \in {1, 2}
      BY <2>3
    <3> QED BY <2>3, <3>1, UnescapeIs
  <2>6. d[2] + FRAME_MARKER - 1 = b
    BY <1>2, <2>3
  <2> QED
    BY <2>4, <2>5, <2>6
<1>3. ASSUME Stuffed(b) = <<b>>, b # 91
      PROVE  unescape[d] = <<b>> \o unescape[t]
  <2> DEFINE p == <<b>>
  <2>1. p \in Seq(Nat) /\ Len(p) = 1 /\ p[1] = b
    OBVIOUS
  <2>2. d = p \o t
    BY <1>3
  <2> HIDE DEF p, d
  <2>3. /\ d \in Seq(Nat) /\ Len(d) = Len(p) + Len(t)
        /\ \A i \in 1 .. Len(p) + Len(t) : d[i] = IF i <= Len(p) THEN p[i] ELSE t[i - Len(p)]
    BY <2>1, <2>2, ConcatProperties
  <2>4. d # <<>> /\ d[1] = b
    BY <2>1, <2>3
  <2>5. Tail(d) = t
    <3>1. /\ Tail(d) \in Seq(Nat) /\ Len(Tail(d)) = Len(t)
          /\ \A i \in 1 .. Len(Tail(d)) : Tail(d)[i] = d[i + 1]
      BY <2>1, <2>3, <2>4, HeadTailProperties
    <3>2. \A i \in 1..Len(t) : d[i + 1] = t[i]
      BY <2>1, <2>3, SMTT(30)
    <3> QED BY <3>1, <3>2, SeqEqual
  <2>6. unescape[d] = <<d[1]>> \o unescape[Tail(d)]
    BY <1>3, <2>3, <2>4, UnescapeIs
  <2> QED
    BY <2>4, <2>5, <2>6
<1>4. CASE b = 90
  <2>1. Stuffed(b) = <<91, 1>> /\ b = 1 + 89
    BY <1>4 DEF Stuffed
  <2> QED BY <1>2, <2>1
<1>5. CASE b = 91
  <2>1. Stuffed(b) = <<91, 2>> /\ b = 2 + 89
    BY <1>5 DEF Stuffed
  <2> QED BY <1>2, <2>1
<1>6. CASE b \notin {90, 91}
  <2>1. Stuffed(b) = <<b>>
    BY <1>6 DEF Stuffed
  <2> QED BY <1>3, <1>6, <2>1
<1> QED
  BY <1>4, <1>5, <1>6

\* What escape makes of a text is that text again to unescape: no byte is
\* lost to a marker or taken for one (frame.rs, "Reverses [`escape`]").
THEOREM EscapeThenUnescape ==
  ASSUME NEW data \in Seq(Nat)
  PROVE  unescape[escape(data)] = data
<1>1. PICK g \in [0..Len(data) -> Seq(Nat)] :
           /\ g[0] = <<>> /\ escape(data) = g[Len(data)]
           /\ \A i \in 1..Len(data) : g[i] = g[i - 1] \o Stuffed(data[i])
  BY EscapeGrows
<1> DEFINE n == Len(data)
           Upto(i) == SubSeq(data, 1, i)
           S == {i \in Nat : i \in 0..n =>
                   \A t \in Seq(Nat) : unescape[g[i] \o t] = Upto(i) \o unescape[t]}
<1>2. n \in Nat /\ \A i \in 1..n : data[i] \in Nat
  OBVIOUS
<1>3. \A i \in 0..n : Upto(i) \in Seq(Nat)
  <2>1. \A i \in 0..n : 1 \in 1..n + 1 /\ i \in 1 - 1..n
    BY <1>2
  <2> QED BY <2>1, Slice
<1>4. 0 \in S
  <2>1. Upto(0) = <<>>
    BY SubSeqEmpty
  <2>2. ASSUME NEW t \in Seq(Nat) PROVE unescape[g[0] \o t] = Upto(0) \o unescape[t]
    <3>1. g[0] \o t = t
      BY <1>1, ConcatEmptySeq
    <3>2. unescape[t] \in Seq(Nat)
      BY UnescapeIs
    <3> QED BY <2>1, <3>1, <3>2, ConcatEmptySeq
  <2> HIDE DEF Upto
  <2> QED BY <2>2
<1>5. ASSUME NEW i \in Nat, i \in S PROVE i + 1 \in S
  <2> SUFFICES ASSUME i + 1 \in 0..n, NEW t \in Seq(Nat)
               PROVE  unescape[g[i + 1] \o t] = Upto(i + 1) \o unescape[t]
    OBVIOUS
  <2> DEFINE j == i + 1
             b == data[j]
             u == Stuffed(b) \o t
  <2>1. i \in 0..n /\ j \in 1..n /\ j - 1 = i /\ b \in Nat
    BY <1>2
  <2>2. g[i] \in Seq(Nat) /\ Stuffed(b) \in Seq(Nat) /\ u \in Seq(Nat)
    BY <1>1, <2>1, StuffedType, ConcatProperties
  <2>3. unescape[g[i] \o u] = Upto(i) \o unescape[u]
    BY <1>5, <2>1, <2>2
  <2>4. unescape[u] = <<b>> \o unescape[t] /\ unescape[t] \in Seq(Nat)
    BY <2>1, UnescapeByte, UnescapeIs
  <2>5. Upto(j) = Upto(i) \o <<b>>
    <3>1. 1 \in 1..n /\ j \in 1..n
      BY <1>2, <2>1
    <3>2. SubSeq(data, 1, j) = SubSeq(data, 1, j - 1) \o <<data[j]>>
      BY <3>1, SubSeqRecursiveSecond
    <3> QED BY <2>1, <3>2
  <2>6. g[j] \o t = g[i] \o u
    <3>1. g[j] = g[i] \o Stuffed(b)
      BY <1>1, <2>1
    <3> DEFINE x == g[i]
               y == Stuffed(b)
    <3>2. x \in Seq(Nat) /\ y \in Seq(Nat) /\ u = y \o t /\ g[j] = x \o y
      BY <2>2, <3>1
    <3> HIDE DEF x, y, u, j, b
    <3>3. (x \o y) \o t = x \o (y \o t)
      BY <3>2, Associative
    <3> QED BY <3>2, <3>3 DEF x
  <2>7. Upto(j) \o unescape[t] = Upto(i) \o (<<b>> \o unescape[t])
    <3>1. Upto(i) \in Seq(Nat) /\ <<b>> \in Seq(Nat) /\ unescape[t] \in Seq(Nat)
      BY <1>3, <2>1, <2>4
    <3> DEFINE x == Upto(i)
               y == <<b>>
               z == unescape[t]
    <3>2. x \in Seq(Nat) /\ y \in Seq(Nat) /\ z \in Seq(Nat) /\ Upto(j) = x \o y
      BY <2>5, <3>1
    <3> HIDE DEF x, y, z
    <3>3. (x \o y) \o z = x \o (y \o z)
      BY <3>2, Associative
    <3> QED BY <3>2, <3>3 DEF x, y, z
  <2> QED
    BY <2>3, <2>4, <2>6, <2>7
<1> HIDE DEF S
<1>6. Nat \subseteq S
  BY <1>4, <1>5, NatSetInduction
<1>7. unescape[g[n] \o <<>>] = Upto(n) \o unescape[<<>>]
  <2>1. n \in S /\ n \in 0..n /\ <<>> \in Seq(Nat)
    BY <1>2, <1>6
  <2> HIDE DEF n, Upto
  <2> QED BY <2>1 DEF S
<1>8. unescape[<<>>] = <<>>
  <2>1. <<>> \in Seq(Nat)
    OBVIOUS
  <2> QED BY <2>1, UnescapeIs
<1>9. g[n] \o <<>> = g[n] /\ Upto(n) = data /\ Upto(n) \o <<>> = data
  BY <1>1, <1>2, <1>3, ConcatEmptySeq, SubSeqFull
<1> QED
  BY <1>1, <1>7, <1>8, <1>9

\* The sum is that of a fold over a set: of the rest of it, and one byte.
CrcBody(h, data, s) ==
  IF s = {} THEN 0
  ELSE (h[s \ {CHOOSE i \in s : TRUE}] + data[CHOOSE i \in s : TRUE]) % 256

\* crc8 obeys the recursion of a fold.
LEMMA CrcUnfolds ==
  ASSUME NEW data, \E f : f = [s \in SUBSET DOMAIN data |-> CrcBody(f, data, s)]
  PROVE  \E h : /\ h = [s \in SUBSET DOMAIN data |-> CrcBody(h, data, s)]
                /\ crc8(data) = h[DOMAIN data]
BY DEF CrcBody, crc8, FoldSeq, FoldFunction, FoldFunctionOnSet, MapThenFoldSet

\* A checksum is a byte's worth of number.
LEMMA CrcType ==
  ASSUME NEW data \in Seq(Nat)
  PROVE  crc8(data) \in Nat
<1> DEFINE I == DOMAIN data
           D == SUBSET I
           some(s) == CHOOSE i \in s : TRUE
           m == [s \in D |-> Cardinality(s)]
           stop == {{}}
           base == [s \in stop |-> 0]
           rest == [s \in D \ stop |-> s \ {some(s)}]
           op == [s \in D \ stop |-> [v \in Nat |-> (v + data[some(s)]) % 256]]
<1>1. I = 1..Len(data) /\ Len(data) \in Nat /\ \A i \in I : data[i] \in Nat
  OBVIOUS
<1>2. \A s \in D : IsFiniteSet(s) /\ Cardinality(s) \in Nat
  <2>1. IsFiniteSet(I)
    BY <1>1, FS_Interval
  <2> HIDE DEF I
  <2> QED BY <2>1, FS_Subset, FS_CardinalityType
<1>3. ASSUME NEW s \in D, s # {}
      PROVE  /\ some(s) \in s /\ s \ {some(s)} \in D
             /\ Cardinality(s \ {some(s)}) < Cardinality(s)
  <2>1. some(s) \in s
    BY <1>3
  <2>2. Cardinality(s \ {some(s)}) = Cardinality(s) - 1
    BY <1>2, <2>1, FS_RemoveElement
  <2>3. Cardinality(s) \in Nat
    BY <1>2
  <2> HIDE DEF some
  <2> QED BY <2>1, <2>2, <2>3
<1>4. WellDefined(D, Nat, m, stop, base, rest, op)
  <2>1. m \in [D -> Nat] /\ stop \in SUBSET D /\ base \in [stop -> Nat]
    BY <1>2
  <2>2. rest \in [D \ stop -> D]
    BY <1>3
  <2>3. op \in [D \ stop -> [Nat -> Nat]]
    <3>1. \A s \in D \ stop : data[some(s)] \in Nat
      BY <1>1, <1>3
    <3> HIDE DEF some, D, stop
    <3>2. \A s \in D \ stop : \A v \in Nat : (v + data[some(s)]) % 256 \in Nat
      BY <3>1
    <3> QED BY <3>2
  <2>4. \A s \in D \ stop : m[rest[s]] < m[s]
    BY <1>3
  <2> HIDE DEF D, m, stop, base, rest, op
  <2> QED BY <2>1, <2>2, <2>3, <2>4 DEF WellDefined
<1>5. PICK f : Solution(f, D, Nat, stop, base, rest, op)
  <2> HIDE DEF D, m, stop, base, rest, op
  <2> QED BY <1>4, Recursion
<1>b. \A g, s : s # {} => CrcBody(g, data, s) = (g[s \ {some(s)}] + data[some(s)]) % 256
  BY DEF CrcBody
<1> DEFINE Body(g, s) == CrcBody(g, data, s)
<1>6. f = [s \in D |-> Body(f, s)]
  <2>1. f \in [D -> Nat]
    BY <1>5 DEF Solution
  <2>2. ASSUME NEW s \in D PROVE f[s] = Body(f, s)
    <3>1. f[s] = IF s \in stop THEN base[s] ELSE op[s][f[rest[s]]]
      BY <1>5 DEF Solution
    <3>2. CASE s = {}
      BY <3>1, <3>2 DEF CrcBody
    <3>3. CASE s # {}
      <4>1. s \in D \ stop /\ rest[s] = s \ {some(s)} /\ rest[s] \in D /\ f[rest[s]] \in Nat
        BY <1>3, <2>1, <3>3
      <4> HIDE DEF some
      <4> QED BY <1>b, <3>1, <3>3, <4>1, ZenonT(30)
    <3> QED BY <3>2, <3>3
  <2> QED BY <2>1, <2>2
<1>7. PICK h : h = [s \in D |-> Body(h, s)] /\ crc8(data) = h[I]
  BY <1>6, CrcUnfolds
<1>8. \A s \in D : h[s] \in Nat
  <2>1. \A s \in stop : h[s] = base[s]
    BY <1>7 DEF CrcBody
  <2>2. ASSUME NEW s \in D \ stop, h[rest[s]] \in Nat
        PROVE  h[s] = op[s][h[rest[s]]]
    <3>1. rest[s] = s \ {some(s)}
      OBVIOUS
    <3>2. h[s] = Body(h, s)
      BY <1>7
    <3> HIDE DEF some
    <3> QED BY <1>b, <2>2, <3>1, <3>2, ZenonT(30)
  <2> HIDE DEF D, m, stop, base, rest, op
  <2> QED BY <1>4, <2>1, <2>2, RecursionType
<1>9. I \in D
  OBVIOUS
<1> HIDE DEF I, D
<1> QED
  BY <1>7, <1>8, <1>9

\* Two texts, one after the other, and each of them in both.
LEMMA Joined ==
  ASSUME NEW s \in Seq(Nat), NEW t \in Seq(Nat)
  PROVE  /\ s \o t \in Seq(Nat) /\ Len(s \o t) = Len(s) + Len(t)
         /\ Len(s) \in Nat /\ Len(t) \in Nat
         /\ \A i \in 1..Len(s) : (s \o t)[i] = s[i]
         /\ \A i \in 1..Len(t) : (s \o t)[Len(s) + i] = t[i]
         /\ SubSeq(s \o t, 1, Len(s)) = s
         /\ From(s \o t, Len(s) + 1) = t
<1> DEFINE u == s \o t
           m == Len(s)
           n == Len(t)
<1>1. m \in Nat /\ n \in Nat
  OBVIOUS
<1>2. /\ u \in Seq(Nat) /\ Len(u) = m + n
      /\ \A i \in 1..m + n : u[i] = IF i <= m THEN s[i] ELSE t[i - m]
  BY ConcatProperties
<1> HIDE DEF u, m, n
<1>3. \A i \in 1..m : u[i] = s[i]
  BY <1>1, <1>2
<1>4. ASSUME NEW i \in 1..n PROVE u[m + i] = t[i]
  <2> DEFINE j == m + i
  <2>1. j \in 1..m + n /\ ~(j <= m) /\ j - m = i
    BY <1>1
  <2> HIDE DEF j
  <2> QED BY <1>2, <2>1 DEF j
<1>5. SubSeq(u, 1, m) = s
  <2>1. 1 \in 1..Len(u) + 1 /\ m \in 1 - 1..Len(u)
    BY <1>1, <1>2
  <2>2. /\ SubSeq(u, 1, m) \in Seq(Nat) /\ Len(SubSeq(u, 1, m)) = m
        /\ \A i \in 1..m : SubSeq(u, 1, m)[i] = u[i]
    BY <1>1, <1>2, <2>1, Slice
  <2> QED BY <1>3, <2>2, SeqEqual DEF m
<1>6. From(u, m + 1) = t
  <2> DEFINE a == m + 1
             v == SubSeq(u, a, Len(u))
  <2>1. a \in 1..Len(u) + 1 /\ Len(u) \in a - 1..Len(u) /\ Len(u) - a + 1 = n
    BY <1>1, <1>2
  <2>2. /\ v \in Seq(Nat) /\ Len(v) = n
        /\ \A i \in 1..n : v[i] = u[a + i - 1]
    <3> HIDE DEF a
    <3> QED BY <1>2, <2>1, Slice
  <2>3. \A i \in 1..n : a + i - 1 = m + i
    BY <1>1
  <2>4. \A i \in 1..n : v[i] = t[i]
    <3> HIDE DEF a, v
    <3> QED BY <1>4, <2>2, <2>3
  <2>5. v = t
    <3> HIDE DEF v
    <3> QED BY <2>2, <2>4, SeqEqual DEF n
  <2> QED BY <2>5 DEF From
<1> QED
  BY <1>1, <1>2, <1>3, <1>4, <1>5, <1>6 DEF u, m, n

\* Nothing is lost by escaping.
LEMMA EscapeLen ==
  ASSUME NEW data \in Seq(Nat)
  PROVE  Len(escape(data)) >= Len(data)
<1>1. PICK g \in [0..Len(data) -> Seq(Nat)] :
           /\ g[0] = <<>> /\ escape(data) = g[Len(data)]
           /\ \A i \in 1..Len(data) : g[i] = g[i - 1] \o Stuffed(data[i])
  BY EscapeGrows
<1> DEFINE n == Len(data)
           S == {i \in Nat : i \in 0..n => Len(g[i]) >= i}
<1>2. n \in Nat /\ \A i \in 1..n : data[i] \in Nat
  OBVIOUS
<1>3. 0 \in S
  BY <1>1
<1>4. ASSUME NEW i \in Nat, i \in S PROVE i + 1 \in S
  <2> SUFFICES ASSUME i + 1 \in 0..n PROVE Len(g[i + 1]) >= i + 1
    OBVIOUS
  <2> DEFINE j == i + 1
             s == g[i]
             t == Stuffed(data[j])
  <2>1. i \in 0..n /\ j \in 1..n /\ j - 1 = i
    BY <1>2
  <2>2. Len(s) >= i /\ s \in Seq(Nat) /\ Len(s) \in Nat
    BY <1>1, <1>4, <2>1
  <2> HIDE DEF j
  <2>3. t \in Seq(Nat) /\ Len(t) >= 1 /\ Len(t) \in Nat
    <3>1. data[j] \in Nat
      BY <1>2, <2>1
    <3> DEFINE d == data[j]
    <3>2. t \in {<<91, 1>>, <<91, 2>>, <<d>>}
      BY DEF Stuffed, ESCAPE_MARKER, FRAME_MARKER
    <3>3. d \in Nat
      BY <3>1
    <3> HIDE DEF t, d
    <3>4. CASE t = <<91, 1>>
      BY <3>4
    <3>6. CASE t = <<91, 2>>
      BY <3>6
    <3>5. CASE t = <<d>>
      BY <3>3, <3>5
    <3> QED BY <3>2, <3>4, <3>5, <3>6
  <2>4. g[j] = s \o t
    BY <1>1, <2>1
  <2> HIDE DEF s, t
  <2>5. Len(g[j]) = Len(s) + Len(t)
    BY <2>2, <2>3, <2>4, ConcatProperties
  <2> QED
    BY <2>2, <2>3, <2>5 DEF j
<1> HIDE DEF S
<1>5. Nat \subseteq S
  BY <1>3, <1>4, NatSetInduction
<1> QED
  BY <1>1, <1>2, <1>5 DEF S

\* A least member is the minimum.
LEMMA MinIs ==
  ASSUME NEW S \in SUBSET Nat, NEW x \in S, \A y \in S : x <= y
  PROVE  Min(S) = x
<1>1. \A y \in S : (\A z \in S : y <= z) => y = x
  OBVIOUS
<1> QED
  BY <1>1 DEF Min

Unmarked(bytes) == \A i \in 1..Len(bytes) : bytes[i] # FRAME_MARKER

Found(sent, text, before, after) ==
  /\ Len(sent) = Len(text) + 2 /\ SubSeq(sent, 2, Len(sent) - 1) = text
  /\ LegacyFrame(before \o sent \o after) = [frame |-> sent, left |-> after]
  /\ \A k \in 0..(Len(sent) - 1) : LegacyFrame(before \o SubSeq(sent, 1, k)).frame = <<>>

(* A frame is found behind what has no marker, and not before it is whole. *)
LEMMA FrameFound ==
  ASSUME NEW text \in Seq(Nat), Unmarked(text), NEW before \in Seq(Nat), Unmarked(before),
         NEW after \in Seq(Nat), NEW sent, sent = <<FRAME_MARKER>> \o text \o <<FRAME_MARKER>>
  PROVE  Found(sent, text, before, after)
<1> USE DEF Unmarked
<1> DEFINE M == <<FRAME_MARKER>>
           n == Len(text)
           p == Len(before)
<1>1. M \in Seq(Nat) /\ Len(M) = 1 /\ M[1] = FRAME_MARKER /\ n \in Nat /\ p \in Nat
  BY DEF FRAME_MARKER
<1> HIDE DEF M
<1> DEFINE head == M \o text
<1>2. /\ head \in Seq(Nat) /\ Len(head) = n + 1 /\ head[1] = FRAME_MARKER
      /\ \A i \in 1..n : head[1 + i] = text[i]
      /\ From(head, 2) = text
  <2>1. /\ head \in Seq(Nat) /\ Len(head) = Len(M) + Len(text)
        /\ \A i \in 1..Len(M) : head[i] = M[i]
        /\ \A i \in 1..Len(text) : head[Len(M) + i] = text[i]
        /\ From(head, Len(M) + 1) = text
    BY <1>1, Joined
  <2> HIDE DEF head
  <2>2. 1 \in 1..Len(M) /\ Len(M) + 1 = 2 /\ Len(head) = n + 1
    BY <1>1, <2>1
  <2>3. head[1] = FRAME_MARKER
    BY <1>1, <2>1, <2>2
  <2>4. \A i \in 1..n : head[1 + i] = text[i]
    BY <1>1, <2>1
  <2>5. From(head, 2) = text
    BY <2>1, <2>2
  <2> QED BY <2>1, <2>2, <2>3, <2>4, <2>5
<1> HIDE DEF head
<1>3. sent = head \o M
  BY DEF head, M
<1>4. /\ sent \in Seq(Nat) /\ Len(sent) = n + 2
      /\ \A i \in 1..n + 1 : sent[i] = head[i]
      /\ sent[n + 2] = FRAME_MARKER
  <2>1. /\ sent \in Seq(Nat) /\ Len(sent) = Len(head) + Len(M)
        /\ \A i \in 1..Len(head) : sent[i] = head[i]
        /\ \A i \in 1..Len(M) : sent[Len(head) + i] = M[i]
        /\ From(sent, Len(head) + 1) = M
    <3> DEFINE x == head \o M
    <3>1. /\ x \in Seq(Nat) /\ Len(x) = Len(head) + Len(M)
          /\ \A i \in 1..Len(head) : x[i] = head[i]
          /\ \A i \in 1..Len(M) : x[Len(head) + i] = M[i]
          /\ From(x, Len(head) + 1) = M
      BY <1>1, <1>2, Joined, ZenonT(30)
    <3> HIDE DEF x
    <3>2. sent = x
      BY <1>3 DEF x
    <3> QED BY <3>1, <3>2
  <2>2. Len(head) + 1 = n + 2 /\ Len(sent) = n + 2 /\ 1 \in 1..Len(M)
    BY <1>1, <1>2, <2>1
  <2>3. sent[Len(head) + 1] = M[1]
    BY <2>1, <2>2
  <2>4. \A i \in 1..n + 1 : sent[i] = head[i]
    BY <1>1, <1>2, <2>1
  <2> QED BY <1>1, <2>1, <2>2, <2>3, <2>4
<1>5. sent[1] = FRAME_MARKER /\ \A i \in 2..n + 1 : sent[i] # FRAME_MARKER /\ sent[i] = text[i - 1]
  <2>1. sent[1] = FRAME_MARKER
    BY <1>1, <1>2, <1>4
  <2>2. ASSUME NEW i \in 2..n + 1 PROVE sent[i] # FRAME_MARKER /\ sent[i] = text[i - 1]
    <3> DEFINE j == i - 1
    <3>1. j \in 1..n /\ 1 + j = i /\ i \in 1..n + 1
      BY <1>1
    <3> HIDE DEF j
    <3>2. head[i] = text[j]
      BY <1>2, <3>1
    <3> QED BY <1>4, <3>1, <3>2 DEF j
  <2> QED BY <2>1, <2>2
<1>6. SubSeq(sent, 2, Len(sent) - 1) = text
  <2> DEFINE v == SubSeq(sent, 2, n + 1)
  <2>1. 2 \in 1..Len(sent) + 1 /\ n + 1 \in 2 - 1..Len(sent)
    BY <1>1, <1>4
  <2>2. /\ v \in Seq(Nat) /\ Len(v) = n + 1 - 2 + 1
        /\ \A i \in 1..n + 1 - 2 + 1 : v[i] = sent[2 + i - 1]
    BY <1>4, <2>1, Slice
  <2> HIDE DEF v
  <2>3. Len(v) = n
    BY <1>1, <2>2
  <2>4. ASSUME NEW i \in 1..n PROVE v[i] = text[i]
    <3> DEFINE j == 2 + i - 1
    <3>1. j \in 2..n + 1 /\ j - 1 = i /\ i \in 1..n + 1 - 2 + 1
      BY <1>1
    <3>2. v[i] = sent[j]
      BY <2>2, <3>1
    <3> HIDE DEF j
    <3> QED BY <1>5, <3>1, <3>2
  <2>5. v = text
    BY <2>2, <2>3, <2>4, SeqEqual
  <2>6. Len(sent) - 1 = n + 1
    BY <1>1, <1>4
  <2> QED BY <2>5, <2>6 DEF v
<1>7. LegacyFrame(before \o sent \o after) = [frame |-> sent, left |-> after]
  <2> DEFINE u == before \o sent
             b == u \o after
             start == p + 1
             end == p + n + 2
             markers == {i \in 1..Len(b) : b[i] = FRAME_MARKER}
  <2>1. /\ u \in Seq(Nat) /\ Len(u) = p + (n + 2)
        /\ \A i \in 1..p : u[i] = before[i]
        /\ \A i \in 1..n + 2 : u[p + i] = sent[i]
        /\ From(u, p + 1) = sent
    <3>1. /\ u \in Seq(Nat) /\ Len(u) = Len(before) + Len(sent)
          /\ \A i \in 1..Len(before) : u[i] = before[i]
          /\ \A i \in 1..Len(sent) : u[Len(before) + i] = sent[i]
          /\ From(u, Len(before) + 1) = sent
      BY <1>4, Joined
    <3> HIDE DEF u
    <3> QED BY <1>4, <3>1
  <2> HIDE DEF u
  <2>2. /\ b \in Seq(Nat) /\ Len(b) = Len(u) + Len(after) /\ Len(after) \in Nat
        /\ \A i \in 1..Len(u) : b[i] = u[i]
        /\ SubSeq(b, 1, Len(u)) = u
        /\ From(b, Len(u) + 1) = after
    BY <2>1, Joined
  <2> HIDE DEF b
  <2>3. ASSUME NEW i \in 1..end PROVE (b[i] = FRAME_MARKER) <=> i \in {start, end}
    <3>0. i \in Nat /\ i >= 1 /\ i <= p + n + 2
      BY <1>1
    <3>1. b[i] = u[i]
      <4>1. i \in 1..Len(u)
        BY <1>1, <2>1, <3>0
      <4> QED BY <2>2, <4>1
    <3>2. CASE i <= p
      <4>1. i \in 1..p /\ i # start /\ i # end
        BY <1>1, <3>0, <3>2
      <4>2. u[i] = before[i]
        BY <2>1, <4>1
      <4> HIDE DEF start, end
      <4> QED BY <3>1, <4>1, <4>2
    <3>3. CASE i > p
      <4> DEFINE j == i - p
      <4>1. j \in 1..n + 2 /\ p + j = i
        BY <1>1, <3>3
      <4>2. u[i] = sent[j]
        BY <2>1, <4>1
      <4>3. (sent[j] = FRAME_MARKER) <=> j \in {1, n + 2}
        <5> HIDE DEF j
        <5> QED BY <1>1, <1>4, <1>5, <4>1, SMTT(30)
      <4>4. (j \in {1, n + 2}) <=> (i \in {start, end})
        BY <1>1, <4>1
      <4> QED BY <3>1, <4>2, <4>3, <4>4
    <3> QED BY <1>1, <3>2, <3>3
  <2>4. /\ start \in markers /\ end \in markers /\ start < end /\ markers \subseteq Nat
        /\ \A i \in markers : i = start \/ i >= end
    <3>1. start \in 1..end /\ end \in 1..end /\ start < end /\ end \in 1..Len(b) /\ start \in 1..Len(b)
      <4>1. Len(b) = p + (n + 2) + Len(after) /\ Len(after) \in Nat
        BY <2>1, <2>2
      <4> DEFINE l == Len(b)
      <4> HIDE DEF l
      <4>2. l = p + (n + 2) + Len(after)
        BY <4>1 DEF l
      <4>3. start \in 1..l /\ end \in 1..l /\ start < end /\ start \in 1..end /\ end \in 1..end
        BY <1>1, <4>1, <4>2
      <4> QED BY <4>3 DEF l
    <3>2. start \in markers /\ end \in markers
      <4> HIDE DEF start, end
      <4> QED BY <2>3, <3>1
    <3>3. ASSUME NEW i \in markers PROVE i = start \/ i >= end
      <4>1. i \in Nat /\ i >= 1 /\ b[i] = FRAME_MARKER
        OBVIOUS
      <4>2. CASE i < end
        <5>1. i \in 1..end
          BY <1>1, <4>1, <4>2
        <5> QED BY <2>3, <4>1, <4>2, <5>1
      <4> QED BY <1>1, <4>1, <4>2
    <3> QED BY <3>1, <3>2, <3>3
  <2>a. start \in Nat /\ end \in Nat
    BY <1>1
  <2> HIDE DEF start, end, markers
  <2>5. Min(markers) = start
    <3>1. \A y \in markers : start <= y
      BY <2>a, <2>4
    <3> QED BY <2>4, <3>1, MinIs
  <2>6. Min(markers \ {start}) = end
    <3> DEFINE S == markers \ {start}
    <3>1. S \in SUBSET Nat /\ end \in S /\ \A y \in S : end <= y
      BY <2>a, <2>4
    <3> HIDE DEF S
    <3>2. Min(S) = end
      BY <3>1, MinIs
    <3> QED BY <3>2 DEF S
  <2>7. \E i, j \in markers : i # j
    BY <2>a, <2>4
  <2>8. SubSeq(b, start, end) = sent
    <3> DEFINE v == SubSeq(b, start, end)
    <3> DEFINE l == Len(b)
    <3>a. l = p + (n + 2) + Len(after) /\ Len(after) \in Nat
      BY <2>1, <2>2
    <3> HIDE DEF l
    <3>b. start \in 1..l + 1 /\ end \in start - 1..l /\ end - start + 1 = n + 2
      BY <1>1, <3>a DEF start, end
    <3>1. start \in 1..Len(b) + 1 /\ end \in start - 1..Len(b)
      BY <3>b DEF l
    <3>2. /\ v \in Seq(Nat) /\ Len(v) = n + 2
          /\ \A i \in 1..n + 2 : v[i] = b[start + i - 1]
      <4>1. /\ v \in Seq(Nat) /\ Len(v) = end - start + 1
            /\ \A i \in 1..end - start + 1 : v[i] = b[start + i - 1]
        BY <2>2, <3>1, Slice
      <4> HIDE DEF v
      <4> QED BY <3>b, <4>1
    <3> HIDE DEF v
    <3>3. ASSUME NEW i \in 1..n + 2 PROVE v[i] = sent[i]
      <4> DEFINE j == p + i
      <4>1. start + i - 1 = j /\ j \in 1..Len(u)
        BY <1>1, <2>1 DEF start
      <4>2. v[i] = b[j]
        BY <3>2, <4>1
      <4>3. u[j] = sent[i]
        BY <2>1
      <4> HIDE DEF j
      <4> QED BY <2>2, <4>1, <4>2, <4>3
    <3>4. v = sent
      BY <1>4, <3>2, <3>3, SeqEqual, SMTT(30)
    <3> QED BY <3>4 DEF v
  <2>9. From(b, end + 1) = after
    <3>1. end = Len(u)
      BY <1>1, <2>1 DEF end
    <3> QED BY <2>2, <3>1
  <2>10. LegacyFrame(b) = [frame |-> SubSeq(b, start, end), left |-> From(b, end + 1)]
    BY <2>5, <2>6, <2>7 DEF LegacyFrame, markers
  <2> QED BY <2>8, <2>9, <2>10 DEF b, u
<1>8. ASSUME NEW k \in 0..(Len(sent) - 1)
      PROVE  LegacyFrame(before \o SubSeq(sent, 1, k)).frame = <<>>
  <2> DEFINE v == SubSeq(sent, 1, k)
             b == before \o v
             markers == {i \in 1..Len(b) : b[i] = FRAME_MARKER}
  <2>1. /\ v \in Seq(Nat) /\ Len(v) = k /\ k \in Nat /\ k <= n + 1
        /\ \A i \in 1..k : v[i] = sent[i]
    <3>1. 1 \in 1..Len(sent) + 1 /\ k \in 1 - 1..Len(sent) /\ k \in Nat /\ k <= n + 1
      BY <1>1, <1>4
    <3>2. /\ v \in Seq(Nat) /\ Len(v) = k - 1 + 1
          /\ \A i \in 1..k - 1 + 1 : v[i] = sent[1 + i - 1]
      BY <1>4, <3>1, Slice, SMTT(30)
    <3> HIDE DEF v
    <3>3. k - 1 + 1 = k /\ \A i \in 1..k : 1 + i - 1 = i
      BY <3>1
    <3>4. \A i \in 1..k : v[i] = sent[i]
      BY <3>2, <3>3
    <3> QED BY <3>1, <3>2, <3>3, <3>4
  <2> HIDE DEF v
  <2>2. /\ b \in Seq(Nat) /\ Len(b) = p + k
        /\ \A i \in 1..p : b[i] = before[i]
        /\ \A i \in 1..k : b[p + i] = v[i]
    BY <2>1, Joined
  <2> HIDE DEF b
  <2>3. ASSUME NEW i \in markers PROVE i = p + 1
    <3>1. i \in 1..p + k /\ b[i] = FRAME_MARKER
      BY <2>2
    <3>2. i > p
      <4>1. ASSUME i <= p PROVE FALSE
        <5>1. i \in 1..p
          BY <3>1, <4>1
        <5> QED BY <2>2, <3>1, <5>1
      <4> QED BY <1>1, <2>1, <3>1, <4>1
    <3> DEFINE j == i - p
    <3>3. j \in 1..k /\ p + j = i /\ j \in 1..n + 1
      BY <1>1, <2>1, <3>1, <3>2
    <3>4. sent[j] = FRAME_MARKER
      <4> HIDE DEF j
      <4> QED BY <2>1, <2>2, <3>1, <3>3
    <3>5. j = 1
      <4> HIDE DEF j
      <4> QED BY <1>1, <1>5, <3>3, <3>4, SMTT(30)
    <3> QED BY <3>3, <3>5
  <2>4. ~\E i, j \in markers : i # j
    BY <2>3
  <2>5. LegacyFrame(b) = [frame |-> <<>>, left |-> b]
    BY <2>4 DEF LegacyFrame
  <2> QED BY <2>5 DEF b, v
<1> QED
  BY <1>4, <1>6, <1>7, <1>8 DEF Found

(* What is framed is read as it was.                                       *)
LEMMA ParseWrapped ==
  ASSUME NEW text \in Seq(Nat)
  PROVE  \E e \in Seq(Nat) :
           /\ Unmarked(e)
           /\ wrap(text) = <<FRAME_MARKER>> \o e \o <<FRAME_MARKER>>
           /\ \A frame : Len(frame) = Len(e) + 2 /\ SubSeq(frame, 2, Len(frame) - 1) = e =>
                parse_response(frame) =
                  <<[text |-> text, checksum_ok |-> TRUE, length_ok |-> TRUE]>>
<1> DEFINE length == Len(text) + FRAMING_OVERHEAD
           hi == length \div 256
           lo == length % 256
           two == <<hi, lo>>
           raw == two \o text
           sum == crc8(raw)
           whole == Append(raw, sum)
           e == escape(whole)
<1>1. Len(text) \in Nat /\ hi \in Nat /\ lo \in Nat /\ hi * 256 + lo = Len(text) + FRAMING_OVERHEAD
  BY DEF FRAMING_OVERHEAD
<1> HIDE DEF hi, lo
<1>2. two \in Seq(Nat) /\ Len(two) = 2 /\ two[1] = hi /\ two[2] = lo
  BY <1>1
<1> HIDE DEF two
<1>3. /\ raw \in Seq(Nat) /\ Len(raw) = 2 + Len(text) /\ raw[1] = hi /\ raw[2] = lo
      /\ From(raw, 3) = text
  <2>1. /\ raw \in Seq(Nat) /\ Len(raw) = Len(two) + Len(text)
        /\ \A i \in 1..Len(two) : raw[i] = two[i]
        /\ \A i \in 1..Len(text) : raw[Len(two) + i] = text[i]
        /\ From(raw, Len(two) + 1) = text
    BY <1>2, Joined
  <2> HIDE DEF raw
  <2>2. 1 \in 1..Len(two) /\ 2 \in 1..Len(two) /\ Len(two) + 1 = 3
    BY <1>2
  <2>3. raw[1] = hi /\ raw[2] = lo
    BY <1>2, <2>1, <2>2
  <2> QED BY <1>2, <2>1, <2>2, <2>3
<1> HIDE DEF raw
<1>4. sum \in Nat
  BY <1>3, CrcType
<1>s. sum = crc8(raw)
  OBVIOUS
<1> HIDE DEF sum
<1>5. whole \in Seq(Nat) /\ Len(whole) = Len(text) + 3 /\ whole[Len(whole)] = sum
  BY <1>1, <1>3, <1>4, AppendProperties
<1>6. Front(whole) = raw /\ Last(whole) = sum
  <2>1. Front(whole) = SubSeq(whole, 1, Len(whole) - 1) /\ Last(whole) = whole[Len(whole)]
    BY DEF Front, Last
  <2> DEFINE M == <<sum>>
  <2>2. whole = raw \o M /\ M \in Seq(Nat)
    BY <1>3, <1>4, AppendIsConcat
  <2> HIDE DEF whole, M
  <2>3. SubSeq(whole, 1, Len(raw)) = raw
    BY <1>3, <2>2, Joined
  <2>4. Len(whole) - 1 = Len(raw)
    BY <1>1, <1>3, <1>5
  <2> QED BY <1>5, <2>1, <2>3, <2>4
<1> HIDE DEF whole
<1>7. /\ e \in Seq(Nat) /\ Len(e) \in Nat /\ \A i \in 1..Len(e) : e[i] # FRAME_MARKER
      /\ Len(e) >= 3 /\ unescape[e] = whole
  <2>1. /\ e \in Seq(Nat) /\ Len(e) \in Nat /\ \A i \in 1..Len(e) : e[i] # FRAME_MARKER
        /\ Len(e) >= Len(whole) /\ unescape[e] = whole
    BY <1>5, EscapeType, EscapeLen, EscapeThenUnescape
  <2> HIDE DEF e
  <2>2. Len(e) >= 3
    BY <1>1, <1>5, <2>1
  <2> QED BY <2>1, <2>2
<1>8. wrap(text) = <<FRAME_MARKER>> \o e \o <<FRAME_MARKER>>
  BY DEF wrap, whole, sum, raw, two, hi, lo
<1> HIDE DEF e
<1>9. ASSUME NEW frame, Len(frame) = Len(e) + 2, SubSeq(frame, 2, Len(frame) - 1) = e
      PROVE  parse_response(frame) =
               <<[text |-> text, checksum_ok |-> TRUE, length_ok |-> TRUE]>>
  <2>1. ~(Len(frame) < 4 \/ Len(whole) < 3)
    BY <1>1, <1>5, <1>7, <1>9
  <2>2. unescape[SubSeq(frame, 2, Len(frame) - 1)] = whole
    BY <1>7, <1>9
  <2>3. parse_response(frame) =
          <<[text |-> From(raw, 3),
             checksum_ok |-> crc8(raw) = sum,
             length_ok |-> raw[1] * 256 + raw[2] = Len(From(raw, 3)) + FRAMING_OVERHEAD]>>
    BY <1>6, <2>1, <2>2 DEF parse_response
  <2>4. (crc8(raw) = sum) = TRUE
    BY <1>s
  <2>5. (raw[1] * 256 + raw[2] = Len(From(raw, 3)) + FRAMING_OVERHEAD) = TRUE
    BY <1>1, <1>3
  <2> QED BY <1>3, <2>3, <2>4, <2>5
<1> QED
  BY <1>7, <1>8, <1>9 DEF Unmarked

\* A legacy frame is found behind bytes that are no markers, whatever follows
\* it, not before it is whole, and reads as the text that was sent with its
\* length and checksum (frame.rs, "Marker bytes never occur inside a frame").
\* It holds of texts that wrap refuses, too, which are too long for two bytes.
THEOREM LegacyFramesArrive ==
  ASSUME NEW i, i.text \in Seq(Nat), i.before \in Seq(Nat), i.after \in Seq(Nat),
         Unmarked(i.before)
  PROVE  LegacyArrives(i)
<1>1. PICK e \in Seq(Nat) :
           /\ Unmarked(e)
           /\ wrap(i.text) = <<FRAME_MARKER>> \o e \o <<FRAME_MARKER>>
           /\ \A frame : Len(frame) = Len(e) + 2 /\ SubSeq(frame, 2, Len(frame) - 1) = e =>
                parse_response(frame) =
                  <<[text |-> i.text, checksum_ok |-> TRUE, length_ok |-> TRUE]>>
  BY ParseWrapped
<1> DEFINE sent == wrap(i.text)
<1>2. /\ Len(sent) = Len(e) + 2 /\ SubSeq(sent, 2, Len(sent) - 1) = e
      /\ LegacyFrame(i.before \o sent \o i.after) = [frame |-> sent, left |-> i.after]
      /\ \A k \in 0..(Len(sent) - 1) : LegacyFrame(i.before \o SubSeq(sent, 1, k)).frame = <<>>
  <2>1. sent = <<FRAME_MARKER>> \o e \o <<FRAME_MARKER>>
    BY <1>1
  <2> HIDE DEF sent
  <2> DEFINE before == i.before
             after == i.after
  <2>2. /\ before \in Seq(Nat) /\ after \in Seq(Nat)
        /\ Unmarked(before)
    OBVIOUS
  <2> HIDE DEF before, after
  <2>3. Found(sent, e, before, after)
    <3>1. e \in Seq(Nat) /\ Unmarked(e)
      BY <1>1
    <3> QED BY <2>1, <2>2, <3>1, FrameFound
  <2> QED BY <2>3 DEF Found, before, after
<1>3. parse_response(sent) = <<[text |-> i.text, checksum_ok |-> TRUE, length_ok |-> TRUE]>>
  BY <1>1, <1>2
<1> HIDE DEF sent
<1> QED
  BY <1>2, <1>3 DEF LegacyArrives, sent

-----------------------------------------------------------------------------
(* The frames of KANALI.  What is at i is the head of a frame, or what is  *)
(* there of it may be one.                                                 *)
MagicAt(b, i) ==
  /\ i <= Len(b) => b[i] = 84
  /\ i + 1 <= Len(b) => b[i + 1] = 82
  /\ i + 2 <= Len(b) => b[i + 2] = 89
  /\ i + 3 <= Len(b) => b[i + 3] = 88
LengthAt(b, i) ==
  i + 7 <= Len(b) =>
    b[i + 7] = 0 /\ b[i + 4] + 256 * b[i + 5] + 65536 * b[i + 6] <= MAX_PAYLOAD_LEN
MayStart(b, i) == MagicAt(b, i) /\ LengthAt(b, i)
FirstAt(b, i) ==
  /\ i \in 1..Len(b) + 1 /\ MayStart(b, i)
  /\ \A j \in 1..Len(b) + 1 : j < i => ~MayStart(b, j)

\* What the end of a text is.
LEMMA Suffix ==
  ASSUME NEW b \in Seq(Nat), NEW i \in 1..Len(b) + 1
  PROVE  /\ From(b, i) \in Seq(Nat) /\ Len(From(b, i)) = Len(b) - i + 1
         /\ Len(From(b, i)) \in Nat
         /\ \A k \in 1..Len(b) - i + 1 : From(b, i)[k] = b[i + k - 1]
<1> DEFINE n == Len(b)
<1>1. n \in Nat /\ n \in i - 1..Len(b) /\ n - i + 1 \in Nat
  OBVIOUS
<1>2. /\ SubSeq(b, i, n) \in Seq(Nat) /\ Len(SubSeq(b, i, n)) = n - i + 1
      /\ \A k \in 1..n - i + 1 : SubSeq(b, i, n)[k] = b[i + k - 1]
  BY <1>1, Slice
<1> QED
  BY <1>1, <1>2 DEF From

\* A frame may start in the end of a text where it may in the text.
LEMMA SuffixStarts ==
  ASSUME NEW b \in Seq(Nat), NEW i \in 1..Len(b) + 1, NEW k \in 1..Len(b) - i + 2
  PROVE  /\ MagicAt(From(b, i), k) <=> MagicAt(b, i + k - 1)
         /\ LengthAt(From(b, i), k) <=> LengthAt(b, i + k - 1)
<1> DEFINE c == From(b, i)
           n == Len(b)
<1>1. n \in Nat /\ Len(c) = n - i + 1 /\ \A j \in 1..n - i + 1 : c[j] = b[i + j - 1]
  BY Suffix
<1> HIDE DEF c, n
<1>2. ASSUME NEW d \in 0..7
      PROVE  /\ k + d <= Len(c) <=> i + k - 1 + d <= n
             /\ k + d <= Len(c) => c[k + d] = b[i + k - 1 + d]
  <2>1. k + d <= Len(c) <=> i + k - 1 + d <= n
    BY <1>1 DEF n
  <2>2. ASSUME k + d <= Len(c) PROVE c[k + d] = b[i + k - 1 + d]
    <3> DEFINE j == k + d
    <3>1. j \in 1..n - i + 1 /\ i + j - 1 = i + k - 1 + d
      BY <1>1, <2>2 DEF n
    <3> HIDE DEF j
    <3>2. c[j] = b[i + j - 1]
      BY <1>1, <3>1
    <3> QED BY <3>1, <3>2 DEF j
  <2> QED BY <2>1, <2>2
<1>3. 0 \in 0..7 /\ 1 \in 0..7 /\ 2 \in 0..7 /\ 3 \in 0..7 /\ 4 \in 0..7 /\ 5 \in 0..7 /\ 6 \in 0..7 /\ 7 \in 0..7
  OBVIOUS
<1> DEFINE m == i + k - 1
<1>4. m \in Nat /\ k \in Nat /\ Len(c) \in Int /\ n \in Nat /\ m + 0 = m /\ k + 0 = k
  BY <1>1 DEF n
<1>5. \A d \in 0..7 : /\ k + d <= Len(c) <=> m + d <= n
                      /\ k + d <= Len(c) => c[k + d] = b[m + d]
  BY <1>2
<1> HIDE DEF m
<1>6. /\ k <= Len(c) <=> m <= n
      /\ k <= Len(c) => c[k] = b[m]
  BY <1>3, <1>4, <1>5
<1>7. MagicAt(c, k) <=> MagicAt(b, m)
  <2>1. /\ k + 1 <= Len(c) <=> m + 1 <= n
        /\ k + 2 <= Len(c) <=> m + 2 <= n
        /\ k + 3 <= Len(c) <=> m + 3 <= n
    BY <1>3, <1>5
  <2>2. /\ k + 1 <= Len(c) => c[k + 1] = b[m + 1]
        /\ k + 2 <= Len(c) => c[k + 2] = b[m + 2]
        /\ k + 3 <= Len(c) => c[k + 3] = b[m + 3]
    BY <1>3, <1>5
  <2> DEFINE A(x, at) == (at <= Len(x) => x[at] = 84)
             B(x, at) == (at + 1 <= Len(x) => x[at + 1] = 82)
             C(x, at) == (at + 2 <= Len(x) => x[at + 2] = 89)
             D(x, at) == (at + 3 <= Len(x) => x[at + 3] = 88)
  <2>3. A(c, k) <=> A(b, m)
    BY <1>6 DEF n
  <2>4. B(c, k) <=> B(b, m)
    BY <2>1, <2>2 DEF n
  <2>5. C(c, k) <=> C(b, m)
    BY <2>1, <2>2 DEF n
  <2>6. D(c, k) <=> D(b, m)
    BY <2>1, <2>2 DEF n
  <2>7. \A x, at : MagicAt(x, at) <=> A(x, at) /\ B(x, at) /\ C(x, at) /\ D(x, at)
    BY DEF MagicAt
  <2> HIDE DEF A, B, C, D
  <2> QED BY <2>3, <2>4, <2>5, <2>6, <2>7
<1>8. LengthAt(c, k) <=> LengthAt(b, m)
  <2>1. CASE k + 7 <= Len(c)
    <3>1. c[k + 4] = b[m + 4] /\ c[k + 5] = b[m + 5] /\ c[k + 6] = b[m + 6] /\ c[k + 7] = b[m + 7] /\ m + 7 <= n
      BY <1>3, <1>4, <1>5, <2>1
    <3> QED BY <2>1, <3>1 DEF LengthAt, n
  <2>2. CASE ~(k + 7 <= Len(c))
    BY <1>3, <1>5, <2>2 DEF LengthAt, n
  <2> QED BY <2>1, <2>2
<1> QED
  BY <1>7, <1>8 DEF c, m

\* The end of an end is an end.
LEMMA SuffixOfSuffix ==
  ASSUME NEW b \in Seq(Nat), NEW i \in 1..Len(b) + 1, NEW k \in 1..Len(b) - i + 2
  PROVE  From(From(b, i), k) = From(b, i + k - 1)
<1> DEFINE c == From(b, i)
           d == From(c, k)
           m == i + k - 1
           e == From(b, m)
           n == Len(b)
<1>1. n \in Nat /\ c \in Seq(Nat) /\ Len(c) = n - i + 1 /\ \A j \in 1..n - i + 1 : c[j] = b[i + j - 1]
  BY Suffix
<1> HIDE DEF c
<1>2. k \in 1..Len(c) + 1 /\ m \in 1..n + 1 /\ Len(c) - k + 1 = n - m + 1
  BY <1>1
<1>3. d \in Seq(Nat) /\ Len(d) = Len(c) - k + 1 /\ \A j \in 1..Len(c) - k + 1 : d[j] = c[k + j - 1]
  BY <1>1, <1>2, Suffix
<1> HIDE DEF m
<1>4. e \in Seq(Nat) /\ Len(e) = n - m + 1 /\ \A j \in 1..n - m + 1 : e[j] = b[m + j - 1]
  BY <1>2, Suffix
<1> HIDE DEF d, e
<1>5. ASSUME NEW j \in 1..Len(d) PROVE d[j] = e[j]
  <2> DEFINE l == k + j - 1
  <2>1. l \in 1..n - i + 1 /\ i + l - 1 = m + j - 1 /\ j \in 1..n - m + 1
    BY <1>1, <1>2, <1>3 DEF m
  <2>2. d[j] = c[l]
    BY <1>3
  <2> HIDE DEF l
  <2>3. c[l] = b[i + l - 1]
    BY <1>1, <2>1
  <2> QED BY <1>4, <2>1, <2>2, <2>3
<1>6. Len(d) = Len(e)
  BY <1>2, <1>3, <1>4
<1> QED
  BY <1>3, <1>4, <1>5, <1>6, SeqEqual DEF c, d, e, m

\* A set of numbers with a member has a minimum.
LEMMA MinOf ==
  ASSUME NEW S \in SUBSET Nat, S # {}
  PROVE  Min(S) \in S /\ \A y \in S : Min(S) <= y
<1> DEFINE T == {n \in Nat : \A y \in S : n <= y}
<1>1. \E x \in S : \A y \in S : x <= y
  <2>1. SUFFICES ASSUME \A x \in S : \E y \in S : ~(x <= y) PROVE FALSE
    OBVIOUS
  <2>2. 0 \in T
    OBVIOUS
  <2>3. ASSUME NEW n \in Nat, n \in T PROVE n + 1 \in T
    <3>1. ASSUME NEW y \in S PROVE n + 1 <= y
      <4>1. n <= y /\ y \in Nat
        BY <2>3
      <4>2. n # y
        BY <2>1, <2>3
      <4> QED BY <4>1, <4>2
    <3> QED BY <3>1
  <2> HIDE DEF T
  <2>4. Nat \subseteq T
    BY <2>2, <2>3, NatSetInduction
  <2>5. PICK y \in S : TRUE
    OBVIOUS
  <2>6. y \in Nat /\ y + 1 \in Nat /\ ~(y + 1 <= y)
    OBVIOUS
  <2>7. y + 1 \in T
    BY <2>4, <2>6
  <2> QED BY <2>6, <2>7 DEF T
<1> QED
  BY <1>1 DEF Min

\* All that is dropped before a magic is no start of one.
LEMMA MagicFound ==
  ASSUME NEW b \in Seq(Nat)
  PROVE  \E i \in 1..Len(b) + 1 :
           /\ discard_bytes_before_frame_magic(b) = From(b, i) /\ MagicAt(b, i)
           /\ \A j \in 1..Len(b) + 1 : j < i => ~MagicAt(b, j)
<1> DEFINE n == Len(b)
           magics == {i \in 1..Len(b) : StartsWith(From(b, i), MAGIC)}
           ends == {k \in 0..3 : k <= Len(b)
                      /\ From(b, Len(b) - k + 1) = SubSeq(MAGIC, 1, k)}
<1>1. n \in Nat
  OBVIOUS
<1>m. MAGIC \in Seq(Nat) /\ Len(MAGIC) = 4 /\ MAGIC[1] = 84 /\ MAGIC[2] = 82 /\ MAGIC[3] = 89 /\ MAGIC[4] = 88
  BY DEF MAGIC
\* A start of the magic, as a sequence and byte by byte.
<1>2. ASSUME NEW i \in 1..n + 1, NEW k \in 0..4, k <= n - i + 1
      PROVE  /\ SubSeq(From(b, i), 1, k) = SubSeq(MAGIC, 1, k)
                  <=> \A j \in 1..k : b[i + j - 1] = MAGIC[j]
             /\ Len(SubSeq(MAGIC, 1, k)) = k
  <2> DEFINE c == From(b, i)
             s == SubSeq(c, 1, k)
             t == SubSeq(MAGIC, 1, k)
  <2>1. c \in Seq(Nat) /\ Len(c) = n - i + 1 /\ \A j \in 1..n - i + 1 : c[j] = b[i + j - 1]
    BY Suffix
  <2> HIDE DEF c
  <2>2. s \in Seq(Nat) /\ Len(s) = k /\ \A j \in 1..k : s[j] = c[j]
    <3>1. 1 \in 1..Len(c) + 1 /\ k \in 1 - 1..Len(c)
      BY <1>1, <1>2, <2>1
    <3>2. s \in Seq(Nat) /\ Len(s) = k - 1 + 1 /\ \A j \in 1..k - 1 + 1 : s[j] = c[1 + j - 1]
      BY <2>1, <3>1, Slice, ZenonT(30)
    <3> HIDE DEF s
    <3> QED BY <3>2
  <2>3. t \in Seq(Nat) /\ Len(t) = k /\ \A j \in 1..k : t[j] = MAGIC[j]
    <3>1. 1 \in 1..Len(MAGIC) + 1 /\ k \in 1 - 1..Len(MAGIC)
      BY <1>m
    <3>2. t \in Seq(Nat) /\ Len(t) = k - 1 + 1 /\ \A j \in 1..k - 1 + 1 : t[j] = MAGIC[1 + j - 1]
      BY <1>m, <3>1, Slice
    <3> HIDE DEF t
    <3> QED BY <3>2
  <2> HIDE DEF s, t
  <2>4. ASSUME NEW j \in 1..k PROVE s[j] = b[i + j - 1]
    <3>1. j \in 1..n - i + 1
      BY <1>1, <1>2
    <3> QED BY <2>1, <2>2, <3>1
  <2>5. s = t <=> \A j \in 1..k : s[j] = t[j]
    BY <2>2, <2>3, SeqEqual
  <2>6. s = t <=> \A j \in 1..k : b[i + j - 1] = MAGIC[j]
    BY <2>3, <2>4, <2>5
  <2> QED BY <2>3, <2>6 DEF s, t, c
<1>3. ASSUME NEW i \in 1..n + 1, i + 3 <= n PROVE i \in magics <=> MagicAt(b, i)
  <2>1. 4 \in 0..4 /\ 4 <= n - i + 1
    BY <1>1, <1>3
  <2>2. Len(From(b, i)) >= Len(MAGIC)
    BY <1>1, <1>3, <1>m, Suffix
  <2>3. i \in magics <=> SubSeq(From(b, i), 1, 4) = MAGIC
    <3>1. i \in 1..Len(b)
      BY <1>1, <1>3
    <3>2. i \in magics <=> StartsWith(From(b, i), MAGIC)
      BY <3>1
    <3> HIDE DEF magics
    <3> QED BY <1>m, <2>2, <3>2 DEF StartsWith
  <2>4. SubSeq(MAGIC, 1, 4) = MAGIC
    BY <1>m, SubSeqFull
  <2>5. i \in magics <=> \A j \in 1..4 : b[i + j - 1] = MAGIC[j]
    BY <1>2, <2>1, <2>3, <2>4
  <2>6. (\A j \in 1..4 : b[i + j - 1] = MAGIC[j])
          <=> b[i] = 84 /\ b[i + 1] = 82 /\ b[i + 2] = 89 /\ b[i + 3] = 88
    <3>1. \A j \in 1..4 : j = 1 \/ j = 2 \/ j = 3 \/ j = 4
      OBVIOUS
    <3>2. i + 1 - 1 = i /\ i + 2 - 1 = i + 1 /\ i + 3 - 1 = i + 2 /\ i + 4 - 1 = i + 3
      OBVIOUS
    <3>3. 1 \in 1..4 /\ 2 \in 1..4 /\ 3 \in 1..4 /\ 4 \in 1..4
      OBVIOUS
    <3> QED BY <1>m, <3>1, <3>2, <3>3
  <2>7. MagicAt(b, i) <=> b[i] = 84 /\ b[i + 1] = 82 /\ b[i + 2] = 89 /\ b[i + 3] = 88
    BY <1>1, <1>3 DEF MagicAt
  <2> QED BY <2>5, <2>6, <2>7
<1>4. ASSUME NEW i \in magics PROVE i \in 1..n /\ i + 3 <= n
  <2>1. i \in 1..n /\ Len(From(b, i)) >= 4
    BY <1>m DEF StartsWith
  <2>2. i \in 1..Len(b) + 1
    BY <1>1, <2>1
  <2> QED BY <1>1, <2>1, <2>2, Suffix
<1>5. CASE magics # {}
  <2> DEFINE i == Min(magics)
  <2>1. magics \in SUBSET Nat
    BY <1>1
  <2>2. i \in magics /\ \A y \in magics : i <= y
    <3> HIDE DEF magics
    <3> QED BY <1>5, <2>1, MinOf
  <2>3. discard_bytes_before_frame_magic(b) = From(b, i)
    BY <1>5 DEF discard_bytes_before_frame_magic
  <2> HIDE DEF magics, i
  <2>4. i \in 1..n + 1 /\ i + 3 <= n
    BY <1>1, <1>4, <2>2
  <2>5. MagicAt(b, i)
    BY <1>3, <2>2, <2>4
  <2>6. ASSUME NEW j \in 1..n + 1, j < i PROVE ~MagicAt(b, j)
    <3>1. j + 3 <= n /\ ~(i <= j)
      BY <1>1, <2>4, <2>6
    <3>2. j \notin magics
      BY <2>2, <3>1
    <3> QED BY <1>3, <3>1, <3>2
  <2> QED BY <2>3, <2>4, <2>5, <2>6
<1>6. CASE magics = {}
  <2> DEFINE i == n - Max(ends) + 1
  <2>1. discard_bytes_before_frame_magic(b) = From(b, i)
    BY <1>6 DEF discard_bytes_before_frame_magic
  <2>2. ASSUME NEW k \in 0..3, k <= n PROVE k \in ends <=> MagicAt(b, n - k + 1)
    <3> DEFINE a == n - k + 1
               c == From(b, a)
    <3>1. a \in 1..n + 1 /\ k \in 0..4 /\ k <= n - a + 1 /\ n - a + 1 = k
      BY <1>1, <2>2
    <3>2. c \in Seq(Nat) /\ Len(c) = k
      <4> HIDE DEF a
      <4> QED BY <3>1, Suffix
    <3>3. SubSeq(c, 1, k) = c
      <4> HIDE DEF c
      <4> QED BY <3>2, SubSeqFull
    <3>4. k \in ends <=> SubSeq(c, 1, k) = SubSeq(MAGIC, 1, k)
      BY <2>2, <3>3
    <3>5. k \in ends <=> \A j \in 1..k : b[a + j - 1] = MAGIC[j]
      <4> HIDE DEF a, ends
      <4> QED BY <1>2, <3>1, <3>4
    <3> HIDE DEF ends, c
    <3>6. CASE k = 0
      BY <1>1, <3>5, <3>6 DEF MagicAt
    <3>7. CASE k = 1
      <4>1. a = n
        BY <1>1, <3>7
      <4>2. (\A j \in 1..k : b[a + j - 1] = MAGIC[j]) <=> b[n] = 84
        BY <1>1, <1>m, <3>7, <4>1
      <4>3. MagicAt(b, a) <=> b[n] = 84
        BY <1>1, <4>1 DEF MagicAt
      <4> QED BY <3>5, <4>2, <4>3
    <3>8. CASE k = 2
      <4>1. a = n - 1
        BY <1>1, <3>8
      <4>2. (\A j \in 1..k : b[a + j - 1] = MAGIC[j]) <=> b[n - 1] = 84 /\ b[n] = 82
        <5>1. \A j \in 1..k : j = 1 \/ j = 2
          BY <3>8
        <5>2. 1 \in 1..k /\ 2 \in 1..k /\ a + 1 - 1 = n - 1 /\ a + 2 - 1 = n
          BY <1>1, <3>8, <4>1
        <5> DEFINE P(j) == b[a + j - 1] = MAGIC[j]
        <5> HIDE DEF P
        <5>3. (\A j \in 1..k : P(j)) <=> P(1) /\ P(2)
          BY <5>1, <5>2
        <5>4. P(1) <=> b[n - 1] = 84
          BY <1>m, <5>2 DEF P
        <5>5. P(2) <=> b[n] = 82
          BY <1>m, <5>2 DEF P
        <5>9. (\A j \in 1..k : P(j)) <=> \A j \in 1..k : b[a + j - 1] = MAGIC[j]
          BY DEF P
        <5> QED BY <5>3, <5>4, <5>5, <5>9
      <4>3. MagicAt(b, a) <=> b[n - 1] = 84 /\ b[n] = 82
        <5>1. a <= n /\ a + 1 <= n /\ ~(a + 2 <= n) /\ ~(a + 3 <= n) /\ a + 1 = n
          BY <1>1, <4>1
        <5> HIDE DEF a
        <5> QED BY <4>1, <5>1 DEF MagicAt
      <4> QED BY <3>5, <4>2, <4>3
    <3>9. CASE k = 3
      <4>1. a = n - 2
        BY <1>1, <3>9
      <4>2. (\A j \in 1..k : b[a + j - 1] = MAGIC[j]) <=> b[n - 2] = 84 /\ b[n - 1] = 82 /\ b[n] = 89
        <5>1. \A j \in 1..k : j = 1 \/ j = 2 \/ j = 3
          BY <3>9
        <5>2. 1 \in 1..k /\ 2 \in 1..k /\ 3 \in 1..k /\ a + 1 - 1 = n - 2 /\ a + 2 - 1 = n - 1 /\ a + 3 - 1 = n
          BY <1>1, <3>9, <4>1
        <5> DEFINE P(j) == b[a + j - 1] = MAGIC[j]
        <5> HIDE DEF P
        <5>3. (\A j \in 1..k : P(j)) <=> P(1) /\ P(2) /\ P(3)
          BY <5>1, <5>2
        <5>4. P(1) <=> b[n - 2] = 84
          BY <1>m, <5>2 DEF P
        <5>5. P(2) <=> b[n - 1] = 82
          BY <1>m, <5>2 DEF P
        <5>6. P(3) <=> b[n] = 89
          BY <1>m, <5>2 DEF P
        <5>9. (\A j \in 1..k : P(j)) <=> \A j \in 1..k : b[a + j - 1] = MAGIC[j]
          BY DEF P
        <5> QED BY <5>3, <5>4, <5>5, <5>6, <5>9
      <4>3. MagicAt(b, a) <=> b[n - 2] = 84 /\ b[n - 1] = 82 /\ b[n] = 89
        <5>1. a <= n /\ a + 1 <= n /\ a + 2 <= n /\ ~(a + 3 <= n) /\ a + 1 = n - 1 /\ a + 2 = n
          BY <1>1, <4>1
        <5> HIDE DEF a
        <5> QED BY <4>1, <5>1 DEF MagicAt
      <4> QED BY <3>5, <4>2, <4>3
    <3>10. k = 0 \/ k = 1 \/ k = 2 \/ k = 3
      OBVIOUS
    <3> QED BY <3>6, <3>7, <3>8, <3>9, <3>10
  <2>3. 0 \in ends
    <3>1. 0 \in 0..3 /\ 0 <= n /\ MagicAt(b, n - 0 + 1)
      BY <1>1 DEF MagicAt
    <3> QED BY <2>2, <3>1
  <2>4. Max(ends) \in ends /\ \A k \in ends : k <= Max(ends)
    <3>1. \A k \in ends : k = 0 \/ k = 1 \/ k = 2 \/ k = 3
      OBVIOUS
    <3> HIDE DEF ends
    <3>2. \E x \in ends : \A k \in ends : x >= k
      <4>1. CASE 3 \in ends
        BY <3>1, <4>1
      <4>2. CASE 3 \notin ends /\ 2 \in ends
        BY <3>1, <4>2
      <4>3. CASE 3 \notin ends /\ 2 \notin ends /\ 1 \in ends
        BY <3>1, <4>3
      <4>4. CASE 3 \notin ends /\ 2 \notin ends /\ 1 \notin ends
        BY <2>3, <3>1, <4>4
      <4> QED BY <4>1, <4>2, <4>3, <4>4
    <3>3. Max(ends) \in ends /\ \A k \in ends : Max(ends) >= k
      BY <3>2 DEF Max
    <3> QED BY <3>1, <3>3
  <2> DEFINE m == Max(ends)
  <2>5. m \in 0..3 /\ m <= n
    BY <2>4
  <2>6. \A k \in 0..3 : k <= n => (k \in ends <=> MagicAt(b, n - k + 1))
    BY <2>2
  <2> HIDE DEF ends, m
  <2>7. i = n - m + 1 /\ i \in 1..n + 1
    BY <1>1, <2>5 DEF m
  <2> HIDE DEF i
  <2>8. MagicAt(b, i)
    BY <2>4, <2>5, <2>6, <2>7 DEF m
  <2>9. ASSUME NEW j \in 1..n + 1, j < i PROVE ~MagicAt(b, j)
    <3>1. CASE j + 3 <= n
      BY <1>3, <1>6, <3>1
    <3>2. CASE ~(j + 3 <= n)
      <4> DEFINE k == n - j + 1
      <4>1. k \in 0..3 /\ k <= n /\ n - k + 1 = j /\ k > m
        BY <1>1, <2>5, <2>7, <2>9, <3>2
      <4>2. k \notin ends
        <5> HIDE DEF k
        <5> QED BY <2>4, <2>5, <4>1 DEF m
      <4> HIDE DEF k
      <4> QED BY <2>6, <4>1, <4>2
    <3> QED BY <3>1, <3>2
  <2> QED BY <2>1, <2>7, <2>8, <2>9
<1> QED
  BY <1>5, <1>6

\* discard_bytes_before_plausible_frame obeys its recursion.
LEMMA DiscardIs ==
  /\ discard_bytes_before_plausible_frame \in [Seq(Nat) -> Seq(Nat)]
  /\ \A b \in Seq(Nat) :
       LET c == discard_bytes_before_frame_magic(b)
       IN  discard_bytes_before_plausible_frame[b] =
             IF Len(c) < HEADER_LEN \/ Plausible(c) THEN c
             ELSE discard_bytes_before_plausible_frame[Tail(c)]
<1> DEFINE D == Seq(Nat)
           dm(b) == discard_bytes_before_frame_magic(b)
           Done(b) == Len(dm(b)) < HEADER_LEN \/ Plausible(dm(b))
           m == [b \in D |-> Len(b)]
           stop == {b \in D : Done(b)}
           base == [b \in stop |-> dm(b)]
           rest == [b \in D \ stop |-> Tail(dm(b))]
           op == [b \in D \ stop |-> [v \in D |-> v]]
<1>1. ASSUME NEW b \in D
      PROVE  dm(b) \in D /\ Len(dm(b)) \in Nat /\ Len(dm(b)) <= Len(b)
  <2>1. PICK i \in 1..Len(b) + 1 : dm(b) = From(b, i)
    BY MagicFound
  <2>2. From(b, i) \in Seq(Nat) /\ Len(From(b, i)) = Len(b) - i + 1 /\ Len(From(b, i)) \in Nat
    BY Suffix
  <2> HIDE DEF dm
  <2> QED BY <2>1, <2>2
<1> HIDE DEF dm
<1>2. ASSUME NEW b \in D, ~Done(b)
      PROVE  Tail(dm(b)) \in D /\ Len(Tail(dm(b))) < Len(b)
  <2>1. dm(b) \in D /\ dm(b) # <<>> /\ Len(dm(b)) \in Nat /\ Len(dm(b)) <= Len(b)
    BY <1>1, <1>2 DEF HEADER_LEN
  <2>2. Tail(dm(b)) \in D /\ Len(Tail(dm(b))) = Len(dm(b)) - 1
    BY <2>1, HeadTailProperties
  <2> QED BY <2>1, <2>2
<1> HIDE DEF Done
<1>3. WellDefined(D, D, m, stop, base, rest, op)
  <2>1. m \in [D -> Nat] /\ stop \in SUBSET D /\ base \in [stop -> D]
    BY <1>1
  <2>2. rest \in [D \ stop -> D] /\ op \in [D \ stop -> [D -> D]]
    BY <1>2
  <2>3. \A b \in D \ stop : m[rest[b]] < m[b]
    BY <1>2
  <2> HIDE DEF D, m, stop, base, rest, op
  <2> QED BY <2>1, <2>2, <2>3 DEF WellDefined
<1>4. PICK f : Solution(f, D, D, stop, base, rest, op)
  <2> HIDE DEF D, m, stop, base, rest, op
  <2> QED BY <1>3, Recursion
<1> DEFINE Body(g, b) == IF Done(b) THEN dm(b) ELSE g[Tail(dm(b))]
<1>5. f = [b \in D |-> Body(f, b)]
  <2>1. f \in [D -> D]
    BY <1>4 DEF Solution
  <2>2. ASSUME NEW b \in D PROVE f[b] = Body(f, b)
    <3>1. f[b] = IF b \in stop THEN base[b] ELSE op[b][f[rest[b]]]
      BY <1>4 DEF Solution
    <3>2. CASE Done(b)
      BY <3>1, <3>2
    <3>3. CASE ~Done(b)
      <4>1. b \in D \ stop /\ rest[b] = Tail(dm(b)) /\ rest[b] \in D /\ f[rest[b]] \in D
        BY <1>2, <2>1, <3>3
      <4> QED BY <3>1, <3>3, <4>1
    <3> QED BY <3>2, <3>3
  <2> QED BY <2>1, <2>2
<1> DEFINE G == discard_bytes_before_plausible_frame
<1>6. G = [b \in D |-> Body(G, b)]
  BY <1>5 DEF discard_bytes_before_plausible_frame, dm, Done
<1> HIDE DEF G
<1>7. \A b \in D : G[b] \in D
  <2>1. \A b \in stop : G[b] = base[b]
    BY <1>6
  <2>2. ASSUME NEW b \in D \ stop, G[rest[b]] \in D
        PROVE  G[b] = op[b][G[rest[b]]]
    BY <1>6, <2>2
  <2> HIDE DEF D, m, stop, base, rest, op
  <2> QED BY <1>3, <2>1, <2>2, RecursionType
<1>8. \A b \in D : G[b] = Body(G, b)
  BY <1>6
<1>9. G \in [D -> D]
  BY <1>6, <1>7
<1> QED
  BY <1>8, <1>9 DEF G, Done, dm

\* The length that is looked at is that of the head at the start.
LEMMA PlausibleIs ==
  ASSUME NEW c \in Seq(Nat), Len(c) >= HEADER_LEN
  PROVE  Plausible(c) <=> LengthAt(c, 1)
<1>1. 1 + 7 <= Len(c) /\ 1 + 7 = 8 /\ 1 + 4 = 5 /\ 1 + 5 = 6 /\ 1 + 6 = 7
  BY DEF HEADER_LEN
<1> QED
  BY <1>1 DEF Plausible, LengthAt

\* Whatever is dropped is no start of a frame, and what is kept is.
LEMMA FirstFound ==
  ASSUME NEW b \in Seq(Nat)
  PROVE  \E i : FirstAt(b, i) /\ discard_bytes_before_plausible_frame[b] = From(b, i)
<1> DEFINE G == discard_bytes_before_plausible_frame
           Right(x) == \E i : FirstAt(x, i) /\ G[x] = From(x, i)
           S == {n \in Nat : \A x \in Seq(Nat) : Len(x) < n => Right(x)}
<1>g. \A x \in Seq(Nat) :
        LET c == discard_bytes_before_frame_magic(x)
        IN  G[x] = IF Len(c) < HEADER_LEN \/ Plausible(c) THEN c ELSE G[Tail(c)]
  BY DiscardIs
<1> HIDE DEF G
<1>1. 0 \in S
  OBVIOUS
<1>2. ASSUME NEW n \in Nat, n \in S PROVE n + 1 \in S
  <2> SUFFICES ASSUME NEW x \in Seq(Nat), Len(x) < n + 1 PROVE Right(x)
    OBVIOUS
  <2> DEFINE c == discard_bytes_before_frame_magic(x)
  <2>1. PICK i \in 1..Len(x) + 1 :
          /\ c = From(x, i) /\ MagicAt(x, i)
          /\ \A j \in 1..Len(x) + 1 : j < i => ~MagicAt(x, j)
    BY MagicFound
  <2>g. G[x] = IF Len(c) < HEADER_LEN \/ Plausible(c) THEN c ELSE G[Tail(c)]
    BY <1>g
  <2> HIDE DEF c
  <2>2. c \in Seq(Nat) /\ Len(c) = Len(x) - i + 1 /\ Len(c) \in Nat
    BY <2>1, Suffix
  <2>3. LengthAt(c, 1) <=> LengthAt(x, i)
    <3>1. 1 \in 1..Len(x) - i + 2 /\ i + 1 - 1 = i
      OBVIOUS
    <3>2. LengthAt(From(x, i), 1) <=> LengthAt(x, i + 1 - 1)
      BY <3>1, SuffixStarts
    <3> QED BY <2>1, <3>1, <3>2
  <2>4. CASE Len(c) < HEADER_LEN \/ Plausible(c)
    <3>1. LengthAt(x, i)
      <4>1. CASE Len(c) < HEADER_LEN
        BY <2>2, <4>1 DEF HEADER_LEN, LengthAt
      <4>2. CASE Len(c) >= HEADER_LEN
        BY <2>2, <2>3, <2>4, <4>2, PlausibleIs DEF HEADER_LEN
      <4> QED BY <2>2, <4>1, <4>2 DEF HEADER_LEN
    <3>2. FirstAt(x, i)
      BY <2>1, <3>1 DEF FirstAt, MayStart
    <3> QED BY <2>1, <2>4, <2>g, <3>2
  <2>5. CASE ~(Len(c) < HEADER_LEN \/ Plausible(c))
    <3> DEFINE t == Tail(c)
               a == i + 1
    <3>0. Len(c) >= HEADER_LEN /\ Len(c) >= 8
      BY <2>2, <2>5 DEF HEADER_LEN
    <3>1. ~LengthAt(x, i)
      BY <2>2, <2>3, <2>5, <3>0, PlausibleIs
    <3>2. a \in 1..Len(x) + 1 /\ 2 \in 1..Len(x) - i + 2 /\ i + 2 - 1 = a
      BY <2>2, <3>0
    <3>3. t = From(x, a)
      <4>1. From(c, 2) = From(x, a)
        <5> HIDE DEF a
        <5>1. From(From(x, i), 2) = From(x, i + 2 - 1)
          BY <3>2, SuffixOfSuffix
        <5> QED BY <2>1, <3>2, <5>1
      <4>2. t = From(c, 2)
        <5> DEFINE u == From(c, 2)
        <5>1. /\ u \in Seq(Nat) /\ Len(u) = Len(c) - 2 + 1
              /\ \A k \in 1..Len(c) - 2 + 1 : u[k] = c[2 + k - 1]
          <6>1. 2 \in 1..Len(c) + 1
            BY <2>2, <3>0
          <6> QED BY <2>2, <6>1, Suffix
        <5>2. /\ t \in Seq(Nat) /\ Len(t) = Len(c) - 1
              /\ \A k \in 1..Len(t) : t[k] = c[k + 1]
          <6>1. c # <<>>
            BY <2>2, <3>0
          <6> QED BY <2>2, <6>1, HeadTailProperties
        <5> HIDE DEF u, t
        <5>3. Len(t) = Len(u) /\ \A k \in 1..Len(t) : t[k] = u[k]
          <6>1. Len(t) = Len(u) /\ Len(t) = Len(c) - 2 + 1
            BY <2>2, <5>1, <5>2
          <6>2. \A k \in 1..Len(t) : k + 1 = 2 + k - 1
            BY <2>2, <5>2
          <6> QED BY <5>1, <5>2, <6>1, <6>2
        <5>4. t = u
          BY <5>1, <5>2, <5>3, SeqEqual
        <5> QED BY <5>4 DEF u
      <4> QED BY <4>1, <4>2
    <3> HIDE DEF t
    <3> HIDE DEF a
    <3>4. t \in Seq(Nat) /\ Len(t) = Len(x) - a + 1 /\ Len(t) \in Nat
      BY <3>2, <3>3, Suffix
    <3>5. PICK k : FirstAt(t, k) /\ G[t] = From(t, k)
      <4>1. Len(t) < n
        BY <2>2, <3>2, <3>4 DEF a
      <4>2. Right(t)
        <5> HIDE DEF Right
        <5> QED BY <1>2, <3>4, <4>1
      <4> QED BY <4>2
    <3> DEFINE r == a + k - 1
    <3>6. k \in 1..Len(t) + 1 /\ k \in 1..Len(x) - a + 2 /\ r \in 1..Len(x) + 1
      BY <3>2, <3>4, <3>5 DEF FirstAt
    <3>7. G[x] = From(x, r)
      <4>1. From(From(x, a), k) = From(x, a + k - 1)
        BY <3>2, <3>6, SuffixOfSuffix
      <4>2. G[x] = G[t]
        BY <2>5, <2>g DEF t
      <4> QED BY <3>3, <3>5, <4>1, <4>2
    <3>8. MayStart(x, r)
      <4>1. /\ MagicAt(From(x, a), k) <=> MagicAt(x, a + k - 1)
            /\ LengthAt(From(x, a), k) <=> LengthAt(x, a + k - 1)
        BY <3>2, <3>6, SuffixStarts
      <4> QED BY <3>3, <3>5, <4>1 DEF FirstAt, MayStart
    <3>9. ASSUME NEW j \in 1..Len(x) + 1, j < r PROVE ~MayStart(x, j)
      <4>1. CASE j < i
        BY <2>1, <4>1 DEF MayStart
      <4>2. CASE j = i
        BY <3>1, <4>2 DEF MayStart
      <4>3. CASE j > i
        <5> DEFINE l == j - i
        <5>1. l \in 1..Len(x) - a + 2 /\ l \in 1..Len(t) + 1 /\ l < k /\ a + l - 1 = j
          BY <3>2, <3>4, <3>6, <3>9, <4>3 DEF a
        <5> HIDE DEF l
        <5>2. ~MayStart(t, l)
          BY <3>5, <5>1 DEF FirstAt
        <5>3. /\ MagicAt(From(x, a), l) <=> MagicAt(x, a + l - 1)
              /\ LengthAt(From(x, a), l) <=> LengthAt(x, a + l - 1)
          BY <3>2, <5>1, SuffixStarts
        <5> QED BY <3>3, <5>1, <5>2, <5>3 DEF MayStart
      <4> QED BY <4>1, <4>2, <4>3
    <3> HIDE DEF r
    <3>10. FirstAt(x, r)
      BY <3>6, <3>8, <3>9 DEF FirstAt, r
    <3> QED BY <3>7, <3>10
  <2> QED BY <2>4, <2>5
<1> HIDE DEF S
<1>3. Nat \subseteq S
  BY <1>1, <1>2, NatSetInduction
<1>4. Len(b) + 1 \in S /\ Len(b) < Len(b) + 1
  BY <1>3
<1>5. Right(b)
  <2> HIDE DEF Right
  <2> QED BY <1>4 DEF S
<1> QED
  BY <1>5 DEF G

\* A text has one first start.
LEMMA FirstIsOne ==
  ASSUME NEW b \in Seq(Nat), NEW i, NEW j, FirstAt(b, i), FirstAt(b, j)
  PROVE  i = j
<1>1. i \in Nat /\ j \in Nat
  BY DEF FirstAt
<1>2. ~(i < j) /\ ~(j < i)
  BY DEF FirstAt
<1> QED
  BY <1>1, <1>2

\* What comes later changes nothing of what was dropped, or of a whole header.
LEMMA FirstStays ==
  ASSUME NEW a \in Seq(Nat), NEW b \in Seq(Nat), NEW i, FirstAt(a, i)
  PROVE  /\ \A j \in 1..Len(a \o b) + 1 : j < i => ~MayStart(a \o b, j)
         /\ i + 7 <= Len(a) => FirstAt(a \o b, i)
         /\ From(a \o b, i) = From(a, i) \o b
<1> DEFINE u == a \o b
           n == Len(a)
<1>1. /\ u \in Seq(Nat) /\ Len(u) = n + Len(b) /\ n \in Nat /\ Len(b) \in Nat
      /\ \A k \in 1..n : u[k] = a[k]
      /\ \A k \in 1..Len(b) : u[n + k] = b[k]
  BY Joined
<1> HIDE DEF u
<1>i. i \in Nat /\ i >= 1 /\ i <= n + 1 /\ i \in 1..n + 1
  BY <1>1 DEF FirstAt
<1> HIDE DEF n
<1>2. ASSUME NEW j \in 1..n + 1, NEW d \in 0..7, j + d <= n
      PROVE  u[j + d] = a[j + d] /\ j + d <= Len(u)
  <2>1. j + d \in 1..n /\ j + d <= Len(u)
    BY <1>1, <1>2
  <2> QED BY <1>1, <2>1
<1>3. ASSUME NEW j \in 1..n + 1 PROVE MayStart(u, j) => MayStart(a, j)
  <2>0. \A d \in 0..7 : j + d <= n => u[j + d] = a[j + d] /\ j + d <= Len(u)
    BY <1>2
  <2>a. 3 \in 0..7 /\ 4 \in 0..7 /\ 5 \in 0..7 /\ 6 \in 0..7 /\ 7 \in 0..7
    OBVIOUS
  <2>1. ASSUME MagicAt(u, j) PROVE MagicAt(a, j)
    <3>1. j <= n => a[j] = 84
      BY <1>1, <2>1 DEF MagicAt
    <3>2. j + 1 <= n => a[j + 1] = 82
      BY <1>1, <1>2, <2>1, SMTT(30) DEF MagicAt
    <3>3. j + 2 <= n => a[j + 2] = 89
      BY <1>1, <1>2, <2>1, SMTT(30) DEF MagicAt
    <3>4. j + 3 <= n => a[j + 3] = 88
      <4>1. j + 3 <= n => u[j + 3] = a[j + 3] /\ j + 3 <= Len(u)
        BY <2>0, <2>a
      <4> QED BY <2>1, <4>1 DEF MagicAt
    <3> QED BY <3>1, <3>2, <3>3, <3>4 DEF MagicAt, n
  <2>2. ASSUME LengthAt(u, j), j + 7 <= n PROVE LengthAt(a, j)
    <3>1. j + 4 <= n /\ j + 5 <= n /\ j + 6 <= n
      BY <1>1, <2>2
    <3>2. u[j + 4] = a[j + 4] /\ u[j + 5] = a[j + 5] /\ u[j + 6] = a[j + 6] /\ u[j + 7] = a[j + 7] /\ j + 7 <= Len(u)
      BY <2>0, <2>a, <2>2, <3>1
    <3> QED BY <2>2, <3>2 DEF LengthAt
  <2> QED BY <2>1, <2>2 DEF MayStart, LengthAt, n
<1>4. ASSUME NEW j \in 1..Len(u) + 1, j < i PROVE ~MayStart(u, j)
  <2>1. j \in 1..n + 1
    BY <1>1, <1>i, <1>4
  <2>2. ~MayStart(a, j)
    BY <1>4, <2>1 DEF FirstAt, n
  <2> QED BY <1>3, <2>1, <2>2
<1>5. ASSUME i + 7 <= n PROVE FirstAt(u, i)
  <2>1. /\ i <= n /\ i + 1 <= n /\ i + 2 <= n /\ i + 3 <= n
        /\ i + 4 <= n /\ i + 5 <= n /\ i + 6 <= n /\ i + 0 = i
    BY <1>1, <1>i, <1>5
  <2>2. MagicAt(a, i) /\ LengthAt(a, i)
    BY DEF FirstAt, MayStart
  <2>3. a[i] = 84 /\ a[i + 1] = 82 /\ a[i + 2] = 89 /\ a[i + 3] = 88
    BY <2>1, <2>2 DEF MagicAt, n
  <2>4. a[i + 7] = 0 /\ a[i + 4] + 256 * a[i + 5] + 65536 * a[i + 6] <= MAX_PAYLOAD_LEN
    BY <1>5, <2>2 DEF LengthAt, n
  <2>5. u[i] = a[i] /\ u[i + 1] = a[i + 1] /\ u[i + 2] = a[i + 2] /\ u[i + 3] = a[i + 3]
    <3>1. u[i] = a[i]
      <4>1. i \in 1..n
        BY <1>i, <2>1
      <4> QED BY <1>1, <4>1
    <3> QED BY <1>2, <1>i, <2>1, <3>1
  <2>6. u[i + 4] = a[i + 4] /\ u[i + 5] = a[i + 5] /\ u[i + 6] = a[i + 6] /\ u[i + 7] = a[i + 7]
    BY <1>2, <1>5, <1>i, <2>1
  <2>7. MagicAt(u, i)
    BY <2>3, <2>5 DEF MagicAt
  <2>8. LengthAt(u, i)
    BY <2>4, <2>6 DEF LengthAt
  <2>9. i \in 1..Len(u) + 1
    BY <1>1, <1>i
  <2> QED BY <1>4, <2>7, <2>8, <2>9 DEF FirstAt, MayStart
<1>6. From(u, i) = From(a, i) \o b
  <2> DEFINE c == From(a, i)
             v == c \o b
             w == From(u, i)
  <2>1. c \in Seq(Nat) /\ Len(c) = n - i + 1 /\ \A k \in 1..n - i + 1 : c[k] = a[i + k - 1]
    BY <1>i, Suffix DEF n
  <2> HIDE DEF c
  <2>2. /\ v \in Seq(Nat) /\ Len(v) = Len(c) + Len(b)
        /\ \A k \in 1..Len(c) : v[k] = c[k]
        /\ \A k \in 1..Len(b) : v[Len(c) + k] = b[k]
    BY <2>1, Joined
  <2>3. /\ w \in Seq(Nat) /\ Len(w) = Len(u) - i + 1
        /\ \A k \in 1..Len(u) - i + 1 : w[k] = u[i + k - 1]
    <3>1. i \in 1..Len(u) + 1
      BY <1>1, <1>i
    <3> QED BY <1>1, <3>1, Suffix
  <2> HIDE DEF v, w
  <2>4. Len(w) = Len(v)
    BY <1>1, <1>i, <2>1, <2>2, <2>3
  <2>5. ASSUME NEW k \in 1..Len(w) PROVE w[k] = v[k]
    <3>1. w[k] = u[i + k - 1]
      BY <2>3
    <3>2. CASE k <= Len(c)
      <4> DEFINE l == i + k - 1
      <4>1. k \in 1..Len(c) /\ k \in 1..n - i + 1 /\ l \in 1..n
        BY <1>1, <1>i, <2>1, <3>2
      <4> HIDE DEF l
      <4>2. u[l] = a[l]
        BY <1>1, <4>1
      <4> QED BY <2>1, <2>2, <3>1, <4>1, <4>2 DEF l
    <3>3. CASE ~(k <= Len(c))
      <4> DEFINE l == k - Len(c)
      <4>1. l \in 1..Len(b) /\ Len(c) + l = k /\ i + k - 1 = n + l
        BY <1>1, <1>i, <2>1, <2>2, <2>3, <2>4, <3>3
      <4> HIDE DEF l
      <4>2. v[k] = b[l]
        <5>1. v[Len(c) + l] = b[l]
          BY <2>2, <4>1
        <5> QED BY <4>1, <5>1
      <4>3. u[n + l] = b[l]
        BY <1>1, <4>1
      <4> QED BY <3>1, <4>1, <4>2, <4>3
    <3> QED BY <3>2, <3>3
  <2>6. w = v
    BY <2>2, <2>3, <2>4, <2>5, SeqEqual
  <2> QED BY <2>6 DEF v, w, c
<1> QED
  BY <1>4, <1>5, <1>6 DEF u, n

\* What is kept of a first piece stands for it, and what is kept is a start.
LEMMA Kept ==
  ASSUME NEW a \in Seq(Nat), NEW b \in Seq(Nat)
  PROVE  LET G == discard_bytes_before_plausible_frame
         IN  /\ G[a] \in Seq(Nat) /\ Len(G[a]) <= Len(a) /\ FirstAt(G[a], 1)
             /\ G[a \o b] = G[G[a] \o b]
             /\ Len(G[a]) >= HEADER_LEN => G[a \o b] = G[a] \o b
<1> DEFINE G == discard_bytes_before_plausible_frame
           u == a \o b
           d == G[a]
<1>1. PICK i : FirstAt(a, i) /\ G[a] = From(a, i)
  BY FirstFound
<1>2. u \in Seq(Nat) /\ Len(u) = Len(a) + Len(b) /\ Len(a) \in Nat /\ Len(b) \in Nat
  BY Joined
<1>3. PICK j : FirstAt(u, j) /\ G[u] = From(u, j)
  BY <1>2, FirstFound
<1>4. /\ \A k \in 1..Len(u) + 1 : k < i => ~MayStart(u, k)
      /\ i + 7 <= Len(a) => FirstAt(u, i)
      /\ From(u, i) = d \o b
  BY <1>1, FirstStays
<1>5. i \in 1..Len(a) + 1 /\ j \in 1..Len(u) + 1 /\ i \in 1..Len(u) + 1
  BY <1>1, <1>2, <1>3 DEF FirstAt
<1>6. d \in Seq(Nat) /\ Len(d) = Len(a) - i + 1 /\ Len(d) \in Nat
  BY <1>1, <1>5, Suffix
<1> HIDE DEF u, d, G
<1>7. i <= j
  <2>1. MayStart(u, j)
    BY <1>3 DEF FirstAt
  <2>2. ~(j < i)
    BY <1>4, <1>5, <2>1
  <2> QED BY <1>5, <2>2
<1>8. FirstAt(d, 1)
  <2>1. 1 \in 1..Len(a) - i + 2 /\ i + 1 - 1 = i
    BY <1>5
  <2>2. /\ MagicAt(From(a, i), 1) <=> MagicAt(a, i + 1 - 1)
        /\ LengthAt(From(a, i), 1) <=> LengthAt(a, i + 1 - 1)
    BY <1>5, <2>1, SuffixStarts
  <2>3. MayStart(d, 1)
    BY <1>1, <2>1, <2>2 DEF FirstAt, MayStart, d
  <2> QED BY <1>6, <2>3 DEF FirstAt
<1>9. G[u] = G[d \o b]
  <2> DEFINE x == d \o b
             k == j - i + 1
  <2>0. x = From(u, i) /\ x \in Seq(Nat) /\ Len(x) = Len(u) - i + 1
    BY <1>2, <1>4, <1>5, Suffix
  <2> HIDE DEF x
  <2>1. k \in 1..Len(u) - i + 2 /\ k \in 1..Len(x) + 1 /\ i + k - 1 = j
    BY <1>2, <1>5, <1>7, <2>0
  <2> HIDE DEF k
  <2>2. From(x, k) = From(u, j)
    <3>1. From(From(u, i), k) = From(u, i + k - 1)
      BY <1>2, <1>5, <2>1, SuffixOfSuffix
    <3> QED BY <2>0, <2>1, <3>1
  <2>3. MayStart(x, k)
    <3>1. /\ MagicAt(From(u, i), k) <=> MagicAt(u, i + k - 1)
          /\ LengthAt(From(u, i), k) <=> LengthAt(u, i + k - 1)
      BY <1>2, <1>5, <2>1, SuffixStarts
    <3> QED BY <1>3, <2>0, <2>1, <3>1 DEF FirstAt, MayStart
  <2>4. ASSUME NEW l \in 1..Len(x) + 1, l < k PROVE ~MayStart(x, l)
    <3> DEFINE m == i + l - 1
    <3>1. l \in 1..Len(u) - i + 2 /\ m \in 1..Len(u) + 1 /\ m < j
      BY <1>2, <1>5, <2>0, <2>1, <2>4
    <3>2. ~MayStart(u, m)
      <4> HIDE DEF m
      <4> QED BY <1>3, <3>1 DEF FirstAt
    <3>3. /\ MagicAt(From(u, i), l) <=> MagicAt(u, i + l - 1)
          /\ LengthAt(From(u, i), l) <=> LengthAt(u, i + l - 1)
      BY <1>2, <1>5, <3>1, SuffixStarts
    <3> QED BY <2>0, <3>2, <3>3 DEF MayStart
  <2>5. FirstAt(x, k)
    BY <2>1, <2>3, <2>4 DEF FirstAt
  <2>6. PICK l : FirstAt(x, l) /\ G[x] = From(x, l)
    BY <2>0, FirstFound DEF G
  <2>7. l = k
    BY <2>0, <2>5, <2>6, FirstIsOne
  <2> QED BY <1>3, <2>2, <2>6, <2>7 DEF x
<1>10. ASSUME Len(d) >= HEADER_LEN PROVE G[u] = d \o b
  <2>1. i + 7 <= Len(a)
    BY <1>2, <1>5, <1>6, <1>10 DEF HEADER_LEN
  <2>2. i = j
    BY <1>2, <1>3, <1>4, <2>1, FirstIsOne
  <2> QED BY <1>3, <1>4, <2>2
<1>11. Len(d) <= Len(a)
  BY <1>2, <1>5, <1>6
<1> QED
  BY <1>6, <1>8, <1>9, <1>10, <1>11 DEF u, d, G

Whole(d) == Len(d) >= HEADER_LEN /\ Len(d) >= FrameLen(d)
PayloadOf(d) == SubSeq(d, HEADER_LEN + 1, FrameLen(d))
After(d) == From(d, FrameLen(d) + 1)
KeptOf(b) == discard_bytes_before_plausible_frame[b]
ReadState == [pending : Seq(Nat), got : Seq(Seq(Nat))]

\* A frame is no shorter than its head.
LEMMA FrameLenIs ==
  ASSUME NEW d \in Seq(Nat), Len(d) >= HEADER_LEN
  PROVE  FrameLen(d) \in Nat /\ FrameLen(d) >= HEADER_LEN
<1>1. d[5] \in Nat /\ d[6] \in Nat /\ d[7] \in Nat
  BY DEF HEADER_LEN
<1> DEFINE x == d[5]
           y == d[6]
           z == d[7]
<1>2. x \in Nat /\ y \in Nat /\ z \in Nat /\ FrameLen(d) = 8 + x + 256 * y + 65536 * z
  BY <1>1 DEF FrameLen, HEADER_LEN
<1> HIDE DEF x, y, z
<1>3. 8 + x + 256 * y + 65536 * z \in Nat /\ 8 + x + 256 * y + 65536 * z >= 8
  BY <1>2
<1> QED
  BY <1>2, <1>3 DEF HEADER_LEN

\* What is taken of a whole frame, and what is left.
LEMMA WholeIs ==
  ASSUME NEW d \in Seq(Nat), Whole(d)
  PROVE  /\ FrameLen(d) + 1 \in 1..Len(d) + 1
         /\ PayloadOf(d) \in Seq(Nat) /\ Len(PayloadOf(d)) = FrameLen(d) - HEADER_LEN
         /\ \A k \in 1..FrameLen(d) - HEADER_LEN : PayloadOf(d)[k] = d[HEADER_LEN + k]
         /\ After(d) \in Seq(Nat) /\ Len(After(d)) \in Nat /\ Len(After(d)) < Len(d)
<1> DEFINE f == FrameLen(d)
           p == PayloadOf(d)
<1>1. f \in Nat /\ f >= HEADER_LEN /\ f <= Len(d) /\ Len(d) \in Nat
  BY FrameLenIs DEF Whole
<1> HIDE DEF f
<1>2. /\ HEADER_LEN + 1 \in 1..Len(d) + 1 /\ f \in HEADER_LEN + 1 - 1..Len(d)
      /\ f + 1 \in 1..Len(d) + 1 /\ f - (HEADER_LEN + 1) + 1 = f - HEADER_LEN
  BY <1>1 DEF HEADER_LEN
<1> DEFINE h == HEADER_LEN + 1
<1> HIDE DEF h
<1>3. h \in 1..Len(d) + 1 /\ f \in h - 1..Len(d) /\ f - h + 1 = f - HEADER_LEN
  <2>1. h = 9 /\ HEADER_LEN = 8
    BY DEF h, HEADER_LEN
  <2> QED BY <1>1, <2>1
<1> DEFINE q == SubSeq(d, h, f)
<1>4. /\ q \in Seq(Nat) /\ Len(q) = f - h + 1
      /\ \A k \in 1..f - h + 1 : q[k] = d[h + k - 1]
  BY <1>3, Slice
<1> HIDE DEF q
<1>5. p = q
  BY DEF PayloadOf, h, f, q
<1> HIDE DEF p
<1>6. \A k \in 1..f - HEADER_LEN : h + k - 1 = HEADER_LEN + k
  BY DEF h, HEADER_LEN
<1>7. /\ p \in Seq(Nat) /\ Len(p) = f - HEADER_LEN
      /\ \A k \in 1..f - HEADER_LEN : p[k] = d[HEADER_LEN + k]
  BY <1>3, <1>4, <1>5, <1>6
<1>8. After(d) \in Seq(Nat) /\ Len(After(d)) = Len(d) - (f + 1) + 1 /\ Len(After(d)) \in Nat
  <2>1. After(d) = From(d, f + 1)
    BY DEF After, f
  <2> QED BY <1>2, <2>1, Suffix
<1>9. Len(After(d)) < Len(d)
  BY <1>1, <1>8 DEF HEADER_LEN
<1> QED
  BY <1>2, <1>7, <1>8, <1>9 DEF f, p

\* take_frame on what is kept: a payload when a frame is whole, else nothing;
\* it finds no malformed header.
LEMMA TakeFrameIs ==
  ASSUME NEW d \in Seq(Nat), FirstAt(d, 1)
  PROVE  KanaliFrame(d) =
           IF Whole(d) THEN [payload |-> <<PayloadOf(d)>>, left |-> After(d)]
           ELSE [payload |-> << >>, left |-> d]
<1>1. Len(d) \in Nat /\ MagicAt(d, 1) /\ LengthAt(d, 1)
  BY DEF FirstAt, MayStart
<1>m. MAGIC \in Seq(Nat) /\ Len(MAGIC) = 4 /\ MAGIC[1] = 84 /\ MAGIC[2] = 82 /\ MAGIC[3] = 89 /\ MAGIC[4] = 88
  BY DEF MAGIC
<1>2. ASSUME Len(d) >= 4 PROVE StartsWith(d, MAGIC)
  <2> DEFINE s == SubSeq(d, 1, 4)
  <2>1. 1 \in 1..Len(d) + 1 /\ 4 \in 1 - 1..Len(d) /\ 4 - 1 + 1 = 4
    BY <1>1, <1>2
  <2>2. s \in Seq(Nat) /\ Len(s) = 4 - 1 + 1 /\ \A k \in 1..4 - 1 + 1 : s[k] = d[1 + k - 1]
    BY <2>1, Slice
  <2> HIDE DEF s
  <2>3. s[1] = d[1] /\ s[2] = d[2] /\ s[3] = d[3] /\ s[4] = d[4]
    <3>1. \A k \in 1..4 : s[k] = d[k]
      BY <2>2
    <3> QED BY <3>1
  <2>4. d[1] = 84 /\ d[2] = 82 /\ d[3] = 89 /\ d[4] = 88
    <3>1. 1 <= Len(d) /\ 1 + 1 <= Len(d) /\ 1 + 2 <= Len(d) /\ 1 + 3 <= Len(d) /\ 1 + 1 = 2 /\ 1 + 2 = 3 /\ 1 + 3 = 4
      BY <1>1, <1>2
    <3> QED BY <1>1, <3>1 DEF MagicAt
  <2>5. \A k \in 1..4 : k = 1 \/ k = 2 \/ k = 3 \/ k = 4
    OBVIOUS
  <2>6. \A k \in 1..4 : s[k] = MAGIC[k]
    BY <1>m, <2>3, <2>4, <2>5, SMTT(30)
  <2>7. Len(s) = 4 /\ Len(MAGIC) = 4
    BY <1>m, <2>2
  <2>8. s = MAGIC
    <3> DEFINE t == MAGIC
    <3>1. s \in Seq(Nat) /\ t \in Seq(Nat) /\ Len(s) = Len(t) /\ \A k \in 1..Len(s) : s[k] = t[k]
      BY <1>m, <2>2, <2>6, <2>7
    <3> HIDE DEF t
    <3>2. s = t
      BY <3>1, SeqEqual
    <3> QED BY <3>2 DEF t
  <2> QED BY <1>2, <1>m, <2>8 DEF StartsWith, s
<1>3. CASE Len(d) < 4
  <2>1. ~Whole(d)
    BY <1>1, <1>3 DEF Whole, HEADER_LEN
  <2> QED BY <1>3, <1>m, <2>1 DEF KanaliFrame
<1>4. CASE Len(d) >= 4 /\ Len(d) < HEADER_LEN
  <2>1. ~Whole(d) /\ ~(Len(d) < 4)
    BY <1>1, <1>4 DEF Whole, HEADER_LEN
  <2> QED BY <1>2, <1>4, <1>m, <2>1 DEF KanaliFrame
<1>5. CASE Len(d) >= HEADER_LEN
  <2>1. ~(Len(d) < 4) /\ ~(Len(d) < HEADER_LEN) /\ Len(d) >= 4
    BY <1>1, <1>5 DEF HEADER_LEN
  <2>2. Plausible(d)
    BY <1>1, <1>5, PlausibleIs
  <2>3. StartsWith(d, MAGIC)
    BY <1>2, <2>1
  <2>4. FrameLen(d) \in Nat
    BY <1>5, FrameLenIs
  <2>5. Whole(d) <=> ~(Len(d) < FrameLen(d))
    BY <1>1, <1>5, <2>4 DEF Whole
  <2>6. KanaliFrame(d) =
          IF Len(d) < FrameLen(d) THEN [payload |-> << >>, left |-> d]
          ELSE [payload |-> <<SubSeq(d, HEADER_LEN + 1, FrameLen(d))>>,
                left |-> From(d, FrameLen(d) + 1)]
    BY <1>m, <2>1, <2>2, <2>3 DEF KanaliFrame
  <2> QED BY <2>5, <2>6 DEF PayloadOf, After
<1> QED
  BY <1>1, <1>3, <1>4, <1>5 DEF HEADER_LEN

\* read_frame obeys its recursion.
LEMMA ReadIs ==
  /\ read_frame \in [Seq(Nat) -> ReadState]
  /\ \A b \in Seq(Nat) :
       read_frame[b] =
         IF Whole(KeptOf(b))
         THEN [pending |-> read_frame[After(KeptOf(b))].pending,
               got |-> <<PayloadOf(KeptOf(b))>> \o read_frame[After(KeptOf(b))].got]
         ELSE [pending |-> KeptOf(b), got |-> << >>]
<1> DEFINE D == Seq(Nat)
           V == ReadState
           pl(b) == PayloadOf(KeptOf(b))
           m == [b \in D |-> Len(b)]
           stop == {b \in D : ~Whole(KeptOf(b))}
           base == [b \in stop |-> [pending |-> KeptOf(b), got |-> << >>]]
           rest == [b \in D \ stop |-> After(KeptOf(b))]
           op == [b \in D \ stop |->
                    [v \in V |-> [pending |-> v.pending, got |-> <<pl(b)>> \o v.got]]]
<1>1. ASSUME NEW b \in D
      PROVE  /\ KeptOf(b) \in D /\ Len(KeptOf(b)) <= Len(b)
             /\ Whole(KeptOf(b)) => /\ pl(b) \in D /\ After(KeptOf(b)) \in D
                                   /\ Len(After(KeptOf(b))) < Len(b)
  <2>1. <<>> \in Seq(Nat)
    OBVIOUS
  <2>2. KeptOf(b) \in D /\ Len(KeptOf(b)) <= Len(b)
    BY <2>1, Kept DEF KeptOf
  <2>3. ASSUME Whole(KeptOf(b)) PROVE pl(b) \in D /\ After(KeptOf(b)) \in D /\ Len(After(KeptOf(b))) < Len(b)
    <3> DEFINE c == KeptOf(b)
    <3>1. c \in Seq(Nat) /\ Len(c) <= Len(b) /\ Len(c) \in Nat /\ Whole(c)
      BY <2>2, <2>3
    <3> HIDE DEF c
    <3>2. PayloadOf(c) \in Seq(Nat) /\ After(c) \in Seq(Nat) /\ Len(After(c)) \in Nat /\ Len(After(c)) < Len(c)
      BY <3>1, WholeIs
    <3>3. Len(After(c)) < Len(b)
      BY <3>1, <3>2
    <3> QED BY <3>2, <3>3 DEF c
  <2> QED BY <2>2, <2>3
<1>2. \A b \in D : \A v \in V : Whole(KeptOf(b)) =>
        [pending |-> v.pending, got |-> <<pl(b)>> \o v.got] \in V
  <2>1. ASSUME NEW b \in D, NEW v \in V, Whole(KeptOf(b))
        PROVE  [pending |-> v.pending, got |-> <<pl(b)>> \o v.got] \in V
    <3> DEFINE p == <<pl(b)>>
    <3>1. pl(b) \in D
      BY <1>1, <2>1
    <3>2. p \in Seq(Seq(Nat)) /\ v.got \in Seq(Seq(Nat)) /\ v.pending \in Seq(Nat)
      <4> HIDE DEF pl
      <4> QED BY <3>1 DEF ReadState
    <3> HIDE DEF p
    <3>3. p \o v.got \in Seq(Seq(Nat))
      BY <3>2, ConcatProperties
    <3> QED BY <3>2, <3>3 DEF ReadState, p
  <2> QED BY <2>1
<1>3. WellDefined(D, V, m, stop, base, rest, op)
  <2>1. m \in [D -> Nat] /\ stop \in SUBSET D
    OBVIOUS
  <2>2. base \in [stop -> V]
    BY <1>1 DEF ReadState
  <2>3. rest \in [D \ stop -> D]
    BY <1>1
  <2>4. op \in [D \ stop -> [V -> V]]
    <3> HIDE DEF V, pl
    <3> QED BY <1>2
  <2>5. \A b \in D \ stop : m[rest[b]] < m[b]
    BY <1>1
  <2> HIDE DEF D, V, m, stop, base, rest, op
  <2> QED BY <2>1, <2>2, <2>3, <2>4, <2>5 DEF WellDefined
<1>4. PICK f : Solution(f, D, V, stop, base, rest, op)
  <2> HIDE DEF D, V, m, stop, base, rest, op
  <2> QED BY <1>3, Recursion
<1> DEFINE Body(g, b) ==
             IF Whole(KeptOf(b))
             THEN [pending |-> g[After(KeptOf(b))].pending, got |-> <<pl(b)>> \o g[After(KeptOf(b))].got]
             ELSE [pending |-> KeptOf(b), got |-> << >>]
           Code(g, b) ==
             LET taken == KanaliFrame(discard_bytes_before_plausible_frame[b])
                 later == g[taken.left]
             IN  IF taken.payload = << >> THEN [pending |-> taken.left, got |-> << >>]
                 ELSE [pending |-> later.pending, got |-> taken.payload \o later.got]
<1>5. ASSUME NEW b \in D, NEW g PROVE Code(g, b) = Body(g, b)
  <2> DEFINE c == KeptOf(b)
  <2>1. c \in Seq(Nat) /\ FirstAt(c, 1) /\ c = discard_bytes_before_plausible_frame[b]
    <3>1. <<>> \in Seq(Nat)
      OBVIOUS
    <3> QED BY <3>1, Kept DEF KeptOf
  <2> HIDE DEF c
  <2>2. KanaliFrame(c) =
           IF Whole(c) THEN [payload |-> <<PayloadOf(c)>>, left |-> After(c)]
           ELSE [payload |-> << >>, left |-> c]
    BY <2>1, TakeFrameIs
  <2>3. CASE Whole(c)
    <3>1. /\ KanaliFrame(c).payload = <<PayloadOf(c)>> /\ KanaliFrame(c).left = After(c)
          /\ KanaliFrame(c).payload # <<>>
      BY <2>2, <2>3
    <3> QED BY <2>1, <2>3, <3>1 DEF c
  <2>4. CASE ~Whole(c)
    <3>1. KanaliFrame(c).payload = <<>> /\ KanaliFrame(c).left = c
      BY <2>2, <2>4
    <3> QED BY <2>1, <2>4, <3>1 DEF c
  <2> QED BY <2>3, <2>4
<1>6. f = [b \in D |-> Code(f, b)]
  <2>1. f \in [D -> V]
    BY <1>4 DEF Solution
  <2>2. ASSUME NEW b \in D PROVE f[b] = Body(f, b)
    <3>1. f[b] = IF b \in stop THEN base[b] ELSE op[b][f[rest[b]]]
      BY <1>4 DEF Solution
    <3>2. CASE ~Whole(KeptOf(b))
      BY <3>1, <3>2
    <3>3. CASE Whole(KeptOf(b))
      <4> DEFINE r == After(KeptOf(b))
      <4>1. b \in D \ stop /\ rest[b] = r /\ r \in D /\ f[r] \in V
        BY <1>1, <2>1, <3>3
      <4>2. f[b] = op[b][f[r]]
        BY <3>1, <4>1
      <4>3. op[b][f[r]] = [pending |-> f[r].pending, got |-> <<pl(b)>> \o f[r].got]
        <5> HIDE DEF r, pl, V
        <5> QED BY <4>1
      <4> QED BY <3>3, <4>2, <4>3
    <3> QED BY <3>2, <3>3
  <2> HIDE DEF Code, Body
  <2> QED BY <1>5, <2>1, <2>2
<1> DEFINE R == read_frame
<1>7. R = [b \in Seq(Nat) |-> Code(R, b)]
  BY <1>6 DEF read_frame
<1> HIDE DEF R
<1>8. \A b \in D : R[b] = Body(R, b)
  <2>1. \A b \in D : R[b] = Code(R, b)
    <3> HIDE DEF Code
    <3> QED BY <1>7
  <2> HIDE DEF Code, Body
  <2> QED BY <1>5, <2>1
<1>9. \A b \in D : R[b] \in V
  <2>1. \A b \in stop : R[b] = base[b]
    BY <1>8
  <2>2. ASSUME NEW b \in D \ stop, R[rest[b]] \in V
        PROVE  R[b] = op[b][R[rest[b]]]
    <3> DEFINE r == After(KeptOf(b))
    <3>1. rest[b] = r /\ R[r] \in V /\ Whole(KeptOf(b))
      BY <2>2
    <3>2. R[b] = [pending |-> R[r].pending, got |-> <<pl(b)>> \o R[r].got]
      BY <1>8, <3>1
    <3> HIDE DEF r, pl, V
    <3> QED BY <2>2, <3>1, <3>2
  <2> HIDE DEF D, V, m, stop, base, rest, op
  <2> QED BY <1>3, <2>1, <2>2, RecursionType
<1>10. R \in [D -> V]
  <2> HIDE DEF Code, V
  <2> QED BY <1>7, <1>9
<1> QED
  BY <1>8, <1>10 DEF R

\* A whole frame is read alike, whatever follows it.
LEMMA WholeStays ==
  ASSUME NEW d \in Seq(Nat), NEW b \in Seq(Nat), Whole(d)
  PROVE  /\ d \o b \in Seq(Nat) /\ Whole(d \o b) /\ PayloadOf(d \o b) = PayloadOf(d)
         /\ After(d \o b) = After(d) \o b
<1> DEFINE u == d \o b
           f == FrameLen(d)
           l == Len(d)
<1>1. /\ u \in Seq(Nat) /\ Len(u) = l + Len(b) /\ l \in Nat /\ Len(b) \in Nat
      /\ \A k \in 1..l : u[k] = d[k]
      /\ \A k \in 1..Len(b) : u[l + k] = b[k]
  BY Joined
<1>2. f \in Nat /\ f >= 8 /\ f <= l /\ l >= 8
  BY FrameLenIs DEF Whole, HEADER_LEN
<1> HIDE DEF u, l
<1>3. FrameLen(u) = f
  <2>1. 5 \in 1..l /\ 6 \in 1..l /\ 7 \in 1..l
    BY <1>1, <1>2
  <2>2. u[5] = d[5] /\ u[6] = d[6] /\ u[7] = d[7]
    BY <1>1, <2>1
  <2> QED BY <2>2 DEF FrameLen
<1> HIDE DEF f
<1>4. Whole(u)
  BY <1>1, <1>2, <1>3 DEF Whole, HEADER_LEN
<1>5. PayloadOf(u) = PayloadOf(d)
  <2> DEFINE p == PayloadOf(u)
             q == PayloadOf(d)
  <2>1. /\ p \in Seq(Nat) /\ Len(p) = f - HEADER_LEN
        /\ \A k \in 1..f - HEADER_LEN : p[k] = u[HEADER_LEN + k]
    BY <1>1, <1>3, <1>4, WholeIs
  <2>2. /\ q \in Seq(Nat) /\ Len(q) = f - HEADER_LEN
        /\ \A k \in 1..f - HEADER_LEN : q[k] = d[HEADER_LEN + k]
    BY WholeIs DEF f
  <2> HIDE DEF p, q
  <2>3. \A k \in 1..f - HEADER_LEN : HEADER_LEN + k \in 1..l
    BY <1>1, <1>2 DEF HEADER_LEN
  <2>4. \A k \in 1..f - HEADER_LEN : p[k] = q[k]
    BY <1>1, <2>1, <2>2, <2>3
  <2>5. p = q
    BY <2>1, <2>2, <2>4, SeqEqual
  <2> QED BY <2>5 DEF p, q
<1>6. After(u) = After(d) \o b
  <2> DEFINE i == f + 1
             c == From(d, i)
             v == c \o b
             w == From(u, i)
  <2>0. i \in 1..l + 1 /\ i \in 1..Len(u) + 1
    BY <1>1, <1>2
  <2> HIDE DEF i
  <2>1. c \in Seq(Nat) /\ Len(c) = l - i + 1 /\ \A k \in 1..l - i + 1 : c[k] = d[i + k - 1]
    BY <2>0, Suffix DEF l
  <2> HIDE DEF c
  <2>2. /\ v \in Seq(Nat) /\ Len(v) = Len(c) + Len(b)
        /\ \A k \in 1..Len(c) : v[k] = c[k]
        /\ \A k \in 1..Len(b) : v[Len(c) + k] = b[k]
    BY <2>1, Joined
  <2>3. /\ w \in Seq(Nat) /\ Len(w) = Len(u) - i + 1
        /\ \A k \in 1..Len(u) - i + 1 : w[k] = u[i + k - 1]
    BY <1>1, <2>0, Suffix
  <2> HIDE DEF v, w
  <2>4. Len(w) = Len(v)
    <3>1. Len(w) = l + Len(b) - i + 1 /\ Len(v) = l - i + 1 + Len(b)
      <4>1. Len(w) = l + Len(b) - i + 1
        BY <1>1, <2>0, <2>3
      <4>2. Len(v) = l - i + 1 + Len(b)
        BY <1>1, <2>0, <2>1, <2>2
      <4> QED BY <4>1, <4>2
    <3> QED BY <1>1, <2>0, <3>1
  <2>5. ASSUME NEW k \in 1..Len(w) PROVE w[k] = v[k]
    <3>1. w[k] = u[i + k - 1]
      BY <2>3
    <3>2. CASE k <= Len(c)
      <4> DEFINE j == i + k - 1
      <4>1. k \in 1..Len(c) /\ k \in 1..l - i + 1 /\ j \in 1..l
        <5>1. k \in Nat /\ k >= 1 /\ Len(c) = l - i + 1 /\ l \in Nat /\ i \in Nat /\ i >= 1
          BY <1>1, <2>0, <2>1
        <5> HIDE DEF c, l
        <5> QED BY <3>2, <5>1
      <4> HIDE DEF j
      <4>2. u[j] = d[j]
        BY <1>1, <4>1
      <4> QED BY <2>1, <2>2, <3>1, <4>1, <4>2 DEF j
    <3>3. CASE ~(k <= Len(c))
      <4> DEFINE j == k - Len(c)
      <4>1. j \in 1..Len(b) /\ Len(c) + j = k /\ i + k - 1 = l + j
        BY <1>1, <2>0, <2>1, <2>2, <2>3, <2>4, <3>3
      <4> HIDE DEF j
      <4>2. v[k] = b[j]
        <5>1. v[Len(c) + j] = b[j]
          BY <2>2, <4>1
        <5> QED BY <4>1, <5>1
      <4>3. u[l + j] = b[j]
        BY <1>1, <4>1
      <4> QED BY <3>1, <4>1, <4>2, <4>3
    <3> QED BY <3>2, <3>3
  <2>6. w = v
    BY <2>2, <2>3, <2>4, <2>5, SeqEqual
  <2>7. After(u) = w /\ After(d) = c
    BY <1>3 DEF After, w, c, i, f
  <2> QED BY <2>6, <2>7 DEF v
<1> QED
  BY <1>1, <1>4, <1>5, <1>6 DEF u

\* Payloads, as members of a list.
Bytes == Seq(Nat)

\* Three lists of payloads, one after the other.
LEMMA AssociativeGot ==
  ASSUME NEW s \in Seq(Bytes), NEW t \in Seq(Bytes), NEW u \in Seq(Bytes)
  PROVE  (s \o t) \o u = s \o (t \o u)
BY ConcatAssociative, SMT

(* It does not matter how the bytes are cut into reads.                    *)
THEOREM AnyPieces ==
  ASSUME NEW first \in Seq(Nat), NEW second \in Seq(Nat)
  PROVE  ReadAll(first, second) = read_frame[first \o second].got
<1> DEFINE R == read_frame
           Right(a, b) == /\ R[a \o b].got = R[a].got \o R[R[a].pending \o b].got
           S == {n \in Nat : \A a \in Seq(Nat) : Len(a) < n =>
                    \A b \in Seq(Nat) : Right(a, b)}
<1>r. /\ \A b \in Seq(Nat) : R[b] \in ReadState
      /\ \A b \in Seq(Nat) :
           R[b] = IF Whole(KeptOf(b))
                  THEN [pending |-> R[After(KeptOf(b))].pending,
                        got |-> <<PayloadOf(KeptOf(b))>> \o R[After(KeptOf(b))].got]
                  ELSE [pending |-> KeptOf(b), got |-> << >>]
  <2>1. R \in [Seq(Nat) -> ReadState]
    BY ReadIs
  <2> QED BY <2>1, ReadIs
<1>q. \A b \in Seq(Nat) : R[b].pending \in Seq(Nat) /\ R[b].got \in Seq(Seq(Nat))
  BY <1>r DEF ReadState
<1> HIDE DEF R
<1>1. 0 \in S
  <2> HIDE DEF Right
  <2> QED OBVIOUS
<1>2. ASSUME NEW n \in Nat, n \in S PROVE n + 1 \in S
  <2> SUFFICES ASSUME NEW a \in Seq(Nat), Len(a) < n + 1, NEW b \in Seq(Nat) PROVE Right(a, b)
    <3> HIDE DEF Right
    <3> QED OBVIOUS
  <2> DEFINE d == KeptOf(a)
             u == a \o b
             x == d \o b
  <2>1. /\ d \in Seq(Nat) /\ Len(d) <= Len(a) /\ Len(a) \in Nat /\ Len(d) \in Nat
        /\ KeptOf(u) = KeptOf(x)
        /\ Len(d) >= HEADER_LEN => KeptOf(u) = x
    <3> DEFINE G == discard_bytes_before_plausible_frame
    <3>1. /\ G[a] \in Seq(Nat) /\ Len(G[a]) <= Len(a) /\ FirstAt(G[a], 1)
          /\ G[a \o b] = G[G[a] \o b]
          /\ Len(G[a]) >= HEADER_LEN => G[a \o b] = G[a] \o b
      BY Kept
    <3> HIDE DEF G
    <3>2. KeptOf(u) = G[u] /\ KeptOf(x) = G[x] /\ d = G[a]
      BY DEF G, KeptOf
    <3> HIDE DEF d
    <3> QED BY <3>1, <3>2
  <2>2. u \in Seq(Nat) /\ x \in Seq(Nat)
    BY <2>1, ConcatProperties
  <2>3. CASE ~Whole(d)
    <3>1. R[a] = [pending |-> d, got |-> <<>>]
      BY <1>r, <2>3
    <3>2. R[u] = R[x]
      <4> HIDE DEF u, x, d
      <4> QED BY <1>r, <2>1, <2>2
    <3>3. R[x].got \in Seq(Seq(Nat))
      BY <1>q, <2>2
    <3>4. <<>> \o R[x].got = R[x].got
      BY <3>3, ConcatEmptySeq
    <3>5. R[a].pending = d /\ R[a].got = <<>>
      BY <3>1
    <3> HIDE DEF d
    <3> QED BY <3>2, <3>4, <3>5
  <2>4. CASE Whole(d)
    <3> DEFINE p == PayloadOf(d)
               l == After(d)
               y == l \o b
    <3>1. /\ p \in Seq(Nat) /\ l \in Seq(Nat) /\ Len(l) \in Nat /\ Len(l) < Len(d)
      <4> HIDE DEF d
      <4> QED BY <2>1, <2>4, WholeIs
    <3>2. Whole(x) /\ PayloadOf(x) = p /\ After(x) = y
      <4> HIDE DEF d
      <4> QED BY <2>1, <2>4, WholeStays
    <3>3. KeptOf(u) = x
      BY <2>1, <2>4 DEF Whole
    <3>4. R[a].pending = R[l].pending /\ R[a].got = <<p>> \o R[l].got
      <4>1. R[a] = [pending |-> R[l].pending, got |-> <<p>> \o R[l].got]
        BY <1>r, <2>4
      <4> HIDE DEF l, p
      <4> QED BY <4>1
    <3>5. R[u].got = <<p>> \o R[y].got
      <4> HIDE DEF u, x, y, p
      <4>1. R[u] = [pending |-> R[y].pending, got |-> <<p>> \o R[y].got]
        BY <1>r, <2>2, <3>2, <3>3
      <4> QED BY <4>1
    <3>6. R[y].got = R[l].got \o R[R[l].pending \o b].got
      <4>1. Len(l) < n
        BY <2>1, <3>1
      <4>2. Right(l, b)
        <5> HIDE DEF Right, l
        <5> QED BY <1>2, <3>1, <4>1
      <4> QED BY <4>2
    <3>7. R[l].got \in Seq(Seq(Nat)) /\ R[R[l].pending \o b].got \in Seq(Seq(Nat)) /\ <<p>> \in Seq(Seq(Nat))
      <4>1. R[l].got \in Seq(Seq(Nat)) /\ R[l].pending \in Seq(Nat)
        BY <1>q, <3>1
      <4>2. R[l].pending \o b \in Seq(Nat)
        BY <4>1, ConcatProperties
      <4>3. <<p>> \in Seq(Seq(Nat))
        <5> HIDE DEF p
        <5> QED BY <3>1
      <4> QED BY <1>q, <4>1, <4>2, <4>3
    <3>8. <<p>> \o (R[l].got \o R[R[l].pending \o b].got) = (<<p>> \o R[l].got) \o R[R[l].pending \o b].got
      <4> DEFINE s == <<p>>
                 t == R[l].got
                 v == R[R[l].pending \o b].got
      <4>1. s \in Seq(Seq(Nat)) /\ t \in Seq(Seq(Nat)) /\ v \in Seq(Seq(Nat))
        BY <3>7
      <4>b. s \in Seq(Bytes) /\ t \in Seq(Bytes) /\ v \in Seq(Bytes)
        BY <4>1 DEF Bytes
      <4> HIDE DEF s, t, v
      <4>2. (s \o t) \o v = s \o (t \o v)
        BY <4>b, AssociativeGot
      <4> QED BY <4>2 DEF s, t, v
    <3> HIDE DEF p, l, y
    <3> QED BY <3>4, <3>5, <3>6, <3>8
  <2> QED BY <2>3, <2>4
<1> HIDE DEF S
<1>3. Nat \subseteq S
  BY <1>1, <1>2, NatSetInduction
<1>4. Len(first) + 1 \in S /\ Len(first) < Len(first) + 1
  BY <1>3
<1>5. Right(first, second)
  <2> HIDE DEF Right
  <2> QED BY <1>4 DEF S
<1> QED
  BY <1>5 DEF ReadAll, R

\* Bytes before a frame among which none starts.
Garbled(g, p) == \A j \in 1..Len(g) : ~MayStart(g \o encode(p), j)

\* A frame that is sent starts with its magic, tells its length and holds
\* its payload.
LEMMA EncodeIs ==
  ASSUME NEW p \in Seq(Nat)
  PROVE  LET e == encode(p)
         IN  /\ e \in Seq(Nat) /\ Len(e) = HEADER_LEN + Len(p)
             /\ MagicAt(e, 1) /\ FrameLen(e) = Len(e)
             /\ Len(p) <= MAX_PAYLOAD_LEN => FirstAt(e, 1)
             /\ PayloadOf(e) = p /\ After(e) = <<>>
<1> DEFINE n == Len(p)
           a == n % 256
           b == (n \div 256) % 256
           c == n \div 65536
           size == <<a, b, c, 0>>
           head == MAGIC \o size
           e == head \o p
<1>1. n \in Nat /\ a \in Nat /\ b \in Nat /\ c \in Nat /\ a + 256 * b + 65536 * c = n
  <2>1. n \in Nat
    OBVIOUS
  <2> HIDE DEF n
  <2> QED BY <2>1
<1>m. MAGIC \in Seq(Nat) /\ Len(MAGIC) = 4 /\ MAGIC[1] = 84 /\ MAGIC[2] = 82 /\ MAGIC[3] = 89 /\ MAGIC[4] = 88
  BY DEF MAGIC
<1>e. encode(p) = e
  BY DEF encode
<1> HIDE DEF n, a, b, c
<1>2. size \in Seq(Nat) /\ Len(size) = 4 /\ size[1] = a /\ size[2] = b /\ size[3] = c /\ size[4] = 0
  BY <1>1
<1> HIDE DEF size
<1>3. /\ head \in Seq(Nat) /\ Len(head) = Len(MAGIC) + Len(size)
      /\ \A i \in 1..Len(MAGIC) : head[i] = MAGIC[i]
      /\ \A i \in 1..Len(size) : head[Len(MAGIC) + i] = size[i]
  <2> DEFINE x == MAGIC
  <2>1. x \in Seq(Nat) /\ size \in Seq(Nat)
    BY <1>2, <1>m
  <2> HIDE DEF x
  <2>2. /\ x \o size \in Seq(Nat) /\ Len(x \o size) = Len(x) + Len(size)
        /\ \A i \in 1..Len(x) : (x \o size)[i] = x[i]
        /\ \A i \in 1..Len(size) : (x \o size)[Len(x) + i] = size[i]
    BY <2>1, Joined
  <2> QED BY <2>2 DEF x
<1> HIDE DEF head
<1>4. /\ Len(head) = 8 /\ head[1] = 84 /\ head[2] = 82 /\ head[3] = 89 /\ head[4] = 88
  BY <1>2, <1>3, <1>m
<1>5. head[5] = a /\ head[6] = b /\ head[7] = c /\ head[8] = 0
  <2>1. \A i \in 1..4 : head[4 + i] = size[i]
    BY <1>2, <1>3, <1>m
  <2>2. head[4 + 1] = a /\ head[4 + 2] = b /\ head[4 + 3] = c /\ head[4 + 4] = 0
    BY <1>2, <2>1
  <2> QED BY <2>2
<1>6. /\ e \in Seq(Nat) /\ Len(e) = Len(head) + Len(p)
      /\ \A i \in 1..Len(head) : e[i] = head[i]
      /\ \A i \in 1..Len(p) : e[Len(head) + i] = p[i]
      /\ SubSeq(e, 1, Len(head)) = head
      /\ From(e, Len(head) + 1) = p
  BY <1>3, Joined
<1> HIDE DEF e
<1>7. Len(e) = 8 + n /\ Len(e) \in Nat
  BY <1>1, <1>4, <1>6 DEF n
<1>8. e[1] = 84 /\ e[2] = 82 /\ e[3] = 89 /\ e[4] = 88
  BY <1>4, <1>6
<1>9. e[5] = a /\ e[6] = b /\ e[7] = c /\ e[8] = 0
  BY <1>4, <1>5, <1>6
<1>10. MagicAt(e, 1)
  <2>1. 1 + 1 = 2 /\ 1 + 2 = 3 /\ 1 + 3 = 4
    OBVIOUS
  <2> QED BY <1>8, <2>1 DEF MagicAt
<1>11. FrameLen(e) = Len(e)
  <2>1. FrameLen(e) = 8 + a + 256 * b + 65536 * c
    BY <1>9 DEF FrameLen, HEADER_LEN
  <2> QED BY <1>1, <1>7, <2>1
<1>12. ASSUME n <= MAX_PAYLOAD_LEN PROVE FirstAt(e, 1)
  <2>1. LengthAt(e, 1)
    <3>1. 1 + 7 = 8 /\ 1 + 4 = 5 /\ 1 + 5 = 6 /\ 1 + 6 = 7
      OBVIOUS
    <3>2. e[5] + 256 * e[6] + 65536 * e[7] <= MAX_PAYLOAD_LEN /\ e[8] = 0
      BY <1>1, <1>9, <1>12
    <3> QED BY <3>1, <3>2 DEF LengthAt
  <2>2. 1 \in 1..Len(e) + 1 /\ \A j \in 1..Len(e) + 1 : ~(j < 1)
    BY <1>7
  <2> QED BY <1>10, <2>1, <2>2 DEF FirstAt, MayStart
<1>13. PayloadOf(e) = p
  <2>1. PayloadOf(e) = SubSeq(e, 9, Len(e))
    BY <1>11 DEF PayloadOf, HEADER_LEN
  <2>2. From(e, 9) = p
    BY <1>4, <1>6
  <2> QED BY <2>1, <2>2 DEF From
<1>14. After(e) = <<>>
  <2> DEFINE i == Len(e) + 1
  <2>1. i \in 1..Len(e) + 1 /\ Len(e) - i + 1 = 0
    BY <1>7
  <2>2. From(e, i) \in Seq(Nat) /\ Len(From(e, i)) = Len(e) - i + 1
    BY <1>6, <2>1, Suffix
  <2>3. After(e) = From(e, i)
    BY <1>11 DEF After
  <2> HIDE DEF i
  <2> QED BY <2>1, <2>2, <2>3, EmptySeq
<1>15. Len(e) = HEADER_LEN + Len(p)
  BY <1>7 DEF n, HEADER_LEN
<1> QED
  BY <1>6, <1>10, <1>11, <1>12, <1>13, <1>14, <1>15, <1>e DEF n

(* Garbage is skipped, the frame behind it is read, and what follows is    *)
(* read as if it had come alone.                                           *)
THEOREM NextFrame ==
  ASSUME NEW g \in Seq(Nat), NEW p \in Seq(Nat), NEW r \in Seq(Nat),
         Len(p) <= MAX_PAYLOAD_LEN, Garbled(g, p)
  PROVE  read_frame[(g \o encode(p)) \o r].got = <<p>> \o read_frame[r].got
<1> DEFINE G == discard_bytes_before_plausible_frame
           e == encode(p)
           u == g \o e
           m == Len(g) + 1
           x == e \o r
<1>1. /\ e \in Seq(Nat) /\ Len(e) = HEADER_LEN + Len(p) /\ FrameLen(e) = Len(e)
      /\ FirstAt(e, 1) /\ PayloadOf(e) = p /\ After(e) = <<>>
  BY EncodeIs
<1>2. Len(p) \in Nat /\ Len(e) \in Nat /\ Len(e) >= HEADER_LEN /\ Whole(e)
  <2>1. Len(p) \in Nat
    OBVIOUS
  <2> HIDE DEF e
  <2> QED BY <1>1, <2>1 DEF HEADER_LEN, Whole
<1> HIDE DEF e
<1>3. /\ u \in Seq(Nat) /\ Len(u) = Len(g) + Len(e) /\ Len(g) \in Nat
      /\ From(u, m) = e
  BY <1>1, Joined
<1>g. \A j \in 1..Len(g) : ~MayStart(u, j)
  BY DEF Garbled, e
<1> HIDE DEF u
<1>4. m \in 1..Len(u) + 1 /\ 1 \in 1..Len(u) - m + 2 /\ m + 1 - 1 = m
  BY <1>2, <1>3 DEF HEADER_LEN
<1>5. MayStart(u, m)
  <2>1. /\ MagicAt(From(u, m), 1) <=> MagicAt(u, m + 1 - 1)
        /\ LengthAt(From(u, m), 1) <=> LengthAt(u, m + 1 - 1)
    <3> HIDE DEF m
    <3> QED BY <1>3, <1>4, SuffixStarts
  <2> HIDE DEF m
  <2> QED BY <1>1, <1>3, <1>4, <2>1 DEF FirstAt, MayStart
<1>6. FirstAt(u, m)
  <2>1. \A j \in 1..Len(u) + 1 : j < m => j \in 1..Len(g)
    BY <1>3
  <2> QED BY <1>4, <1>5, <1>g, <2>1 DEF FirstAt
<1> HIDE DEF m
<1>7. G[u] = e
  <2>1. PICK i : FirstAt(u, i) /\ G[u] = From(u, i)
    BY <1>3, FirstFound
  <2>2. i = m
    BY <1>3, <1>6, <2>1, FirstIsOne
  <2> QED BY <1>3, <2>1, <2>2
<1>8. KeptOf(u \o r) = x
  <2>1. Len(G[u]) >= HEADER_LEN => G[u \o r] = G[u] \o r
    BY <1>3, Kept
  <2> QED BY <1>2, <1>7, <2>1 DEF KeptOf
<1>9. Whole(x) /\ PayloadOf(x) = p /\ After(x) = r
  <2>1. Whole(x) /\ PayloadOf(x) = PayloadOf(e) /\ After(x) = After(e) \o r
    BY <1>1, <1>2, WholeStays
  <2>2. <<>> \o r = r
    BY ConcatEmptySeq
  <2> QED BY <1>1, <2>1, <2>2
<1>10. u \o r \in Seq(Nat)
  BY <1>3, ConcatProperties
<1> DEFINE b == u \o r
<1> HIDE DEF x, b
<1>11. b \in Seq(Nat) /\ KeptOf(b) = x
  BY <1>8, <1>10 DEF b
<1>12. read_frame[b] =
         [pending |-> read_frame[After(x)].pending,
          got |-> <<PayloadOf(x)>> \o read_frame[After(x)].got]
  BY <1>9, <1>11, ReadIs
<1>13. read_frame[b].got = <<p>> \o read_frame[r].got
  BY <1>9, <1>12
<1> QED
  BY <1>13 DEF b, u, e

\* Nothing is read from nothing.
LEMMA NothingRead == read_frame[<<>>].got = <<>>
<1> DEFINE d == KeptOf(<<>>)
<1>1. <<>> \in Seq(Nat) /\ Len(<<>>) = 0
  OBVIOUS
<1>2. d \in Seq(Nat) /\ Len(d) <= 0
  BY <1>1, Kept DEF KeptOf
<1> HIDE DEF d
<1>3. ~Whole(d)
  BY <1>2 DEF Whole, HEADER_LEN
<1>4. read_frame[<<>>] = [pending |-> d, got |-> <<>>]
  BY <1>1, <1>3, ReadIs DEF d
<1> QED
  BY <1>4

\* A text that is cut in two is the two, one after the other.
LEMMA Cut ==
  ASSUME NEW b \in Seq(Nat), NEW k \in 0..Len(b)
  PROVE  /\ SubSeq(b, 1, k) \in Seq(Nat) /\ SubSeq(b, k + 1, Len(b)) \in Seq(Nat)
         /\ SubSeq(b, 1, k) \o SubSeq(b, k + 1, Len(b)) = b
<1> DEFINE n == Len(b)
           s == SubSeq(b, 1, k)
           t == SubSeq(b, k + 1, n)
           u == s \o t
<1>1. /\ n \in Nat /\ 1 \in 1..n + 1 /\ k \in 1 - 1..n /\ k + 1 \in 1..n + 1 /\ n \in k + 1 - 1..n
      /\ k - 1 + 1 = k /\ n - (k + 1) + 1 = n - k /\ k \in Nat /\ n - k \in Nat
  OBVIOUS
<1>2. s \in Seq(Nat) /\ Len(s) = k /\ \A i \in 1..k : s[i] = b[i]
  <2>1. s \in Seq(Nat) /\ Len(s) = k - 1 + 1 /\ \A i \in 1..k - 1 + 1 : s[i] = b[1 + i - 1]
    BY <1>1, Slice
  <2>2. \A i \in 1..k : 1 + i - 1 = i
    OBVIOUS
  <2> HIDE DEF s
  <2> QED BY <1>1, <2>1, <2>2
<1>3. t \in Seq(Nat) /\ Len(t) = n - k /\ \A i \in 1..n - k : t[i] = b[k + i]
  <2> DEFINE h == k + 1
  <2>0. h \in 1..n + 1 /\ n \in h - 1..n
    BY <1>1
  <2> HIDE DEF h
  <2>a. SubSeq(b, h, n) \in Seq(Nat) /\ Len(SubSeq(b, h, n)) = n - h + 1 /\ \A i \in 1..n - h + 1 : SubSeq(b, h, n)[i] = b[h + i - 1]
    BY <2>0, Slice
  <2>1. t \in Seq(Nat) /\ Len(t) = n - (k + 1) + 1 /\ \A i \in 1..n - (k + 1) + 1 : t[i] = b[k + 1 + i - 1]
    BY <2>a DEF h
  <2>2. \A i \in 1..n - k : k + 1 + i - 1 = k + i
    BY <1>1
  <2> HIDE DEF t, n
  <2> QED BY <1>1, <2>1, <2>2
<1> HIDE DEF s, t
<1>4. /\ u \in Seq(Nat) /\ Len(u) = Len(s) + Len(t)
      /\ \A i \in 1..Len(s) : u[i] = s[i]
      /\ \A i \in 1..Len(t) : u[Len(s) + i] = t[i]
  BY <1>2, <1>3, Joined
<1> HIDE DEF u
<1>5. Len(u) = n
  BY <1>1, <1>2, <1>3, <1>4
<1> HIDE DEF n
<1>6. ASSUME NEW i \in 1..n PROVE u[i] = b[i]
  <2>1. CASE i <= k
    <3>1. i \in 1..k
      BY <1>1, <2>1
    <3> QED BY <1>2, <1>4, <3>1
  <2>2. CASE ~(i <= k)
    <3> DEFINE j == i - k
    <3>1. j \in 1..n - k /\ k + j = i
      BY <1>1, <2>2
    <3> HIDE DEF j
    <3>2. u[k + j] = t[j]
      BY <1>2, <1>3, <1>4, <3>1
    <3> QED BY <1>3, <3>1, <3>2
  <2> QED BY <2>1, <2>2
<1>7. u = b
  BY <1>4, <1>5, <1>6, SeqEqual DEF n
<1> QED
  BY <1>2, <1>3, <1>7 DEF s, t, u, n

\* A list of two.
LEMMA Two ==
  ASSUME NEW x, NEW y
  PROVE  <<x>> \o <<y>> = <<x, y>>
<1> DEFINE X == {x, y}
           s == <<x>>
           t == <<y>>
           u == s \o t
           v == <<x, y>>
<1>1. s \in Seq(X) /\ Len(s) = 1 /\ s[1] = x /\ t \in Seq(X) /\ Len(t) = 1 /\ t[1] = y
  OBVIOUS
<1>2. v \in Seq(X) /\ Len(v) = 2 /\ v[1] = x /\ v[2] = y
  OBVIOUS
<1> HIDE DEF s, t, v, X
<1>3. /\ u \in Seq(X) /\ Len(u) = Len(s) + Len(t)
      /\ \A i \in 1..Len(s) + Len(t) : u[i] = IF i <= Len(s) THEN s[i] ELSE t[i - Len(s)]
  BY <1>1, ConcatProperties
<1> HIDE DEF u
<1>4. Len(u) = 2 /\ u[1] = x /\ u[2] = y
  <2>1. Len(s) + Len(t) = 2 /\ 1 \in 1..Len(s) + Len(t) /\ 2 \in 1..Len(s) + Len(t)
    BY <1>1
  <2>2. u[1] = s[1]
    BY <1>1, <1>3, <2>1
  <2>3. u[2] = t[2 - Len(s)]
    BY <1>1, <1>3, <2>1
  <2> QED BY <1>1, <1>3, <2>1, <2>2, <2>3
<1>5. \A i \in 1..Len(u) : i = 1 \/ i = 2
  BY <1>4
<1>6. Len(u) = Len(v) /\ \A i \in 1..Len(u) : u[i] = v[i]
  BY <1>2, <1>4, <1>5
<1>7. u = v
  BY <1>2, <1>3, <1>6, SeqEqual
<1> QED
  BY <1>7 DEF u, s, t, v

\* Two KANALI frames in garbage in which no frame starts are read, one after
\* the other, wherever the bytes are cut into two reads (tryx-proto frame.rs,
\* "a later real header can still be recovered").
THEOREM KanaliFramesArrive ==
  ASSUME NEW i,
         \A k \in 1..2 : /\ i.garbage[k] \in Seq(Nat) /\ i.payloads[k] \in Seq(Nat)
                         /\ Len(i.payloads[k]) <= MAX_PAYLOAD_LEN
                         /\ Garbled(i.garbage[k], i.payloads[k]),
         i.payloads = <<i.payloads[1], i.payloads[2]>>
  PROVE  KanaliArrives(i)
<1> DEFINE g1 == i.garbage[1]
           g2 == i.garbage[2]
           p1 == i.payloads[1]
           p2 == i.payloads[2]
           e1 == encode(p1)
           e2 == encode(p2)
           bytes == ((g1 \o e1) \o g2) \o e2
           r == g2 \o e2
           s == g1 \o e1
<1>1. /\ g1 \in Seq(Nat) /\ g2 \in Seq(Nat) /\ p1 \in Seq(Nat) /\ p2 \in Seq(Nat)
      /\ Len(p1) <= MAX_PAYLOAD_LEN /\ Len(p2) <= MAX_PAYLOAD_LEN
      /\ Garbled(g1, p1) /\ Garbled(g2, p2) /\ i.payloads = <<p1, p2>>
  <2>1. 1 \in 1..2 /\ 2 \in 1..2
    OBVIOUS
  <2> QED BY <2>1
<1>a. KanaliArrives(i) <=>
        \A k \in 0..Len(bytes) :
          ReadAll(SubSeq(bytes, 1, k), SubSeq(bytes, k + 1, Len(bytes))) = i.payloads
  BY DEF KanaliArrives
<1> HIDE DEF g1, g2, p1, p2
<1>2. e1 \in Seq(Nat) /\ e2 \in Seq(Nat)
  BY <1>1, EncodeIs
<1>b. e1 = encode(p1) /\ e2 = encode(p2)
  OBVIOUS
<1> HIDE DEF e1, e2
<1>3. s \in Seq(Nat) /\ r \in Seq(Nat)
  BY <1>1, <1>2, ConcatProperties
<1>4. bytes = s \o r
  <2> HIDE DEF s
  <2>1. (s \o g2) \o e2 = s \o (g2 \o e2)
    <3>1. s \in Seq(Nat) /\ g2 \in Seq(Nat) /\ e2 \in Seq(Nat)
      BY <1>1, <1>2, <1>3
    <3> QED BY <3>1, Associative
  <2> QED BY <2>1 DEF s
<1>5. read_frame[s \o r].got = <<p1>> \o read_frame[r].got
  <2> HIDE DEF r
  <2>1. read_frame[(g1 \o encode(p1)) \o r].got = <<p1>> \o read_frame[r].got
    BY <1>1, <1>3, NextFrame, ZenonT(30)
  <2> QED BY <1>b, <2>1
<1>6. read_frame[r].got = <<p2>>
  <2>1. <<>> \in Seq(Nat)
    OBVIOUS
  <2>2. r \o <<>> = r
    BY <1>3, ConcatEmptySeq
  <2>3. read_frame[r \o <<>>].got = <<p2>> \o read_frame[<<>>].got
    BY <1>1, <1>b, <2>1, NextFrame, ZenonT(30)
  <2>4. <<p2>> \in Seq(Seq(Nat))
    BY <1>1
  <2>5. <<p2>> \o <<>> = <<p2>>
    BY <2>4, ConcatEmptySeq
  <2> QED BY <2>2, <2>3, <2>5, NothingRead
<1>7. <<p1>> \o <<p2>> = <<p1, p2>>
  BY Two
<1> HIDE DEF bytes, s, r
<1>8. bytes \in Seq(Nat) /\ read_frame[bytes].got = i.payloads
  BY <1>1, <1>3, <1>4, <1>5, <1>6, <1>7, ConcatProperties
<1>9. ASSUME NEW k \in 0..Len(bytes)
      PROVE  ReadAll(SubSeq(bytes, 1, k), SubSeq(bytes, k + 1, Len(bytes))) = i.payloads
  <2> DEFINE x == SubSeq(bytes, 1, k)
             y == SubSeq(bytes, k + 1, Len(bytes))
  <2>1. x \in Seq(Nat) /\ y \in Seq(Nat) /\ x \o y = bytes
    BY <1>8, Cut
  <2> HIDE DEF x, y
  <2>2. ReadAll(x, y) = read_frame[x \o y].got
    BY <2>1, AnyPieces
  <2> QED BY <1>8, <2>1, <2>2 DEF x, y
<1> QED
  BY <1>9, <1>a

\* The bytes on both sides of where garbage ends.
LEMMA BehindGarbage ==
  ASSUME NEW g \in Seq(Nat), NEW p \in Seq(Nat)
  PROVE  LET u == g \o encode(p)
             n == Len(g)
         IN  /\ \A i \in 1..n : u[i] = g[i]
             /\ u[n + 1] = 84 /\ u[n + 2] = 82 /\ u[n + 3] = 89 /\ u[n + 4] = 88
             /\ \A j \in 1..n : MayStart(u, j) =>
                  u[j] = 84 /\ u[j + 1] = 82 /\ u[j + 2] = 89 /\ u[j + 3] = 88 /\ u[j + 7] = 0
<1> DEFINE e == encode(p)
           u == g \o e
           n == Len(g)
<1>1. e \in Seq(Nat) /\ Len(e) = HEADER_LEN + Len(p) /\ MagicAt(e, 1) /\ Len(p) \in Nat
  BY EncodeIs
<1> HIDE DEF e
<1>2. Len(e) \in Nat /\ Len(e) >= 8
  BY <1>1 DEF HEADER_LEN
<1>3. e[1] = 84 /\ e[2] = 82 /\ e[3] = 89 /\ e[4] = 88
  <2>1. 1 <= Len(e) /\ 1 + 1 <= Len(e) /\ 1 + 2 <= Len(e) /\ 1 + 3 <= Len(e) /\ 1 + 1 = 2 /\ 1 + 2 = 3 /\ 1 + 3 = 4
    BY <1>2
  <2> QED BY <1>1, <2>1 DEF MagicAt
<1>4. /\ Len(u) = n + Len(e) /\ n \in Nat
      /\ \A i \in 1..n : u[i] = g[i]
      /\ \A i \in 1..Len(e) : u[n + i] = e[i]
  BY <1>1, Joined
<1> HIDE DEF u, n
<1>5. u[n + 1] = 84 /\ u[n + 2] = 82 /\ u[n + 3] = 89 /\ u[n + 4] = 88
  <2>1. 1 \in 1..Len(e) /\ 2 \in 1..Len(e) /\ 3 \in 1..Len(e) /\ 4 \in 1..Len(e)
    BY <1>2
  <2> QED BY <1>3, <1>4, <2>1, SMTT(30)
<1>6. ASSUME NEW j \in 1..n, MayStart(u, j)
      PROVE  u[j] = 84 /\ u[j + 1] = 82 /\ u[j + 2] = 89 /\ u[j + 3] = 88 /\ u[j + 7] = 0
  <2>1. /\ j <= Len(u) /\ j + 1 <= Len(u) /\ j + 2 <= Len(u) /\ j + 3 <= Len(u) /\ j + 7 <= Len(u)
    BY <1>2, <1>4
  <2>2. u[j + 7] = 0
    BY <1>6, <2>1 DEF MayStart, LengthAt
  <2> QED BY <1>6, <2>1, <2>2 DEF MayStart, MagicAt
<1> QED
  BY <1>4, <1>5, <1>6 DEF u, n, e

\* In none of the garbage that is checked does a frame start.
LEMMA GarbageIsGarbled ==
  ASSUME NEW g \in Garbage, NEW p \in Seq(Nat)
  PROVE  g \in Seq(Nat) /\ Garbled(g, p)
<1>m. MAGIC \in Seq(Nat) /\ Len(MAGIC) = 4 /\ MAGIC[1] = 84 /\ MAGIC[2] = 82 /\ MAGIC[3] = 89 /\ MAGIC[4] = 88
  BY DEF MAGIC
<1> DEFINE u == g \o encode(p)
           n == Len(g)
           Facts == /\ n \in Nat /\ \A i \in 1..n : u[i] = g[i]
                    /\ u[n + 1] = 84 /\ u[n + 2] = 82 /\ u[n + 3] = 89 /\ u[n + 4] = 88
                    /\ \A j \in 1..n : MayStart(u, j) =>
                         u[j] = 84 /\ u[j + 1] = 82 /\ u[j + 2] = 89 /\ u[j + 3] = 88 /\ u[j + 7] = 0
<1>f. ASSUME g \in Seq(Nat) PROVE Facts
  <2>1. n \in Nat
    BY <1>f
  <2>2. LET v == g \o encode(p)
            l == Len(g)
        IN  /\ \A i \in 1..l : v[i] = g[i]
            /\ v[l + 1] = 84 /\ v[l + 2] = 82 /\ v[l + 3] = 89 /\ v[l + 4] = 88
            /\ \A j \in 1..l : MayStart(v, j) =>
                 v[j] = 84 /\ v[j + 1] = 82 /\ v[j + 2] = 89 /\ v[j + 3] = 88 /\ v[j + 7] = 0
    BY <1>f, BehindGarbage, ZenonT(30)
  <2> QED BY <2>1, <2>2
<1>u. (\A j \in 1..n : ~MayStart(u, j)) => Garbled(g, p)
  BY DEF Garbled
<1> HIDE DEF u
<1>1. CASE \E k \in 0..4 : g = SubSeq(MAGIC, 1, k)
  <2>1. PICK k \in 0..4 : g = SubSeq(MAGIC, 1, k)
    BY <1>1
  <2>2. g \in Seq(Nat) /\ n = k /\ \A i \in 1..k : g[i] = MAGIC[i]
    <3>1. 1 \in 1..Len(MAGIC) + 1 /\ k \in 1 - 1..Len(MAGIC)
      BY <1>m
    <3> DEFINE t == SubSeq(MAGIC, 1, k)
    <3>2. t \in Seq(Nat) /\ Len(t) = k - 1 + 1 /\ \A j \in 1..k - 1 + 1 : t[j] = MAGIC[1 + j - 1]
      BY <1>m, <3>1, Slice
    <3> HIDE DEF t
    <3>3. g = t
      BY <2>1 DEF t
    <3> QED BY <3>2, <3>3
  <2>3. Facts
    BY <1>f, <2>2
  <2> HIDE DEF n
  <2>4. ASSUME NEW j \in 1..n, MayStart(u, j) PROVE FALSE
    <3>1. u[j] = 84 /\ u[j + 1] = 82 /\ u[j + 2] = 89 /\ u[j + 3] = 88 /\ u[j + 7] = 0
      BY <2>3, <2>4
    <3>2. g[j] = 84 /\ g[j] = MAGIC[j] /\ j \in 1..4
      BY <2>2, <2>3, <3>1, SMTT(30)
    <3>3. j = 1
      <4>1. j = 1 \/ j = 2 \/ j = 3 \/ j = 4
        BY <3>2
      <4> QED BY <1>m, <3>2, <4>1
    <3>4. k = 1 \/ k = 2 \/ k = 3 \/ k = 4
      BY <2>2, <2>4
    <3>5. u[2] = 82 /\ u[3] = 89 /\ u[4] = 88 /\ u[8] = 0
      BY <3>1, <3>3
    <3>6. u[k + 1] = 84 /\ u[k + 4] = 88
      BY <2>2, <2>3
    <3> QED BY <3>4, <3>5, <3>6
  <2> QED BY <1>u, <2>2, <2>4
<1>2. CASE g = <<88>>
  <2>1. g \in Seq(Nat) /\ n = 1 /\ g[1] = 88
    BY <1>2
  <2>2. Facts
    BY <1>f, <2>1
  <2> HIDE DEF n
  <2>3. ASSUME NEW j \in 1..n, MayStart(u, j) PROVE FALSE
    <3>1. j = 1
      BY <2>1
    <3> QED BY <2>1, <2>2, <2>3, <3>1
  <2> QED BY <1>u, <2>1, <2>3
<1>3. CASE g = <<84, 84>>
  <2>1. g \in Seq(Nat) /\ n = 2 /\ g[1] = 84 /\ g[2] = 84
    BY <1>3
  <2>2. Facts
    BY <1>f, <2>1
  <2> HIDE DEF n
  <2>3. ASSUME NEW j \in 1..n, MayStart(u, j) PROVE FALSE
    <3>1. j = 1 \/ j = 2
      BY <2>1
    <3>2. u[j + 1] = 82
      BY <2>2, <2>3
    <3>3. u[2] = 84 /\ u[3] = 84
      <4>1. 2 \in 1..n /\ n + 1 = 3
        BY <2>1
      <4> QED BY <2>1, <2>2, <4>1
    <3> QED BY <3>1, <3>2, <3>3
  <2> QED BY <1>u, <2>1, <2>3
\* A magic and text that is not 84, in which a length would end.
<1>4. ASSUME NEW t \in Seq(Nat), g = MAGIC \o t, Len(t) \in {1, 5},
             \A i \in 1..Len(t) : t[i] \in {65, 66, 67, 68, 69}
      PROVE  g \in Seq(Nat) /\ Garbled(g, p)
  <2> DEFINE M == MAGIC
  <2>0. M \in Seq(Nat) /\ Len(M) = 4 /\ M[1] = 84 /\ M[2] = 82 /\ M[3] = 89 /\ M[4] = 88
    BY <1>m
  <2> HIDE DEF M
  <2>1. /\ g \in Seq(Nat) /\ Len(g) = Len(M) + Len(t)
        /\ \A i \in 1..Len(M) : g[i] = M[i]
        /\ \A i \in 1..Len(t) : g[Len(M) + i] = t[i]
    <3> DEFINE x == M \o t
    <3>1. /\ x \in Seq(Nat) /\ Len(x) = Len(M) + Len(t)
          /\ \A i \in 1..Len(M) : x[i] = M[i]
          /\ \A i \in 1..Len(t) : x[Len(M) + i] = t[i]
      <4>1. M \in Seq(Nat) /\ t \in Seq(Nat)
        BY <2>0
      <4> QED BY <4>1, Joined
    <3> HIDE DEF x
    <3>2. g = x
      BY <1>4 DEF x, M
    <3> QED BY <3>1, <3>2
  <2>2. Facts
    BY <1>f, <2>1
  <2>3. n = 4 + Len(t) /\ Len(t) \in Nat
    BY <1>4, <2>0, <2>1
  <2> HIDE DEF n
  <2>4. ASSUME NEW j \in 1..n, MayStart(u, j) PROVE FALSE
    <3>1. u[j] = 84 /\ u[j + 7] = 0
      BY <2>2, <2>4
    <3>2. g[j] = 84
      BY <2>2, <3>1
    <3>3. CASE j <= 4
      <4>1. j = 1 \/ j = 2 \/ j = 3 \/ j = 4
        BY <3>3
      <4>2. g[1] = 84 /\ g[2] = 82 /\ g[3] = 89 /\ g[4] = 88
        BY <2>0, <2>1
      <4>3. j = 1 /\ u[8] = 0
        BY <3>1, <3>2, <4>1, <4>2
      <4>4. CASE Len(t) = 1
        <5>1. n + 3 = 8
          BY <2>3, <4>4
        <5> QED BY <2>2, <4>3, <5>1
      <4>5. CASE Len(t) = 5
        <5>1. 8 \in 1..n /\ 4 \in 1..Len(t) /\ Len(M) + 4 = 8
          BY <2>0, <2>3, <4>5
        <5>2. u[8] = g[8]
          BY <2>2, <5>1
        <5>3. g[8] = t[4]
          BY <2>1, <5>1
        <5>4. t[4] \in {65, 66, 67, 68, 69}
          BY <1>4, <5>1
        <5> QED BY <4>3, <5>2, <5>3, <5>4
      <4> QED BY <1>4, <4>4, <4>5
    <3>4. CASE ~(j <= 4)
      <4> DEFINE i == j - 4
      <4>1. i \in 1..Len(t) /\ Len(M) + i = j
        BY <2>0, <2>3, <3>4
      <4> HIDE DEF i
      <4>2. g[Len(M) + i] = t[i]
        BY <2>1, <4>1
      <4>3. t[i] \in {65, 66, 67, 68, 69}
        BY <1>4, <4>1
      <4> QED BY <3>2, <4>1, <4>2, <4>3
    <3> QED BY <3>3, <3>4
  <2> QED BY <1>u, <2>1, <2>4
<1>5. CASE g = MAGIC \o <<65>>
  <2> DEFINE t == <<65>>
  <2>1. t \in Seq(Nat) /\ Len(t) = 1 /\ t[1] = 65
    OBVIOUS
  <2> HIDE DEF t
  <2>2. Len(t) \in {1, 5} /\ \A i \in 1..Len(t) : t[i] \in {65, 66, 67, 68, 69}
    <3>1. \A i \in 1..Len(t) : i = 1
      BY <2>1
    <3> QED BY <2>1, <3>1
  <2>3. g = MAGIC \o t
    BY <1>5 DEF t
  <2> QED BY <1>4, <2>1, <2>2, <2>3
<1>6. CASE g = MAGIC \o <<65, 66, 67, 68, 69>>
  <2> DEFINE t == <<65, 66, 67, 68, 69>>
  <2>1. t \in Seq(Nat) /\ Len(t) = 5 /\ t[1] = 65 /\ t[2] = 66 /\ t[3] = 67 /\ t[4] = 68 /\ t[5] = 69
    OBVIOUS
  <2> HIDE DEF t
  <2>2. Len(t) \in {1, 5} /\ \A i \in 1..Len(t) : t[i] \in {65, 66, 67, 68, 69}
    <3>1. \A i \in 1..Len(t) : i = 1 \/ i = 2 \/ i = 3 \/ i = 4 \/ i = 5
      BY <2>1
    <3> QED BY <2>1, <3>1
  <2>3. g = MAGIC \o t
    BY <1>6 DEF t
  <2> QED BY <1>4, <2>1, <2>2, <2>3
<1> QED
  BY <1>1, <1>2, <1>3, <1>5, <1>6 DEF Garbage

\* The texts that are checked are texts.
LEMMA SeqsUpToAre ==
  ASSUME NEW S \in SUBSET Nat, NEW n \in Nat, NEW s \in SeqsUpTo(S, n)
  PROVE  s \in Seq(Nat)
<1>1. PICK k \in 0..n : s \in [1..k -> S]
  BY DEF SeqsUpTo
<1>2. k \in Nat /\ s \in [1..k -> Nat]
  <2>1. k \in Nat
    OBVIOUS
  <2>2. s = [i \in 1..k |-> s[i]] /\ \A i \in 1..k : s[i] \in Nat
    BY <1>1, <2>1
  <2> QED BY <2>1, <2>2
<1> QED
  BY <1>2

\* Whatever text or payloads the run checks, behind whatever garbage and in
\* whatever pieces, arrive: each input is an instance of the two theorems.
THEOREM EveryFrameArrives == MCSpec => []FramesArrive
<1>1. ASSUME NEW i \in LegacyInputs PROVE LegacyArrives(i)
  <2>1. i.text \in Texts /\ i.before \in {<<>>, <<91>>, <<1, 2>>} /\ i.after \in {<<>>, <<90>>}
    BY DEF LegacyInputs
  <2>2. i.text \in Seq(Nat)
    <3>1. CASE i.text \in SeqsUpTo({0, 1, 2, 90, 91}, 3)
      <4>1. {0, 1, 2, 90, 91} \in SUBSET Nat /\ 3 \in Nat
        OBVIOUS
      <4> QED BY <3>1, <4>1, SeqsUpToAre
    <3>2. CASE \E n \in {85, 86}, b \in {1, 90, 91} : i.text = [k \in 1..n |-> b]
      <4>1. PICK n \in {85, 86}, b \in {1, 90, 91} : i.text = [k \in 1..n |-> b]
        BY <3>2
      <4>2. n \in Nat /\ b \in Nat
        OBVIOUS
      <4> QED BY <4>1, <4>2
    <3>3. i.text \in SeqsUpTo({0, 1, 2, 90, 91}, 3)
          \/ \E n \in {85, 86}, b \in {1, 90, 91} : i.text = [k \in 1..n |-> b]
      <4> DEFINE A == SeqsUpTo({0, 1, 2, 90, 91}, 3)
                 B == {[k \in 1..n |-> b] : n \in {85, 86}, b \in {1, 90, 91}}
                 t == i.text
      <4>1. t \in A \cup B
        BY <2>1 DEF Texts
      <4>2. t \in B => \E n \in {85, 86}, b \in {1, 90, 91} : t = [k \in 1..n |-> b]
        <5> HIDE DEF t
        <5> QED OBVIOUS
      <4>3. t \in A \/ t \in B
        <5> HIDE DEF t, A, B
        <5> QED BY <4>1
      <4> QED BY <4>2, <4>3
    <3> QED BY <3>1, <3>2, <3>3
  <2>3. i.after \in Seq(Nat)
    <3>1. <<>> \in Seq(Nat) /\ <<90>> \in Seq(Nat)
      OBVIOUS
    <3> QED BY <2>1, <3>1
  <2>4. i.before \in Seq(Nat) /\ Unmarked(i.before)
    <3>1. CASE i.before = <<>>
      BY <3>1 DEF Unmarked
    <3>2. CASE i.before = <<91>>
      BY <3>2 DEF Unmarked, FRAME_MARKER
    <3>3. CASE i.before = <<1, 2>>
      BY <3>3 DEF Unmarked, FRAME_MARKER
    <3> QED BY <2>1, <3>1, <3>2, <3>3
  <2> QED BY <2>2, <2>3, <2>4, LegacyFramesArrive
<1>2. ASSUME NEW i \in KanaliInputs PROVE KanaliArrives(i)
  <2>1. i.garbage \in Garbage \X Garbage /\ i.payloads \in Payloads \X Payloads
    BY DEF KanaliInputs
  <2>2. ASSUME NEW p \in Payloads PROVE p \in Seq(Nat) /\ Len(p) <= MAX_PAYLOAD_LEN
    <3>1. CASE p = <<>>
      BY <3>1 DEF MAX_PAYLOAD_LEN
    <3>2. CASE p = <<7>>
      BY <3>2 DEF MAX_PAYLOAD_LEN
    <3>3. CASE p = <<84, 82, 89, 88>>
      BY <3>3 DEF MAX_PAYLOAD_LEN
    <3>4. CASE p = <<9, 84, 82>>
      BY <3>4 DEF MAX_PAYLOAD_LEN
    <3> QED BY <3>1, <3>2, <3>3, <3>4 DEF Payloads
  <2>3. i.payloads = <<i.payloads[1], i.payloads[2]>>
    BY <2>1
  <2>4. ASSUME NEW k \in 1..2
        PROVE  /\ i.garbage[k] \in Seq(Nat) /\ i.payloads[k] \in Seq(Nat)
               /\ Len(i.payloads[k]) <= MAX_PAYLOAD_LEN
               /\ Garbled(i.garbage[k], i.payloads[k])
    <3>1. i.garbage[k] \in Garbage /\ i.payloads[k] \in Payloads
      <4>1. k = 1 \/ k = 2
        OBVIOUS
      <4> QED BY <2>1, <4>1
    <3> QED BY <2>2, <3>1, GarbageIsGarbled
  <2> QED BY <2>3, <2>4, KanaliFramesArrive
<1>3. MCInit => FramesArrive
  <2> SUFFICES ASSUME MCInit PROVE FramesArrive
    OBVIOUS
  <2>1. CASE input = Unused
    BY <2>1 DEF FramesArrive, Unused
  <2>2. CASE input \in LegacyInputs
    <3>1. input.kind = "legacy"
      BY <2>2 DEF LegacyInputs
    <3> QED BY <1>1, <2>2, <3>1 DEF FramesArrive
  <2>3. CASE input \in KanaliInputs
    <3>1. input.kind = "kanali"
      BY <2>3 DEF KanaliInputs
    <3> QED BY <1>2, <2>3, <3>1 DEF FramesArrive
  <2>4. CASE input \in OverlayInputs \cup DateInputs
    <3>1. input.kind = "overlay" \/ input.kind = "date"
      BY <2>4 DEF OverlayInputs, DateInputs
    <3> QED BY <3>1 DEF FramesArrive
  <2> QED BY <2>1, <2>2, <2>3, <2>4 DEF MCInit
<1>4. FramesArrive /\ [MCNext]_<<vars, input>> => FramesArrive'
  BY DEF MCNext, FramesArrive, LegacyArrives, KanaliArrives
<1> QED
  BY <1>3, <1>4, PTL DEF MCSpec

-----------------------------------------------------------------------------
(* The layout of an overlay and its batches.                               *)

(* What an overlay may be asked for: what has a label, or a metric. *)
Names == LABELS \cup ToSet(Catalog)

\* The elements of a finite set of numbers have the ranks from 0 on.
LEMMA Ranks ==
  ASSUME NEW S \in SUBSET Nat, IsFiniteSet(S)
  PROVE  /\ Cardinality(S) \in Nat
         /\ \A i \in S : Rank(i, S) \in 0..Cardinality(S) - 1
         /\ \A i, j \in S : i < j => Rank(i, S) < Rank(j, S)
         /\ \A k \in 0..Cardinality(S) - 1 : \E i \in S : Rank(i, S) = k
<1> DEFINE n == Cardinality(S)
           Below(i) == {j \in S : j < i}
<1>1. n \in Nat
  BY FS_CardinalityType
<1>2. \A i \in S : IsFiniteSet(Below(i)) /\ Cardinality(Below(i)) \in Nat /\ Rank(i, S) = Cardinality(Below(i))
  BY FS_Subset, FS_CardinalityType DEF Rank
<1>3. ASSUME NEW i \in S PROVE Rank(i, S) < n
  <2>1. Below(i) \in SUBSET S /\ i \notin Below(i)
    OBVIOUS
  <2>2. Cardinality(Below(i)) <= n /\ (n = Cardinality(Below(i)) => S = Below(i))
    BY <2>1, FS_Subset
  <2> QED BY <1>1, <1>2, <2>1, <2>2
<1>4. ASSUME NEW i \in S, NEW j \in S, i < j PROVE Rank(i, S) < Rank(j, S)
  <2>1. Below(i) \in SUBSET Below(j) /\ i \in Below(j) /\ i \notin Below(i)
    <3>1. i \in Nat /\ j \in Nat /\ \A k \in S : k \in Nat
      OBVIOUS
    <3>2. \A k \in S : k < i => k < j
      BY <1>4, <3>1
    <3>3. Below(i) \in SUBSET Below(j)
      BY <3>2
    <3>4. i \in Below(j)
      BY <1>4
    <3>5. ~(i < i)
      BY <3>1
    <3> QED BY <3>3, <3>4, <3>5
  <2>2. Cardinality(Below(i)) <= Cardinality(Below(j))
        /\ (Cardinality(Below(j)) = Cardinality(Below(i)) => Below(j) = Below(i))
    BY <1>2, <2>1, FS_Subset
  <2> QED BY <1>2, <2>1, <2>2
<1> HIDE DEF n
<1>5. ASSUME NEW i \in S PROVE Rank(i, S) \in 0..n - 1
  <2>1. Rank(i, S) \in Nat /\ Rank(i, S) < n
    BY <1>2, <1>3
  <2> QED BY <1>1, <2>1
<1>6. ASSUME NEW k \in 0..n - 1 PROVE \E i \in S : Rank(i, S) = k
  <2> DEFINE f == [i \in S |-> Rank(i, S)]
             T == 0..n - 1
  <2>1. f \in [S -> T]
    BY <1>5
  <2>2. \A i, j \in S : f[i] = f[j] => i = j
    <3> SUFFICES ASSUME NEW i \in S, NEW j \in S, f[i] = f[j] PROVE i = j
      OBVIOUS
    <3>1. Rank(i, S) = Rank(j, S) /\ Rank(i, S) \in Int /\ i \in Int /\ j \in Int
      BY <1>5
    <3>2. ~(i < j) /\ ~(j < i)
      BY <1>4, <3>1
    <3> QED BY <3>1, <3>2
  <2>3. f \in Injection(S, T)
    BY <2>1, <2>2 DEF Injection, IsInjective
  <2>4. IsFiniteSet(T) /\ Cardinality(T) = n
    BY <1>1, FS_Interval
  <2>5. f \in Surjection(S, T)
    BY <2>3, <2>4, FS_Injection DEF n
  <2> QED BY <2>5 DEF Surjection
<1> QED BY <1>1, <1>4, <1>5, <1>6 DEF n

\* What is selected of an area: metrics that there are, each once, three at
\* most, and all that are named when no more than three labels are.
LEMMA SelectedIs ==
  ASSUME NEW area, area.metrics \in Seq(Names)
  PROVE  /\ selected(area) \in Seq(ToSet(Catalog)) /\ Len(selected(area)) \in 0..3
         /\ \A k, l \in DOMAIN selected(area) : selected(area)[k] = selected(area)[l] => k = l
         /\ Len(area.metrics) <= 3 =>
              \A name \in ToSet(Catalog) :
                name \in ToSet(area.metrics) <=> name \in ToSet(selected(area))
<1> DEFINE names == area.metrics
           O == Once(area)
           P == Picked(area)
           n == Cardinality(P)
<1>1. Len(names) \in Nat /\ DOMAIN names = 1..Len(names)
  OBVIOUS
<1>2. /\ O \in SUBSET Nat /\ IsFiniteSet(O) /\ P \in SUBSET O /\ P \in SUBSET Nat /\ IsFiniteSet(P)
      /\ \A i \in P : Rank(i, O) < 3
  <2>1. O \in SUBSET (1..Len(names)) /\ IsFiniteSet(1..Len(names))
    BY <1>1, FS_Interval DEF Once
  <2>2. P \in SUBSET O
    BY DEF Picked
  <2>3. IsFiniteSet(O) /\ IsFiniteSet(P)
    BY <2>1, <2>2, FS_Subset
  <2> QED BY <2>1, <2>2, <2>3 DEF Picked
<1>3. /\ \A i \in O : names[i] \in ToSet(Catalog) /\ i \in 1..Len(names)
      /\ \A i, j \in O : names[i] = names[j] => i = j
  <2>1. \A i \in O : names[i] \in ToSet(Catalog) /\ i \in 1..Len(names)
                     /\ \A j \in 1..(i - 1) : names[j] # names[i]
    BY <1>1 DEF Once
  <2>2. ASSUME NEW i \in O, NEW j \in O, names[i] = names[j] PROVE i = j
    BY <2>1, <2>2, <1>1
  <2> QED BY <2>1, <2>2
<1>4. /\ n \in Nat
      /\ \A i \in P : Rank(i, P) \in 0..n - 1
      /\ \A k \in 0..n - 1 : \E i \in P : Rank(i, P) = k
  BY <1>2, Ranks
<1>5. n <= 3
  <2> SUFFICES ASSUME n > 3 PROVE FALSE
    BY <1>4
  <2> HIDE DEF n
  <2>1. 3 \in 0..n - 1
    BY <1>4
  <2>2. PICK i \in P : Rank(i, P) = 3
    BY <1>4, <2>1
  <2>3. {j \in P : j < i} \in SUBSET {j \in O : j < i} /\ {j \in O : j < i} \in SUBSET O
    BY <1>2
  <2>4. IsFiniteSet({j \in O : j < i})
    BY <1>2, <2>3, FS_Subset
  <2>5. Rank(i, P) <= Rank(i, O) /\ Rank(i, O) \in Nat
    BY <2>3, <2>4, FS_Subset, FS_CardinalityType DEF Rank
  <2> QED BY <1>2, <2>2, <2>5
<1> DEFINE at(k) == CHOOSE i \in P : Rank(i, P) = k - 1
<1>6. \A k \in 1..n : at(k) \in P /\ Rank(at(k), P) = k - 1
  <2> HIDE DEF n, P
  <2>1. \A k \in 1..n : k - 1 \in 0..n - 1
    BY <1>4
  <2> QED BY <1>4, <2>1
<1>7. selected(area) = [k \in 1..n |-> names[at(k)]]
  BY DEF selected
<1> HIDE DEF at, n, P, O, names
<1>8. selected(area) \in Seq(ToSet(Catalog)) /\ Len(selected(area)) = n /\ DOMAIN selected(area) = 1..n
  <2>1. \A k \in 1..n : names[at(k)] \in ToSet(Catalog)
    BY <1>2, <1>3, <1>6
  <2> QED BY <1>4, <1>7, <2>1
<1>9. ASSUME NEW k \in 1..n, NEW l \in 1..n, selected(area)[k] = selected(area)[l] PROVE k = l
  <2>1. names[at(k)] = names[at(l)]
    BY <1>7, <1>9
  <2>2. at(k) = at(l)
    BY <1>2, <1>3, <1>6, <2>1
  <2> QED BY <1>4, <1>6, <2>2
<1>10. ASSUME NEW name \in ToSet(selected(area)) PROVE name \in ToSet(names)
  <2>1. PICK k \in 1..n : name = names[at(k)]
    BY <1>7, <1>8 DEF ToSet
  <2>2. at(k) \in DOMAIN names
    BY <1>1, <1>2, <1>3, <1>6 DEF names
  <2> QED BY <2>1, <2>2 DEF ToSet, names
<1>11. ASSUME NEW name \in ToSet(Catalog), name \in ToSet(names), Len(names) <= 3
       PROVE  name \in ToSet(selected(area))
  <2>1. PICK i \in 1..Len(names) : names[i] = name /\ \A j \in 1..(i - 1) : names[j] # name
    <3> DEFINE S == {m \in Nat : \A i \in 1..m : i <= Len(names) => names[i] # name}
    <3> SUFFICES ASSUME \A i \in 1..Len(names) :
                          names[i] = name => \E j \in 1..(i - 1) : names[j] = name
                 PROVE  FALSE
      OBVIOUS
    <3>1. 0 \in S
      OBVIOUS
    <3>2. ASSUME NEW m \in Nat, m \in S PROVE m + 1 \in S
      <4>1. m + 1 <= Len(names) => names[m + 1] # name
        BY <1>1, <3>2
      <4> QED BY <3>2, <4>1
    <3> HIDE DEF S
    <3>3. Nat \subseteq S
      BY <3>1, <3>2, NatSetInduction
    <3>4. Len(names) \in S
      BY <1>1, <3>3
    <3>5. \A i \in 1..Len(names) : names[i] # name
      BY <1>1, <3>4 DEF S
    <3> QED BY <1>1, <1>11, <3>5 DEF ToSet
  <2>2. i \in O
    BY <1>1, <1>11, <2>1 DEF Once, O, names
  <2>3. Rank(i, O) < 3
    <3> DEFINE B == {j \in O : j < i}
    <3>1. B \in SUBSET (1..(i - 1))
      BY <1>1, <1>3
    <3>2. IsFiniteSet(1..(i - 1)) /\ Cardinality(1..(i - 1)) = i - 1
      <4> DEFINE b == i - 1
      <4>1. b \in Nat /\ (1 > b => b = 0)
        BY <1>1, <2>1
      <4>2. IsFiniteSet(1..b) /\ Cardinality(1..b) = IF 1 > b THEN 0 ELSE b - 1 + 1
        BY <4>1, FS_Interval
      <4> HIDE DEF b
      <4>3. Cardinality(1..b) = b
        BY <4>1, <4>2
      <4> QED BY <4>2, <4>3 DEF b
    <3>3. Cardinality(B) <= i - 1 /\ Cardinality(B) \in Nat
      BY <3>1, <3>2, FS_Subset, FS_CardinalityType
    <3> QED BY <1>1, <1>11, <2>1, <3>3 DEF Rank
  <2>4. i \in P
    BY <2>2, <2>3 DEF Picked, P, O
  <2> DEFINE k == Rank(i, P) + 1
  <2>5. k \in 1..n /\ Rank(i, P) = k - 1
    BY <1>4, <2>4
  <2>6. at(k) = i
    <3>1. at(k) \in P /\ Rank(at(k), P) = Rank(i, P) /\ Rank(i, P) \in Int
      BY <1>4, <1>6, <2>4, <2>5
    <3>2. at(k) \in Nat /\ i \in Nat
      BY <1>2, <2>4, <3>1
    <3>3. \A a, b \in P : a < b => Rank(a, P) < Rank(b, P)
      BY <1>2, Ranks
    <3>4. ~(at(k) < i) /\ ~(i < at(k))
      <4> HIDE DEF k
      <4>1. at(k) < i => Rank(at(k), P) < Rank(i, P)
        BY <2>4, <3>1, <3>3
      <4>2. i < at(k) => Rank(i, P) < Rank(at(k), P)
        BY <2>4, <3>1, <3>3
      <4> QED BY <3>1, <4>1, <4>2
    <3> QED BY <3>2, <3>4
  <2>7. selected(area)[k] = name
    BY <1>7, <2>1, <2>5, <2>6
  <2> QED BY <1>8, <2>5, <2>7 DEF ToSet
<1> QED BY <1>4, <1>5, <1>8, <1>9, <1>10, <1>11 DEF names

(* What is asked of an overlay: lists of names, badges and flags. *)
Area == [metrics : Seq(Names), badges : Seq({"CPU Badge", "GPU Badge"}), bottom : BOOLEAN]
AnyOverlay == [left : Area, right : Area, dual : BOOLEAN, waterfall : BOOLEAN]
Groups == [id : Int, x : Int, y : Int, width : Int, height : Int, labels : SUBSET Int]

\* What is selected is a list of metrics.
LEMMA SelectedOf ==
  ASSUME NEW area \in Area
  PROVE  /\ selected(area) \in Seq(ToSet(Catalog))
         /\ Len(selected(area)) \in Nat /\ DOMAIN selected(area) = 1..Len(selected(area))
<1>1. area.metrics \in Seq(Names)
  BY DEF Area
<1>2. selected(area) \in Seq(ToSet(Catalog))
  BY <1>1, SelectedIs
<1> QED BY <1>2

\* The place of a metric in the catalogue, and its identifiers.
Number(name) == CHOOSE i \in DOMAIN METRICS : METRICS[i].name = name
Timed(name) == Catalog[Number(name)] = "Date&Time"

\* There are eleven metrics.
LEMMA CatalogIs == DOMAIN Catalog = 1..11
<1>1. Len(Catalog) = 11
  BY DEF Catalog
<1>2. DOMAIN Catalog = 1..Len(Catalog)
  BY DEF Catalog
<1> QED BY <1>1, <1>2

\* A metric's identifiers follow from its place in the catalogue.
LEMMA MetricIs ==
  ASSUME NEW name \in ToSet(Catalog)
  PROVE  /\ Number(name) \in Nat /\ 1 <= Number(name) /\ Number(name) <= 11
         /\ Catalog[Number(name)] = name
         /\ Metric(name) = [name |-> name, group |-> 99 + Number(name), date_time |-> Timed(name),
                            title_id |-> 98 + 3 * Number(name), value_id |-> 99 + 3 * Number(name),
                            unit_id |-> IF Timed(name) THEN 0 ELSE 100 + 3 * Number(name)]
<1> DEFINE n == Number(name)
<1>1. DOMAIN Catalog = 1..11
  BY CatalogIs
<1>2. DOMAIN METRICS = 1..11 /\ \A i \in 1..11 : METRICS[i].name = Catalog[i]
  BY <1>1 DEF METRICS
<1>3. \E i \in 1..11 : Catalog[i] = name
  BY <1>1 DEF ToSet
<1>4. n \in 1..11 /\ Catalog[n] = name
  BY <1>2, <1>3 DEF Number
<1>5. Metric(name) = METRICS[n]
  BY DEF Metric, Number
<1> HIDE DEF n
<1>6. METRICS[n] = [name |-> Catalog[n], group |-> 99 + n, date_time |-> Catalog[n] = "Date&Time",
                    title_id |-> 98 + 3 * n, value_id |-> 99 + 3 * n,
                    unit_id |-> IF Catalog[n] = "Date&Time" THEN 0 ELSE 100 + 3 * n]
  BY <1>1, <1>4 DEF METRICS
<1>7. n \in Nat /\ 1 <= n /\ n <= 11
  BY <1>4
<1> QED BY <1>4, <1>5, <1>6, <1>7 DEF Timed, n

\* The labels of a metric are three numbers of its own.
LEMMA LabelsAre ==
  ASSUME NEW name \in ToSet(Catalog), NEW offset \in Nat
  PROVE  \A l \in MetricLabels(Metric(name), offset) :
           /\ l \in Int
           /\ 98 + 3 * Number(name) + offset <= l /\ l <= 100 + 3 * Number(name) + offset
<1> DEFINE n == Number(name)
<1>1. n \in Nat
  BY MetricIs
<1>2. /\ Metric(name).title_id = 98 + 3 * n /\ Metric(name).value_id = 99 + 3 * n
      /\ Metric(name).date_time = Timed(name)
      /\ ~Timed(name) => Metric(name).unit_id = 100 + 3 * n
  BY MetricIs
<1> HIDE DEF n
<1> QED BY <1>1, <1>2, SMT DEF MetricLabels, n

-----------------------------------------------------------------------------
(* The layout of an area: its metrics from the top, and its badges. *)
Places(area) == Len(selected(area)) + (IF area.badges = <<>> THEN 0 ELSE 1)
GroupAt(overlay, area, right, k) ==
  IF k <= Len(selected(area)) THEN MetricGroup(overlay, area, right, k)
  ELSE BadgeGroup(overlay, area, right)

\* Where a metric is put, before the drop to a lower half.
Down(count, k) ==
  (IF count = 1 THEN SCREEN_HEIGHT \div 2
   ELSE (SCREEN_HEIGHT \div (count + 1)) * k + (k - 1) * 10)
    - VALUE_TEXT_SIZE \div 2 + TEXT_OFFSET_Y

\* The places of one, of two and of three metrics.
LEMMA DownIs ==
  /\ Down(1, 1) = 440 /\ Down(2, 1) = 260 /\ Down(2, 2) = 630
  /\ Down(3, 1) = 170 /\ Down(3, 2) = 450 /\ Down(3, 3) = 730
BY SMT DEF Down, SCREEN_HEIGHT, VALUE_TEXT_SIZE, TEXT_OFFSET_Y

\* They are on the canvas, each below the one before it.
LEMMA DownFits ==
  ASSUME NEW count \in 1..3, NEW k \in 1..count
  PROVE  /\ Down(count, k) \in Int /\ 170 <= Down(count, k) /\ Down(count, k) <= 730
         /\ \A l \in 1..count : k < l => Down(count, k) + 160 <= Down(count, l)
<1>1. CASE count = 1
  BY <1>1, DownIs
<1>2. CASE count = 2
  BY <1>2, DownIs
<1>3. CASE count = 3
  BY <1>3, DownIs
<1> QED BY <1>1, <1>2, <1>3

\* The fields that tell groups apart.
LEMMA SpaceIs ==
  ASSUME NEW o \in AnyOverlay, NEW area \in Area, NEW right \in BOOLEAN, right => o.dual
  PROVE  /\ Drop(o, area, right) = IF Lowered(o, area, right) THEN 1120 ELSE 0
         /\ Lowered(o, area, right) => o.waterfall
         /\ o.dual => (Lowered(o, area, right) <=> o.waterfall /\ ~right)
         /\ AreaX(o, right) = IF right /\ ~o.waterfall THEN 1180 ELSE 60
         /\ AreaWidth(o, 50) = IF o.waterfall THEN 950 ELSE IF o.dual THEN 1000 ELSE 2120
         /\ AreaWidth(o, 30) = IF o.waterfall THEN 970 ELSE IF o.dual THEN 1000 ELSE 2120
<1>1. Halves(o) = IF o.dual THEN 2 ELSE 1
  BY DEF Halves
<1>2. /\ SCREEN_WIDTH \div 2 = 1120 /\ SCREEN_WIDTH \div 1 = 2240
      /\ TEXT_OFFSET_X = 60
  BY SMT DEF SCREEN_WIDTH, TEXT_OFFSET_X
<1>3. o.dual \in BOOLEAN /\ o.waterfall \in BOOLEAN
  BY DEF AnyOverlay
<1>4. Drop(o, area, right) = IF Lowered(o, area, right) THEN 1120 ELSE 0
  BY <1>2 DEF Drop
<1>5. /\ Lowered(o, area, right) => o.waterfall
      /\ o.dual => (Lowered(o, area, right) <=> o.waterfall /\ ~right)
  BY DEF Lowered
<1>6. AreaX(o, right) = IF right /\ ~o.waterfall THEN 1180 ELSE 60
  <2>1. CASE right /\ ~o.waterfall
    BY <1>1, <1>2, <2>1 DEF AreaX
  <2>2. CASE ~(right /\ ~o.waterfall)
    BY <1>2, <2>2 DEF AreaX
  <2> QED BY <2>1, <2>2
<1>7. ASSUME NEW less \in Int
      PROVE  AreaWidth(o, less) = IF o.waterfall THEN 1000 - less ELSE IF o.dual THEN 1000 ELSE 2120
  BY <1>1, <1>2 DEF AreaWidth
<1>8. AreaWidth(o, 50) = (IF o.waterfall THEN 1000 - 50 ELSE IF o.dual THEN 1000 ELSE 2120)
      /\ AreaWidth(o, 30) = (IF o.waterfall THEN 1000 - 30 ELSE IF o.dual THEN 1000 ELSE 2120)
  BY <1>7
<1>9. 1000 - 50 = 950 /\ 1000 - 30 = 970
  OBVIOUS
<1> QED BY <1>4, <1>5, <1>6, <1>8, <1>9

(* What a group of a half lies within. *)
Within(g, o, area, right) ==
  LET drop == IF Lowered(o, area, right) THEN 1120 ELSE 0
  IN  /\ g \in Groups
      /\ g.x + g.width <= IF o.waterfall THEN 1040 ELSE 2240
      /\ 70 + drop <= g.y /\ g.y + g.height <= 890 + drop
      /\ o.dual /\ ~o.waterfall => IF right THEN 1180 <= g.x ELSE g.x + g.width <= 1070
      /\ IF right THEN (200 <= g.id /\ g.id <= 210) \/ g.id = 400
         ELSE (100 <= g.id /\ g.id <= 110) \/ g.id = 300
      /\ \A l \in g.labels :
           IF right THEN (201 <= l /\ l <= 233) \/ l \in {401, 402}
           ELSE (101 <= l /\ l <= 133) \/ l \in {301, 302}

\* The same, of all of them.
LEMMA DownRange ==
  \A c \in 1..3 : \A j \in 1..c :
    Down(c, j) \in Int /\ 170 <= Down(c, j) /\ Down(c, j) <= 730
BY DownFits

\* A badge has the first or the second label after its base.
LEMMA BadgeLabels ==
  ASSUME NEW base \in Int, NEW S
  PROVE  \A l \in {base + (IF b = "CPU Badge" THEN 1 ELSE 2) : b \in S} :
           l = base + 1 \/ l = base + 2
OBVIOUS

\* Where a metric's group is, and what is in it.
LEMMA MetricGroupIs ==
  ASSUME NEW o \in AnyOverlay, NEW area \in Area, NEW right \in BOOLEAN, right => o.dual,
         NEW k \in 1..Len(selected(area))
  PROVE  LET g == MetricGroup(o, area, right, k)
             name == selected(area)[k]
             count == Len(selected(area))
         IN  /\ Within(g, o, area, right)
             /\ g.id = 99 + Number(name) + Offset(right)
             /\ g.y = Down(count, k) + Drop(o, area, right) /\ g.height = 160
             /\ g.labels = MetricLabels(Metric(name), Offset(right))
             /\ name \in ToSet(Catalog) /\ count \in 1..3
<1> DEFINE g == MetricGroup(o, area, right, k)
           name == selected(area)[k]
           count == Len(selected(area))
           n == Number(name)
<1>1. /\ area.metrics \in Seq(Names)
      /\ o.dual \in BOOLEAN /\ o.waterfall \in BOOLEAN
  BY DEF Area, AnyOverlay
<1>2. name \in ToSet(Catalog) /\ count \in 1..3 /\ k \in 1..count
  BY <1>1, SelectedIs
<1>3. n \in Nat /\ 1 <= n /\ n <= 11 /\ Metric(name).group = 99 + n
  BY <1>2, MetricIs
<1>4. Offset(right) = (IF right THEN 100 ELSE 0)
  BY DEF Offset
<1>5. \A l \in MetricLabels(Metric(name), Offset(right)) :
        /\ l \in Int /\ 98 + 3 * n + Offset(right) <= l /\ l <= 100 + 3 * n + Offset(right)
  BY <1>2, <1>4, LabelsAre
<1>6. Down(count, k) \in Int /\ 170 <= Down(count, k) /\ Down(count, k) <= 730
  <2> HIDE DEF count
  <2> QED BY <1>2, DownRange
<1> DEFINE y == Down(count, k) + Drop(o, area, right)
<1>7. /\ Drop(o, area, right) = IF Lowered(o, area, right) THEN 1120 ELSE 0
      /\ AreaX(o, right) = IF right /\ ~o.waterfall THEN 1180 ELSE 60
      /\ AreaWidth(o, 50) = IF o.waterfall THEN 950 ELSE IF o.dual THEN 1000 ELSE 2120
  BY SpaceIs
<1>8. y \in Int /\ y > 0
  BY <1>6, <1>7
<1>9. g = [id |-> 99 + n + Offset(right), x |-> AreaX(o, right), y |-> y,
           width |-> AreaWidth(o, 50), height |-> 160,
           labels |-> MetricLabels(Metric(name), Offset(right))]
  <2> DEFINE middle == IF count = 1 THEN SCREEN_HEIGHT \div 2
                       ELSE (SCREEN_HEIGHT \div (count + 1)) * k + (k - 1) * 10
             high == middle - VALUE_TEXT_SIZE \div 2 + Drop(o, area, right) + TEXT_OFFSET_Y
  <2>1. g = [id |-> Metric(name).group + Offset(right), x |-> AreaX(o, right),
             y |-> IF high > 0 THEN high ELSE 0,
             width |-> AreaWidth(o, 50), height |-> VALUE_TEXT_SIZE,
             labels |-> MetricLabels(Metric(name), Offset(right))]
    BY DEF MetricGroup
  <2>2. middle \in Int /\ VALUE_TEXT_SIZE \div 2 \in Int /\ TEXT_OFFSET_Y \in Int /\ VALUE_TEXT_SIZE = 160
    BY <1>2, SMT DEF SCREEN_HEIGHT, VALUE_TEXT_SIZE, TEXT_OFFSET_Y
  <2>3. Down(count, k) = middle - VALUE_TEXT_SIZE \div 2 + TEXT_OFFSET_Y
    BY DEF Down
  <2>4. high = y
    <3> HIDE DEF middle
    <3> QED BY <1>7, <2>2, <2>3
  <2> HIDE DEF high, g, y
  <2> QED BY <1>3, <1>8, <2>1, <2>2, <2>4
<1> HIDE DEF n, y, name, count, g
<1>10. g \in Groups /\ IF right THEN 200 <= g.id /\ g.id <= 210 ELSE 100 <= g.id /\ g.id <= 110
  <2>1. MetricLabels(Metric(name), Offset(right)) \in SUBSET Int
    BY <1>5
  <2>2. /\ 99 + n + Offset(right) \in Int
        /\ AreaX(o, right) \in Int /\ AreaWidth(o, 50) \in Int
    BY <1>1, <1>3, <1>4, <1>7
  <2>3. g \in Groups
    BY <1>8, <1>9, <2>1, <2>2 DEF Groups
  <2> QED BY <1>3, <1>4, <1>9, <2>3
<1>11. \A l \in g.labels : IF right THEN 201 <= l /\ l <= 233 ELSE 101 <= l /\ l <= 133
  BY <1>3, <1>4, <1>5, <1>9
<1>12. /\ g.x + g.width <= IF o.waterfall THEN 1040 ELSE 2240
       /\ o.dual /\ ~o.waterfall => IF right THEN 1180 <= g.x ELSE g.x + g.width <= 1070
  BY <1>1, <1>7, <1>9
<1>13. LET drop == IF Lowered(o, area, right) THEN 1120 ELSE 0
       IN  70 + drop <= g.y /\ g.y + g.height <= 890 + drop
  BY <1>6, <1>7, <1>9 DEF y
<1>14. Within(g, o, area, right)
  BY <1>10, <1>11, <1>12, <1>13 DEF Within
<1> QED BY <1>2, <1>9, <1>14 DEF n, y, name, count, g

\* Where the badges' group is, and what is in it.
LEMMA BadgeGroupIs ==
  ASSUME NEW o \in AnyOverlay, NEW area \in Area, NEW right \in BOOLEAN, right => o.dual
  PROVE  LET g == BadgeGroup(o, area, right)
         IN  /\ Within(g, o, area, right)
             /\ g.id = IF right THEN 400 ELSE 300
             /\ g.y = 70 + Drop(o, area, right) /\ g.height = 30
             /\ \A l \in g.labels : l \in IF right THEN {401, 402} ELSE {301, 302}
<1> DEFINE g == BadgeGroup(o, area, right)
<1>1. o.dual \in BOOLEAN /\ o.waterfall \in BOOLEAN
  BY DEF AnyOverlay
<1>2. BadgeBase(right) = IF right THEN 400 ELSE 300
  BY DEF BadgeBase
<1>3. /\ Drop(o, area, right) = IF Lowered(o, area, right) THEN 1120 ELSE 0
      /\ AreaX(o, right) = IF right /\ ~o.waterfall THEN 1180 ELSE 60
      /\ AreaWidth(o, 30) = IF o.waterfall THEN 970 ELSE IF o.dual THEN 1000 ELSE 2120
  BY SpaceIs
<1> DEFINE L == {BadgeBase(right) + (IF b = "CPU Badge" THEN 1 ELSE 2) : b \in ToSet(area.badges)}
<1>4. \A l \in L : l \in IF right THEN {401, 402} ELSE {301, 302}
  <2>1. BadgeBase(right) \in Int
    BY <1>2
  <2>2. \A l \in L : l = BadgeBase(right) + 1 \/ l = BadgeBase(right) + 2
    BY <2>1, BadgeLabels
  <2> HIDE DEF L
  <2> QED BY <1>2, <2>2
<1>5. g = [id |-> BadgeBase(right), x |-> AreaX(o, right) + 10, y |-> 70 + Drop(o, area, right),
           width |-> AreaWidth(o, 30), height |-> 30, labels |-> L]
  BY DEF BadgeGroup, TAG_OFFSET_Y, LineHeight
<1> HIDE DEF g, L
<1>6. g \in Groups
  <2>1. L \in SUBSET Int
    BY <1>4
  <2>2. /\ BadgeBase(right) \in Int /\ AreaX(o, right) + 10 \in Int
        /\ 70 + Drop(o, area, right) \in Int /\ AreaWidth(o, 30) \in Int
    BY <1>1, <1>2, <1>3
  <2> QED BY <1>5, <2>1, <2>2 DEF Groups
<1>7. /\ g.x + g.width <= IF o.waterfall THEN 1040 ELSE 2240
      /\ o.dual /\ ~o.waterfall => IF right THEN 1180 <= g.x ELSE g.x + g.width <= 1070
  BY <1>1, <1>3, <1>5
<1>8. LET drop == IF Lowered(o, area, right) THEN 1120 ELSE 0
      IN  70 + drop <= g.y /\ g.y + g.height <= 890 + drop
  BY <1>3, <1>5
<1>9. \A l \in g.labels : l \in IF right THEN {401, 402} ELSE {301, 302}
  BY <1>4, <1>5
<1>10. Within(g, o, area, right)
  BY <1>2, <1>5, <1>6, <1>7, <1>8, <1>9 DEF Within
<1> QED BY <1>2, <1>5, <1>9, <1>10 DEF g

\* TwoOnes groups that a layout may have.
Distinct(g, h) == Apart(g, h) /\ g.id # h.id /\ g.labels \cap h.labels = {}

\* Every group of a half is within it.
LEMMA GroupIs ==
  ASSUME NEW o \in AnyOverlay, NEW area \in Area, NEW right \in BOOLEAN, right => o.dual,
         NEW k \in 1..Places(area)
  PROVE  Within(GroupAt(o, area, right, k), o, area, right)
<1>1. Len(selected(area)) \in Nat
  BY SelectedOf
<1>2. CASE k <= Len(selected(area))
  <2>1. k \in 1..Len(selected(area))
    BY <1>1, <1>2 DEF Places
  <2> QED BY <1>2, <2>1, MetricGroupIs DEF GroupAt
<1>3. CASE ~(k <= Len(selected(area)))
  BY <1>3, BadgeGroupIs DEF GroupAt
<1> QED BY <1>2, <1>3

\* The groups of a half are its metrics, then its badges.
LEMMA Listed ==
  ASSUME NEW o \in AnyOverlay, NEW area \in Area, NEW right \in BOOLEAN, right => o.dual
  PROVE  /\ append_area(o, area, right) \in Seq(Groups)
         /\ Len(append_area(o, area, right)) = Places(area) /\ Places(area) \in Nat
         /\ \A k \in 1..Places(area) : append_area(o, area, right)[k] = GroupAt(o, area, right, k)
<1> DEFINE n == Len(selected(area))
           metrics == [k \in DOMAIN selected(area) |-> MetricGroup(o, area, right, k)]
           badges == IF area.badges = <<>> THEN <<>> ELSE <<BadgeGroup(o, area, right)>>
<1>1. n \in Nat /\ DOMAIN selected(area) = 1..n
  BY SelectedOf
<1>2. \A k \in 1..n : MetricGroup(o, area, right, k) \in Groups
  BY MetricGroupIs DEF Within
<1>3. metrics \in Seq(Groups) /\ Len(metrics) = n /\ \A k \in 1..n : metrics[k] = MetricGroup(o, area, right, k)
  <2> HIDE DEF n
  <2> QED BY <1>1, <1>2
<1>4. BadgeGroup(o, area, right) \in Groups
  BY BadgeGroupIs DEF Within
<1>5. append_area(o, area, right) = metrics \o badges
  BY DEF append_area
<1>6. CASE area.badges = <<>>
  <2>1. badges = <<>> /\ Places(area) = n
    BY <1>1, <1>6 DEF Places
  <2> HIDE DEF metrics, badges, n
  <2>2. metrics \o badges \in Seq(Groups) /\ Len(metrics \o badges) = n
        /\ \A k \in 1..n : (metrics \o badges)[k] = metrics[k]
    BY <1>3, <2>1
  <2>3. \A k \in 1..n : GroupAt(o, area, right, k) = MetricGroup(o, area, right, k)
    BY <1>1 DEF GroupAt, n
  <2> QED BY <1>1, <1>3, <1>5, <2>1, <2>2, <2>3
<1>7. CASE area.badges # <<>>
  <2>1. badges = <<BadgeGroup(o, area, right)>> /\ Places(area) = n + 1
    BY <1>7 DEF Places
  <2> HIDE DEF metrics, badges, n
  <2>2. /\ metrics \o badges \in Seq(Groups) /\ Len(metrics \o badges) = n + 1
        /\ \A k \in 1..n : (metrics \o badges)[k] = metrics[k]
        /\ (metrics \o badges)[n + 1] = BadgeGroup(o, area, right)
    BY <1>1, <1>3, <1>4, <2>1
  <2>3. /\ \A k \in 1..n : GroupAt(o, area, right, k) = MetricGroup(o, area, right, k)
        /\ GroupAt(o, area, right, n + 1) = BadgeGroup(o, area, right)
    BY <1>1 DEF GroupAt, n
  <2> QED BY <1>1, <1>3, <1>5, <2>1, <2>2, <2>3
<1> QED BY <1>6, <1>7

\* A metric ends before the next begins.
LEMMA DownBefore ==
  \A c \in 1..3 : \A j \in 1..c : \A l \in 1..c : j < l => Down(c, j) + 160 <= Down(c, l)
BY DownFits

\* The metrics of an area lie one below the other, each with its own labels.
LEMMA MetricsApart ==
  ASSUME NEW o \in AnyOverlay, NEW area \in Area, NEW right \in BOOLEAN, right => o.dual,
         NEW k \in 1..Len(selected(area)), NEW l \in 1..Len(selected(area)), k < l
  PROVE  LET g == MetricGroup(o, area, right, k)
             h == MetricGroup(o, area, right, l)
         IN  Distinct(g, h) /\ Distinct(h, g)
<1> DEFINE g == MetricGroup(o, area, right, k)
           h == MetricGroup(o, area, right, l)
           c == Len(selected(area))
           m == Number(selected(area)[k])
           n == Number(selected(area)[l])
           off == Offset(right)
<1>1. /\ area.metrics \in Seq(Names) /\ off \in Nat
  BY DEF Area, Offset
<1>2. c \in 1..3 /\ selected(area)[k] # selected(area)[l]
      /\ selected(area)[k] \in ToSet(Catalog) /\ selected(area)[l] \in ToSet(Catalog)
  <2>1. DOMAIN selected(area) = 1..c /\ c \in 0..3
    BY <1>1, SelectedIs
  <2>2. \A i, j \in DOMAIN selected(area) : selected(area)[i] = selected(area)[j] => i = j
    BY <1>1, SelectedIs
  <2> QED BY <2>1, <2>2, MetricGroupIs
<1>3. m \in Nat /\ n \in Nat /\ m # n
  BY <1>2, MetricIs
<1>4. /\ g.id = 99 + m + off /\ h.id = 99 + n + off
      /\ g.y = Down(c, k) + Drop(o, area, right) /\ g.height = 160
      /\ h.y = Down(c, l) + Drop(o, area, right) /\ h.height = 160
      /\ g.labels = MetricLabels(Metric(selected(area)[k]), off)
      /\ h.labels = MetricLabels(Metric(selected(area)[l]), off)
  BY MetricGroupIs
<1>5. /\ \A b \in g.labels : b \in Int /\ 98 + 3 * m + off <= b /\ b <= 100 + 3 * m + off
      /\ \A b \in h.labels : b \in Int /\ 98 + 3 * n + off <= b /\ b <= 100 + 3 * n + off
  BY <1>1, <1>2, <1>4, LabelsAre
<1>6. Drop(o, area, right) \in Int
  BY SpaceIs
<1>7. Down(c, k) \in Int /\ Down(c, l) \in Int /\ Down(c, k) + 160 <= Down(c, l)
  <2> HIDE DEF c
  <2>1. k \in 1..c /\ l \in 1..c
    BY DEF c
  <2>2. c \in 1..3
    BY <1>2
  <2>3. Down(c, k) \in Int /\ Down(c, l) \in Int
    BY <2>1, <2>2, DownRange
  <2>4. Down(c, k) + 160 <= Down(c, l)
    BY <2>1, <2>2, DownBefore
  <2> QED BY <2>3, <2>4
<1> HIDE DEF g, h, c, m, n, off
<1>8. g.y + g.height <= h.y
  BY <1>4, <1>6, <1>7
<1>9. g.id # h.id
  BY <1>1, <1>3, <1>4
<1>10. g.labels \cap h.labels = {}
  BY <1>1, <1>3, <1>5
<1> QED BY <1>8, <1>9, <1>10 DEF Distinct, Apart, g, h

\* The badges of an area lie above its metrics.
LEMMA BadgesApart ==
  ASSUME NEW o \in AnyOverlay, NEW area \in Area, NEW right \in BOOLEAN, right => o.dual,
         NEW k \in 1..Len(selected(area))
  PROVE  LET g == MetricGroup(o, area, right, k)
             h == BadgeGroup(o, area, right)
         IN  Distinct(g, h) /\ Distinct(h, g)
<1> DEFINE g == MetricGroup(o, area, right, k)
           h == BadgeGroup(o, area, right)
           c == Len(selected(area))
           m == Number(selected(area)[k])
           off == Offset(right)
<1>1. off = IF right THEN 100 ELSE 0
  BY DEF Offset
<1>2. c \in 1..3 /\ selected(area)[k] \in ToSet(Catalog)
  BY MetricGroupIs
<1>3. m \in Nat /\ 1 <= m /\ m <= 11
  BY <1>2, MetricIs
<1>4. /\ g.id = 99 + m + off
      /\ g.y = Down(c, k) + Drop(o, area, right)
      /\ g.labels = MetricLabels(Metric(selected(area)[k]), off)
  BY MetricGroupIs
<1>5. /\ h.id = IF right THEN 400 ELSE 300
      /\ h.y = 70 + Drop(o, area, right) /\ h.height = 30
      /\ \A b \in h.labels : b \in IF right THEN {401, 402} ELSE {301, 302}
  BY BadgeGroupIs
<1>6. \A b \in g.labels : b \in Int /\ 98 + 3 * m + off <= b /\ b <= 100 + 3 * m + off
  BY <1>1, <1>2, <1>4, LabelsAre
<1>7. Drop(o, area, right) \in Int
  BY SpaceIs
<1>8. Down(c, k) \in Int /\ 170 <= Down(c, k)
  <2> HIDE DEF c
  <2>1. k \in 1..c
    BY DEF c
  <2> QED BY <1>2, <2>1, DownRange
<1> HIDE DEF g, h, c, m, off
<1>9. h.y + h.height <= g.y
  BY <1>4, <1>5, <1>7, <1>8
<1>10. g.id # h.id
  BY <1>1, <1>3, <1>4, <1>5
<1>11. \A b \in h.labels : 300 < b
  BY <1>5
<1>12. \A b \in g.labels : b \in Int /\ b < 300
  BY <1>1, <1>3, <1>6
<1>13. g.labels \cap h.labels = {}
  BY <1>11, <1>12
<1> QED BY <1>9, <1>10, <1>13 DEF Distinct, Apart, g, h

\* No two groups of a half meet.
LEMMA AreaApart ==
  ASSUME NEW o \in AnyOverlay, NEW area \in Area, NEW right \in BOOLEAN, right => o.dual,
         NEW k \in 1..Places(area), NEW l \in 1..Places(area), k # l
  PROVE  Distinct(GroupAt(o, area, right, k), GroupAt(o, area, right, l))
<1> DEFINE n == Len(selected(area))
<1>1. n \in Nat
  BY SelectedOf
<1>2. Places(area) \in Nat /\ Places(area) <= n + 1
  BY <1>1 DEF Places
<1>3. CASE k <= n /\ l <= n
  <2>1. k \in 1..n /\ l \in 1..n /\ (k < l \/ l < k)
    BY <1>1, <1>3
  <2>2. GroupAt(o, area, right, k) = MetricGroup(o, area, right, k)
        /\ GroupAt(o, area, right, l) = MetricGroup(o, area, right, l)
    BY <1>3 DEF GroupAt
  <2> QED BY <2>1, <2>2, MetricsApart
<1>4. CASE k <= n /\ ~(l <= n)
  BY <1>4, BadgesApart DEF GroupAt
<1>5. CASE l <= n /\ ~(k <= n)
  BY <1>5, BadgesApart DEF GroupAt
<1>6. CASE ~(k <= n) /\ ~(l <= n)
  <2> HIDE DEF n
  <2>1. k \in Int /\ l \in Int /\ k <= n + 1 /\ l <= n + 1
    BY <1>1, <1>2
  <2> QED BY <1>1, <1>6, <2>1
<1> QED BY <1>3, <1>4, <1>5, <1>6

\* A half's groups are elsewhere than the other's.
LEMMA HalvesApart ==
  ASSUME NEW o \in AnyOverlay, o.dual, NEW g, NEW h,
         Within(g, o, o.left, FALSE), Within(h, o, o.right, TRUE)
  PROVE  Distinct(g, h) /\ Distinct(h, g)
<1>1. /\ o.left \in Area /\ o.right \in Area /\ o.waterfall \in BOOLEAN
      /\ Lowered(o, o.left, FALSE) <=> o.waterfall
      /\ ~Lowered(o, o.right, TRUE)
  BY DEF AnyOverlay, Lowered
<1>2. /\ g \in Groups /\ h \in Groups
      /\ o.waterfall => 1190 <= g.y /\ h.y + h.height <= 890
      /\ ~o.waterfall => g.x + g.width <= 1070 /\ 1180 <= h.x
  <2>1. g \in Groups /\ h \in Groups
    BY DEF Within
  <2>2. CASE o.waterfall
    <3>1. 70 + 1120 <= g.y
      BY <1>1, <2>2 DEF Within
    <3>2. h.y + h.height <= 890 + 0
      BY <1>1 DEF Within
    <3>3. h.y + h.height <= 890
      BY <2>1, <3>2 DEF Groups
    <3> QED BY <2>1, <2>2, <3>1, <3>3
  <2>3. CASE ~o.waterfall
    BY <2>1, <2>3 DEF Within
  <2> QED BY <1>1, <2>1, <2>2, <2>3
<1>3. Apart(g, h) /\ Apart(h, g)
  BY <1>1, <1>2 DEF Apart, Groups
<1>4. /\ g.id \in Int /\ g.id <= 300 /\ (g.id <= 110 \/ g.id = 300)
      /\ h.id \in Int /\ ((200 <= h.id /\ h.id <= 210) \/ h.id = 400)
  BY <1>2 DEF Within, Groups
<1>5. g.id # h.id
  BY <1>4
<1>6. \A l \in g.labels : l \in Int /\ (l <= 133 \/ l = 301 \/ l = 302)
  BY <1>2 DEF Within, Groups
<1>7. \A l \in h.labels : l \in Int /\ ((201 <= l /\ l <= 233) \/ l = 401 \/ l = 402)
  BY <1>2 DEF Within, Groups
<1>8. g.labels \cap h.labels = {}
  BY <1>6, <1>7
<1> QED BY <1>3, <1>5, <1>8 DEF Distinct

\* What is within a half is on the canvas.
LEMMA OnCanvas ==
  ASSUME NEW o \in AnyOverlay, NEW area \in Area, NEW right \in BOOLEAN, right => o.dual,
         NEW g, Within(g, o, area, right)
  PROVE  /\ g.x + g.width <= IF o.waterfall THEN SCREEN_HEIGHT ELSE SCREEN_WIDTH
         /\ g.y + g.height <= IF o.waterfall THEN SCREEN_WIDTH ELSE SCREEN_HEIGHT
<1>1. g \in Groups /\ o.waterfall \in BOOLEAN
  BY DEF Within, AnyOverlay
<1>2. Lowered(o, area, right) => o.waterfall
  BY SpaceIs
<1>3. /\ g.x + g.width <= IF o.waterfall THEN 1040 ELSE 2240
      /\ Lowered(o, area, right) => g.y + g.height <= 2010
      /\ ~Lowered(o, area, right) => g.y + g.height <= 890
  BY DEF Within
<1>4. g.x \in Int /\ g.width \in Int /\ g.y \in Int /\ g.height \in Int
  BY <1>1 DEF Groups
<1> QED BY <1>1, <1>2, <1>3, <1>4, SMT DEF SCREEN_HEIGHT, SCREEN_WIDTH

\* The groups of a layout, those of the left half first.
LEMMA LayoutIs ==
  ASSUME NEW o \in AnyOverlay
  PROVE  LET n == Places(o.left)
             m == IF o.dual THEN Places(o.right) ELSE 0
         IN  /\ n \in Nat /\ m \in Nat
             /\ run_config(o) \in Seq(Groups) /\ DOMAIN run_config(o) = 1..(n + m)
             /\ \A k \in 1..n : run_config(o)[k] = GroupAt(o, o.left, FALSE, k)
             /\ \A k \in 1..m : run_config(o)[n + k] = GroupAt(o, o.right, TRUE, k)
<1> DEFINE n == Places(o.left)
           m == IF o.dual THEN Places(o.right) ELSE 0
           L == append_area(o, o.left, FALSE)
           R == IF o.dual THEN append_area(o, o.right, TRUE) ELSE <<>>
<1>1. o.left \in Area /\ o.right \in Area /\ o.dual \in BOOLEAN
  BY DEF AnyOverlay
<1>2. /\ n \in Nat /\ L \in Seq(Groups) /\ Len(L) = n
      /\ \A k \in 1..n : L[k] = GroupAt(o, o.left, FALSE, k)
  BY <1>1, Listed
<1>3. /\ m \in Nat /\ R \in Seq(Groups) /\ Len(R) = m
      /\ \A k \in 1..m : R[k] = GroupAt(o, o.right, TRUE, k)
  <2>1. CASE o.dual
    BY <1>1, <2>1, Listed
  <2>2. CASE ~o.dual
    <3>1. m = 0 /\ R = <<>>
      BY <2>2
    <3> HIDE DEF m, R
    <3> QED BY <3>1
  <2> QED BY <1>1, <2>1, <2>2
<1>4. run_config(o) = L \o R
  BY DEF run_config
<1> HIDE DEF n, m, L, R
<1>5. /\ L \o R \in Seq(Groups) /\ Len(L \o R) = n + m
      /\ \A k \in 1..n : (L \o R)[k] = L[k]
      /\ \A k \in 1..m : (L \o R)[n + k] = R[k]
  BY <1>2, <1>3
<1>6. DOMAIN (L \o R) = 1..(n + m)
  BY <1>5
<1> QED BY <1>2, <1>3, <1>4, <1>5, <1>6 DEF n, m

\* The layout of whatever is asked for: all of it on the canvas, and apart.
LEMMA LayoutPlaced ==
  ASSUME NEW o \in AnyOverlay
  PROVE  Placed(run_config(o), o.waterfall)
<1> DEFINE n == Places(o.left)
           m == IF o.dual THEN Places(o.right) ELSE 0
           all == run_config(o)
<1>1. /\ n \in Nat /\ m \in Nat /\ DOMAIN all = 1..(n + m)
      /\ \A k \in 1..n : all[k] = GroupAt(o, o.left, FALSE, k)
      /\ \A k \in 1..m : all[n + k] = GroupAt(o, o.right, TRUE, k)
  BY LayoutIs
<1>2. o.left \in Area /\ o.right \in Area /\ o.dual \in BOOLEAN
  BY DEF AnyOverlay
<1>3. \A k \in 1..n : Within(all[k], o, o.left, FALSE)
  BY <1>1, <1>2, GroupIs
<1>4. \A k \in 1..m : o.dual /\ k \in 1..Places(o.right) /\ Within(all[n + k], o, o.right, TRUE)
  <2> SUFFICES ASSUME NEW k \in 1..m
               PROVE  o.dual /\ k \in 1..Places(o.right) /\ Within(all[n + k], o, o.right, TRUE)
    OBVIOUS
  <2>1. o.dual
    OBVIOUS
  <2>2. k \in 1..Places(o.right)
    BY <2>1
  <2> QED BY <1>1, <1>2, <2>1, <2>2, GroupIs
<1>5. \A k \in 1..n : \A l \in 1..n : k # l => Distinct(all[k], all[l])
  BY <1>1, <1>2, AreaApart
<1>6. \A k \in 1..m : \A l \in 1..m : k # l => Distinct(all[n + k], all[n + l])
  BY <1>1, <1>2, <1>4, AreaApart
<1>7. \A k \in 1..n : \A l \in 1..m : Distinct(all[k], all[n + l]) /\ Distinct(all[n + l], all[k])
  BY <1>3, <1>4, HalvesApart
<1> HIDE DEF n, m, all
<1>8. \A k \in DOMAIN all : k \in 1..n \/ \E l \in 1..m : k = n + l
  <2> SUFFICES ASSUME NEW k \in 1..(n + m), k \notin 1..n
               PROVE  \E l \in 1..m : k = n + l
    BY <1>1
  <2>1. k - n \in 1..m /\ k = n + (k - n)
    BY <1>1
  <2> QED BY <2>1
<1>9. \A k \in DOMAIN all :
        /\ all[k].x + all[k].width <= IF o.waterfall THEN SCREEN_HEIGHT ELSE SCREEN_WIDTH
        /\ all[k].y + all[k].height <= IF o.waterfall THEN SCREEN_WIDTH ELSE SCREEN_HEIGHT
  <2> SUFFICES ASSUME NEW k \in DOMAIN all
               PROVE  \E area \in Area, right \in BOOLEAN :
                        (right => o.dual) /\ Within(all[k], o, area, right)
    BY OnCanvas
  <2>1. CASE k \in 1..n
    BY <1>2, <1>3, <2>1
  <2>2. CASE \E l \in 1..m : k = n + l
    BY <1>2, <1>4, <2>2
  <2> QED BY <1>8, <2>1, <2>2
<1>10. \A k, l \in DOMAIN all : k # l => Distinct(all[k], all[l])
  <2> SUFFICES ASSUME NEW k \in DOMAIN all, NEW l \in DOMAIN all, k # l
               PROVE  Distinct(all[k], all[l])
    OBVIOUS
  <2>1. CASE k \in 1..n /\ l \in 1..n
    BY <1>5, <2>1
  <2>2. CASE k \in 1..n /\ \E j \in 1..m : l = n + j
    BY <1>7, <2>2
  <2>3. CASE l \in 1..n /\ \E i \in 1..m : k = n + i
    BY <1>7, <2>3
  <2>4. ASSUME NEW i \in 1..m, k = n + i, NEW j \in 1..m, l = n + j PROVE Distinct(all[k], all[l])
    <3>1. i # j
      BY <2>4
    <3> QED BY <1>6, <2>4, <3>1
  <2> QED BY <1>8, <2>1, <2>2, <2>3, <2>4
<1> QED BY <1>9, <1>10 DEF Placed, Distinct, all

\* A list joined of parts: all that is in it is of a part, all of a part is in
\* it, and no label comes twice.
Gathered(parts, s, i) ==
  /\ \A p \in 1..Len(s) : \E k \in 1..i : \E q \in 1..Len(parts[k]) : s[p] = parts[k][q]
  /\ \A k \in 1..i : \A q \in 1..Len(parts[k]) : \E p \in 1..Len(s) : s[p] = parts[k][q]
  /\ \A p, q \in 1..Len(s) : s[p].label = s[q].label => p = q
Unlike(parts) ==
  /\ \A k \in 1..Len(parts) : \A p, q \in 1..Len(parts[k]) :
       parts[k][p].label = parts[k][q].label => p = q
  /\ \A k, l \in 1..Len(parts) : k # l =>
       \A p \in 1..Len(parts[k]), q \in 1..Len(parts[l]) : parts[k][p].label # parts[l][q].label

\* What is at each place of two lists joined.
LEMMA Positions ==
  ASSUME NEW X, NEW s \in Seq(X), NEW t \in Seq(X)
  PROVE  /\ s \o t \in Seq(X) /\ Len(s \o t) = Len(s) + Len(t)
         /\ \A p \in 1..Len(s) : (s \o t)[p] = s[p] /\ p \in 1..Len(s \o t)
         /\ \A p \in 1..Len(t) : (s \o t)[Len(s) + p] = t[p] /\ Len(s) + p \in 1..Len(s \o t)
         /\ \A p \in 1..Len(s \o t) : p \in 1..Len(s) \/ \E q \in 1..Len(t) : p = Len(s) + q
<1>1. s \o t \in Seq(X) /\ Len(s \o t) = Len(s) + Len(t) /\ Len(s) \in Nat /\ Len(t) \in Nat
  OBVIOUS
<1>2. \A p \in 1..Len(s) : (s \o t)[p] = s[p] /\ p \in 1..Len(s \o t)
  OBVIOUS
<1>3. \A p \in 1..Len(t) : (s \o t)[Len(s) + p] = t[p] /\ Len(s) + p \in 1..Len(s \o t)
  OBVIOUS
<1>4. ASSUME NEW p \in 1..(Len(s) + Len(t)), p \notin 1..Len(s)
      PROVE  \E q \in 1..Len(t) : p = Len(s) + q
  <2>1. p - Len(s) \in 1..Len(t) /\ p = Len(s) + (p - Len(s))
    BY <1>1, <1>4
  <2> QED BY <2>1
<1> QED BY <1>1, <1>2, <1>3, <1>4

\* A further part may be joined.
LEMMA GatheredStep ==
  ASSUME NEW X, NEW parts \in Seq(Seq(X)), Unlike(parts), NEW s \in Seq(X),
         NEW j \in 1..Len(parts), Gathered(parts, s, j - 1)
  PROVE  Gathered(parts, s \o parts[j], j)
<1> DEFINE t == parts[j]
           u == s \o t
           n == Len(parts)
<1>1. t \in Seq(X) /\ n \in Nat /\ j \in 1..n
  OBVIOUS
<1>2. /\ \A p \in 1..Len(s) : u[p] = s[p] /\ p \in 1..Len(u)
      /\ \A p \in 1..Len(t) : u[Len(s) + p] = t[p] /\ Len(s) + p \in 1..Len(u)
      /\ \A p \in 1..Len(u) : p \in 1..Len(s) \/ \E q \in 1..Len(t) : p = Len(s) + q
  <2> HIDE DEF t
  <2> QED BY <1>1, Positions
<1>3. /\ \A k \in 1..j : k \in 1..(j - 1) \/ k = j
      /\ \A k \in 1..(j - 1) : k \in 1..j /\ k \in 1..n /\ k # j
      /\ j \in 1..j
  <2> HIDE DEF n
  <2> QED BY <1>1
<1>4. \A p, q \in 1..Len(t) : t[p].label = t[q].label => p = q
  BY DEF Unlike
<1>5. \A k \in 1..(j - 1) : \A p \in 1..Len(parts[k]), q \in 1..Len(t) : parts[k][p].label # t[q].label
  <2>1. \A k \in 1..n : k # j =>
          \A p \in 1..Len(parts[k]), q \in 1..Len(t) : parts[k][p].label # t[q].label
    BY <1>1 DEF Unlike
  <2> HIDE DEF n, t
  <2> QED BY <1>3, <2>1
<1> HIDE DEF t, u, n
<1>6. ASSUME NEW p \in 1..Len(u)
      PROVE  \E k \in 1..j : \E q \in 1..Len(parts[k]) : u[p] = parts[k][q]
  <2>1. CASE p \in 1..Len(s)
    <3>1. PICK k \in 1..(j - 1) : \E q \in 1..Len(parts[k]) : s[p] = parts[k][q]
      BY <2>1 DEF Gathered
    <3> QED BY <1>2, <1>3, <2>1, <3>1
  <2>2. CASE \E q \in 1..Len(t) : p = Len(s) + q
    <3>1. PICK q \in 1..Len(t) : u[p] = t[q]
      BY <1>2, <2>2
    <3>2. q \in 1..Len(parts[j]) /\ u[p] = parts[j][q]
      BY <3>1 DEF t
    <3> QED BY <1>3, <3>2
  <2> QED BY <1>2, <2>1, <2>2
<1>7. ASSUME NEW k \in 1..j, NEW q \in 1..Len(parts[k])
      PROVE  \E p \in 1..Len(u) : u[p] = parts[k][q]
  <2>1. CASE k \in 1..(j - 1)
    <3>1. PICK p \in 1..Len(s) : s[p] = parts[k][q]
      BY <2>1 DEF Gathered
    <3> QED BY <1>2, <3>1
  <2>2. CASE k = j
    <3>1. q \in 1..Len(t) /\ parts[k][q] = t[q]
      BY <2>2 DEF t
    <3> QED BY <1>2, <3>1
  <2> QED BY <1>3, <2>1, <2>2
<1>8. \A a \in 1..Len(s), b \in 1..Len(t) : s[a].label # t[b].label
  <2> SUFFICES ASSUME NEW a \in 1..Len(s), NEW b \in 1..Len(t) PROVE s[a].label # t[b].label
    OBVIOUS
  <2>1. PICK k \in 1..(j - 1) : \E q \in 1..Len(parts[k]) : s[a] = parts[k][q]
    BY DEF Gathered
  <2> QED BY <1>5, <2>1
<1>9. ASSUME NEW p \in 1..Len(u), NEW q \in 1..Len(u), u[p].label = u[q].label PROVE p = q
  <2>0. \A a, b \in 1..Len(s) : s[a].label = s[b].label => a = b
    BY DEF Gathered
  <2>1. CASE p \in 1..Len(s) /\ q \in 1..Len(s)
    BY <1>2, <1>9, <2>0, <2>1
  <2>2. ASSUME p \in 1..Len(s), NEW b \in 1..Len(t), q = Len(s) + b PROVE FALSE
    BY <1>2, <1>8, <1>9, <2>2
  <2>3. ASSUME q \in 1..Len(s), NEW a \in 1..Len(t), p = Len(s) + a PROVE FALSE
    BY <1>2, <1>8, <1>9, <2>3
  <2>4. ASSUME NEW a \in 1..Len(t), p = Len(s) + a, NEW b \in 1..Len(t), q = Len(s) + b PROVE p = q
    <3>1. t[a].label = t[b].label
      BY <1>2, <1>9, <2>4
    <3> QED BY <1>4, <2>4, <3>1
  <2> QED BY <1>2, <2>1, <2>2, <2>3, <2>4
<1> QED BY <1>6, <1>7, <1>9 DEF Gathered, t, u

\* Parts without a common label are joined by FlattenSeq.
LEMMA FlattenGathered ==
  ASSUME NEW X, NEW parts \in Seq(Seq(X)), Unlike(parts)
  PROVE  FlattenSeq(parts) \in Seq(X) /\ Gathered(parts, FlattenSeq(parts), Len(parts))
<1> DEFINE n == Len(parts)
<1>1. n \in Nat
  OBVIOUS
<1>2. PICK g \in [0..n -> Seq(X)] :
        /\ g[0] = <<>> /\ FlattenSeq(parts) = g[n]
        /\ \A i \in 1..n : g[i] = g[i - 1] \o parts[i]
  BY Flatten
<1> DEFINE S == {i \in Nat : i <= n => Gathered(parts, g[i], i)}
<1> HIDE DEF n
<1>3. 0 \in S
  BY <1>2 DEF Gathered
<1>4. ASSUME NEW i \in Nat, i \in S PROVE i + 1 \in S
  <2> SUFFICES ASSUME i + 1 <= n PROVE Gathered(parts, g[i + 1], i + 1)
    OBVIOUS
  <2> DEFINE j == i + 1
  <2>1. j \in 1..n /\ j - 1 = i /\ i \in 0..n
    BY <1>1
  <2>2. Gathered(parts, g[i], i) /\ g[i] \in Seq(X)
    BY <1>1, <1>2, <1>4, <2>1
  <2> HIDE DEF j
  <2>3. g[j] = g[i] \o parts[j]
    BY <1>2, <2>1
  <2>4. j \in 1..Len(parts) /\ Gathered(parts, g[i], j - 1)
    BY <2>1, <2>2 DEF n
  <2>5. Gathered(parts, g[i] \o parts[j], j)
    BY <2>2, <2>4, GatheredStep
  <2> QED BY <2>3, <2>5 DEF j
<1> HIDE DEF S
<1>5. Nat \subseteq S
  BY <1>3, <1>4, NatSetInduction
<1>6. Gathered(parts, g[n], n)
  BY <1>1, <1>5 DEF S
<1>7. g[n] \in Seq(X)
  BY <1>1, <1>2
<1> QED BY <1>2, <1>6, <1>7 DEF n

-----------------------------------------------------------------------------
(* The updates of a metric, and of an area. *)
UpdateTexts == ToSet(Catalog) \cup {"date", "time", "unit"}
AnyUpdate == [group : Int, label : Int, text : UpdateTexts]

\* What the monitor knows has a metric, and no text of the clock or of a unit.
LEMMA SampledIs ==
  /\ Sampled \subseteq ToSet(Catalog)
  /\ \A v \in Sampled : v # "Date&Time"
  /\ \A v \in ToSet(Catalog) : v # "date" /\ v # "time" /\ v # "unit"
<1>a. /\ Catalog[1] = "CPU Temperature"
      /\ Catalog[2] = "CPU Frequency"
      /\ Catalog[3] = "CPU Usage"
      /\ Catalog[4] = "CPU Power"
      /\ Catalog[5] = "GPU Temperature"
      /\ Catalog[6] = "GPU Frequency"
      /\ Catalog[7] = "GPU Usage"
      /\ Catalog[8] = "GPU Power"
      /\ Catalog[9] = "Memory Frequency"
      /\ Catalog[10] = "Memory Usage"
      /\ Catalog[11] = "Date&Time"
  BY DEF Catalog
<1>1. ASSUME NEW i \in 1..11 PROVE Catalog[i] # "date" /\ Catalog[i] # "time" /\ Catalog[i] # "unit"
  <2>1. CASE i = 1
    BY <1>a, <2>1
  <2>2. CASE i = 2
    BY <1>a, <2>2
  <2>3. CASE i = 3
    BY <1>a, <2>3
  <2>4. CASE i = 4
    BY <1>a, <2>4
  <2>5. CASE i = 5
    BY <1>a, <2>5
  <2>6. CASE i = 6
    BY <1>a, <2>6
  <2>7. CASE i = 7
    BY <1>a, <2>7
  <2>8. CASE i = 8
    BY <1>a, <2>8
  <2>9. CASE i = 9
    BY <1>a, <2>9
  <2>10. CASE i = 10
    BY <1>a, <2>10
  <2>11. CASE i = 11
    BY <1>a, <2>11
  <2> QED BY <2>1, <2>2, <2>3, <2>4, <2>5, <2>6, <2>7, <2>8, <2>9, <2>10, <2>11
<1> DEFINE Is(v) == v # "date" /\ v # "time" /\ v # "unit"
<1>2. \A i \in 1..11 : Is(Catalog[i])
  BY <1>1
<1> HIDE DEF Is
<1>3. \A v \in ToSet(Catalog) : Is(v)
  BY <1>2, CatalogIs DEF ToSet
<1> QED BY <1>3 DEF Sampled, Is

\* Lists of one and of two.
LEMMA Pair ==
  ASSUME NEW X, NEW a \in X, NEW b \in X
  PROVE  <<a>> \in Seq(X) /\ <<a, b>> \in Seq(X)
OBVIOUS

\* Two lists of one, joined.
LEMMA TwoOnes ==
  ASSUME NEW X, NEW a \in X, NEW b \in X
  PROVE  /\ <<a>> \o <<b>> \in Seq(X) /\ Len(<<a>> \o <<b>>) = 2
         /\ (<<a>> \o <<b>>)[1] = a /\ (<<a>> \o <<b>>)[2] = b
OBVIOUS

\* An update is one.
LEMMA UpdateIs ==
  ASSUME NEW group \in Int, NEW label \in Int, NEW text \in UpdateTexts
  PROVE  Update(group, label, text) \in AnyUpdate
BY DEF Update, AnyUpdate

\* The updates of a metric: of its group and labels, no label twice, and its
\* value where it is known.
LEMMA UpdatesAre ==
  ASSUME NEW name \in ToSet(Catalog), NEW known, NEW offset \in Nat
  PROVE  LET s == Updates(name, known, offset)
         IN  /\ s \in Seq(AnyUpdate)
             /\ \A p \in 1..Len(s) :
                  /\ s[p].group = 99 + Number(name) + offset
                  /\ s[p].label \in MetricLabels(Metric(name), offset)
             /\ \A p, q \in 1..Len(s) : s[p].label = s[q].label => p = q
             /\ \A v \in metric_values(known) :
                  /\ \A p \in 1..Len(s) :
                       s[p].text = v => name = v /\ s[p].label = 99 + 3 * Number(name) + offset
                  /\ name = v => \E p \in 1..Len(s) : s[p].text = v
<1> DEFINE s == Updates(name, known, offset)
           n == Number(name)
           m == Metric(name)
           at == 99 + n + offset
           clock == <<Update(at, 98 + 3 * n + offset, "date"), Update(at, 99 + 3 * n + offset, "time")>>
           value == <<Update(at, 99 + 3 * n + offset, name)>>
           unit == <<Update(at, 100 + 3 * n + offset, "unit")>>
<1>1. n \in Nat /\ Catalog[n] = name
  BY MetricIs
<1>2. m = [name |-> name, group |-> 99 + n, date_time |-> Timed(name),
           title_id |-> 98 + 3 * n, value_id |-> 99 + 3 * n,
           unit_id |-> IF Timed(name) THEN 0 ELSE 100 + 3 * n]
  BY MetricIs
<1>3. /\ m.group + offset = at /\ m.title_id = 98 + 3 * n /\ m.value_id = 99 + 3 * n
      /\ m.date_time = Timed(name) /\ (~Timed(name) => m.unit_id = 100 + 3 * n)
  <2> HIDE DEF n, m
  <2> QED BY <1>2
<1>4. Timed(name) <=> name = "Date&Time"
  BY <1>1 DEF Timed
<1>5. /\ \A v \in metric_values(known) :
           v \in ToSet(Catalog) /\ v # "Date&Time" /\ v # "date" /\ v # "time" /\ v # "unit"
      /\ name \in UpdateTexts
  BY SampledIs DEF metric_values, UpdateTexts
<1>6. /\ 98 + 3 * n + offset \in Int /\ 99 + 3 * n + offset \in Int /\ 100 + 3 * n + offset \in Int
      /\ 98 + 3 * n + offset # 99 + 3 * n + offset
      /\ 99 + 3 * n + offset # 100 + 3 * n + offset /\ at \in Int
  BY <1>1
<1>7. /\ 99 + 3 * n + offset \in MetricLabels(m, offset) /\ 98 + 3 * n + offset \in MetricLabels(m, offset)
      /\ ~Timed(name) => 100 + 3 * n + offset \in MetricLabels(m, offset)
  <2> HIDE DEF n, m
  <2> QED BY <1>3 DEF MetricLabels
<1>8. CASE Timed(name)
  <2>1. s = clock
    BY <1>3, <1>8 DEF Updates
  <2>2. Len(clock) = 2
    OBVIOUS
  <2>3. \A p \in 1..2 : clock[p].group = at /\ clock[p].label \in MetricLabels(m, offset)
    BY <1>7 DEF Update
  <2>4. /\ clock[1].label # clock[2].label
        /\ clock[1].text = "date" /\ clock[2].text = "time"
    BY <1>6 DEF Update
  <2>a. Update(at, 98 + 3 * n + offset, "date") \in AnyUpdate
        /\ Update(at, 99 + 3 * n + offset, "time") \in AnyUpdate
    <3> HIDE DEF n, at
    <3>1. "date" \in UpdateTexts /\ "time" \in UpdateTexts
      BY DEF UpdateTexts
    <3> QED BY <1>6, <3>1, UpdateIs
  <2>5. clock \in Seq(AnyUpdate)
    BY <2>a, Pair
  <2> HIDE DEF clock, at, n, m, s
  <2>6. \A p \in 1..Len(s) : p = 1 \/ p = 2
    BY <2>1, <2>2
  <2>7. \A p, q \in 1..Len(s) : s[p].label = s[q].label => p = q
    BY <2>1, <2>4, <2>6
  <2>8. \A v \in metric_values(known) : name # v /\ \A p \in 1..Len(s) : s[p].text # v
    BY <1>4, <1>5, <1>8, <2>1, <2>4, <2>6
  <2> QED BY <2>1, <2>2, <2>3, <2>5, <2>7, <2>8 DEF at, n, m, s
<1>9. CASE ~Timed(name) /\ name \notin metric_values(known)
  <2>1. s = <<>>
    BY <1>3, <1>9 DEF Updates
  <2> HIDE DEF s
  <2>2. s \in Seq(AnyUpdate) /\ Len(s) = 0
    BY <2>1
  <2> QED BY <1>9, <2>2 DEF s
<1>10. CASE ~Timed(name) /\ name \in metric_values(known)
  <2>1. s = value \/ s = value \o unit
    <3>1. s = value \o (IF m.group \in {100, 104} THEN unit ELSE <<>>)
      BY <1>3, <1>10 DEF Updates
    <3>2. value \o <<>> = value
      OBVIOUS
    <3> HIDE DEF value, unit, m, s
    <3> QED BY <3>1, <3>2
  <2>4. Update(at, 99 + 3 * n + offset, name) \in AnyUpdate
        /\ Update(at, 100 + 3 * n + offset, "unit") \in AnyUpdate
    <3> HIDE DEF n, at
    <3>1. "unit" \in UpdateTexts
      BY DEF UpdateTexts
    <3> QED BY <1>5, <1>6, <3>1, UpdateIs
  <2>3. /\ Len(value) = 1 /\ value[1] = Update(at, 99 + 3 * n + offset, name)
        /\ Len(value \o unit) = 2 /\ (value \o unit)[1] = Update(at, 99 + 3 * n + offset, name)
        /\ (value \o unit)[2] = Update(at, 100 + 3 * n + offset, "unit")
    BY <2>4, TwoOnes
  <2>5. value \in Seq(AnyUpdate) /\ value \o unit \in Seq(AnyUpdate)
    BY <2>4, Pair, TwoOnes
  <2> HIDE DEF value, unit, s
  <2>6. /\ s \in Seq(AnyUpdate) /\ Len(s) \in {1, 2}
        /\ s[1] = Update(at, 99 + 3 * n + offset, name)
        /\ Len(s) = 2 => s[2] = Update(at, 100 + 3 * n + offset, "unit")
    BY <2>1, <2>3, <2>5
  <2>7. /\ s[1].group = at /\ s[1].label = 99 + 3 * n + offset /\ s[1].text = name
        /\ Len(s) = 2 => s[2].group = at /\ s[2].label = 100 + 3 * n + offset /\ s[2].text = "unit"
    BY <2>6 DEF Update
  <2> HIDE DEF at, n, m
  <2>8. \A p \in 1..Len(s) : p = 1 \/ (p = 2 /\ Len(s) = 2)
    <3>1. CASE Len(s) = 1
      BY <3>1
    <3>2. CASE Len(s) = 2
      BY <3>2
    <3> QED BY <2>6, <3>1, <3>2
  <2>9. 1 \in 1..Len(s)
    BY <2>6
  <2>10. \A p \in 1..Len(s) : s[p].group = at /\ s[p].label \in MetricLabels(m, offset)
    BY <1>7, <1>10, <2>7, <2>8
  <2>11. \A p, q \in 1..Len(s) : s[p].label = s[q].label => p = q
    BY <1>6, <2>7, <2>8
  <2>12. \A v \in metric_values(known) :
           /\ \A p \in 1..Len(s) : s[p].text = v => name = v /\ s[p].label = 99 + 3 * n + offset
           /\ name = v => \E p \in 1..Len(s) : s[p].text = v
    BY <1>5, <2>7, <2>8, <2>9
  <2> QED BY <2>6, <2>10, <2>11, <2>12 DEF at, n, m, s
<1> QED BY <1>8, <1>9, <1>10

\* Different metrics have different labels.
LEMMA LabelsDiffer ==
  ASSUME NEW name \in ToSet(Catalog), NEW other \in ToSet(Catalog), name # other, NEW offset \in Nat
  PROVE  \A l \in MetricLabels(Metric(name), offset), m \in MetricLabels(Metric(other), offset) : l # m
<1> DEFINE a == Number(name)
           b == Number(other)
<1>1. a \in Nat /\ b \in Nat /\ a # b
  BY MetricIs
<1>2. /\ \A l \in MetricLabels(Metric(name), offset) :
           l \in Int /\ 98 + 3 * a + offset <= l /\ l <= 100 + 3 * a + offset
      /\ \A l \in MetricLabels(Metric(other), offset) :
           l \in Int /\ 98 + 3 * b + offset <= l /\ l <= 100 + 3 * b + offset
  BY LabelsAre
<1> HIDE DEF a, b
<1> QED BY <1>1, <1>2

\* The updates of an area: each of a metric that is selected, no label twice,
\* and the values that are known, each once.
LEMMA AreaUpdatesAre ==
  ASSUME NEW area \in Area, NEW known, NEW offset \in Nat
  PROVE  LET s == AreaUpdates(area, known, offset)
             shown == selected(area)
         IN  /\ s \in Seq(AnyUpdate)
             /\ \A p \in 1..Len(s) : \E k \in 1..Len(shown) :
                  /\ s[p].group = 99 + Number(shown[k]) + offset
                  /\ s[p].label \in MetricLabels(Metric(shown[k]), offset)
             /\ \A p, q \in 1..Len(s) : s[p].label = s[q].label => p = q
             /\ \A v \in metric_values(known) :
                  /\ v \in ToSet(shown) <=> \E p \in 1..Len(s) : s[p].text = v
                  /\ \A p, q \in 1..Len(s) : s[p].text = v /\ s[q].text = v => p = q
<1> DEFINE s == AreaUpdates(area, known, offset)
           shown == selected(area)
           n == Len(shown)
           parts == [k \in DOMAIN shown |-> Updates(shown[k], known, offset)]
<1>1. /\ n \in Nat /\ DOMAIN shown = 1..n /\ \A k \in 1..n : shown[k] \in ToSet(Catalog)
      /\ \A k, l \in 1..n : shown[k] = shown[l] => k = l
  <2>1. area.metrics \in Seq(Names)
    BY DEF Area
  <2>2. \A k, l \in DOMAIN shown : shown[k] = shown[l] => k = l
    BY <2>1, SelectedIs
  <2>3. shown \in Seq(ToSet(Catalog)) /\ n \in Nat /\ DOMAIN shown = 1..n
    BY SelectedOf
  <2> QED BY <2>2, <2>3
<1> HIDE DEF shown, n
<1>2. ASSUME NEW k \in 1..n
      PROVE  /\ parts[k] = Updates(shown[k], known, offset) /\ parts[k] \in Seq(AnyUpdate)
             /\ \A p \in 1..Len(parts[k]) :
                  /\ parts[k][p].group = 99 + Number(shown[k]) + offset
                  /\ parts[k][p].label \in MetricLabels(Metric(shown[k]), offset)
             /\ \A p, q \in 1..Len(parts[k]) : parts[k][p].label = parts[k][q].label => p = q
             /\ \A v \in metric_values(known) :
                  /\ \A p \in 1..Len(parts[k]) :
                       parts[k][p].text = v =>
                         shown[k] = v /\ parts[k][p].label = 99 + 3 * Number(shown[k]) + offset
                  /\ shown[k] = v => \E p \in 1..Len(parts[k]) : parts[k][p].text = v
  <2>1. shown[k] \in ToSet(Catalog) /\ parts[k] = Updates(shown[k], known, offset)
    BY <1>1
  <2> HIDE DEF parts
  <2> QED BY <2>1, UpdatesAre
<1>3. parts \in Seq(Seq(AnyUpdate)) /\ Len(parts) = n
  <2>1. parts = [k \in 1..n |-> Updates(shown[k], known, offset)]
    BY <1>1
  <2> HIDE DEF parts
  <2>2. \A k \in 1..n : Updates(shown[k], known, offset) \in Seq(AnyUpdate)
    BY <1>2
  <2> QED BY <1>1, <2>1, <2>2
<1> HIDE DEF parts
<1>4. Unlike(parts)
  <2>1. \A k \in 1..n : \A p, q \in 1..Len(parts[k]) : parts[k][p].label = parts[k][q].label => p = q
    BY <1>2
  <2>2. ASSUME NEW k \in 1..n, NEW l \in 1..n, k # l,
               NEW p \in 1..Len(parts[k]), NEW q \in 1..Len(parts[l])
        PROVE  parts[k][p].label # parts[l][q].label
    <3>1. /\ shown[k] \in ToSet(Catalog) /\ shown[l] \in ToSet(Catalog) /\ shown[k] # shown[l]
      BY <1>1, <2>2
    <3>2. parts[k][p].label \in MetricLabels(Metric(shown[k]), offset)
          /\ parts[l][q].label \in MetricLabels(Metric(shown[l]), offset)
      BY <1>2
    <3> QED BY <3>1, <3>2, LabelsDiffer
  <2> QED BY <1>3, <2>1, <2>2 DEF Unlike
<1>5. s \in Seq(AnyUpdate) /\ Gathered(parts, s, n)
  <2>1. s = FlattenSeq(parts)
    BY DEF AreaUpdates, parts, shown
  <2> QED BY <1>3, <1>4, <2>1, FlattenGathered
<1> HIDE DEF s
<1>6. ASSUME NEW p \in 1..Len(s)
      PROVE  \E k \in 1..n : \E q \in 1..Len(parts[k]) : s[p] = parts[k][q]
  BY <1>5 DEF Gathered
<1>7. ASSUME NEW k \in 1..n, NEW q \in 1..Len(parts[k])
      PROVE  \E p \in 1..Len(s) : s[p] = parts[k][q]
  BY <1>5 DEF Gathered
<1>8. \A p, q \in 1..Len(s) : s[p].label = s[q].label => p = q
  BY <1>5 DEF Gathered
<1>9. ASSUME NEW p \in 1..Len(s)
      PROVE  \E k \in 1..n :
               /\ s[p].group = 99 + Number(shown[k]) + offset
               /\ s[p].label \in MetricLabels(Metric(shown[k]), offset)
  <2>1. PICK k \in 1..n : \E q \in 1..Len(parts[k]) : s[p] = parts[k][q]
    BY <1>6
  <2> QED BY <1>2, <2>1
<1>10. ASSUME NEW v \in metric_values(known), NEW p \in 1..Len(s), s[p].text = v
       PROVE  v \in ToSet(shown) /\ s[p].label = 99 + 3 * Number(v) + offset
  <2>1. PICK k \in 1..n : \E q \in 1..Len(parts[k]) : s[p] = parts[k][q]
    BY <1>6
  <2>2. shown[k] = v /\ s[p].label = 99 + 3 * Number(shown[k]) + offset
    BY <1>2, <1>10, <2>1
  <2> QED BY <1>1, <2>2 DEF ToSet
<1>11. ASSUME NEW v \in metric_values(known), v \in ToSet(shown)
       PROVE  \E p \in 1..Len(s) : s[p].text = v
  <2>1. PICK k \in 1..n : shown[k] = v
    BY <1>1, <1>11 DEF ToSet
  <2>2. PICK q \in 1..Len(parts[k]) : parts[k][q].text = v
    BY <1>2, <2>1
  <2> QED BY <1>7, <2>2
<1>12. ASSUME NEW v \in metric_values(known), NEW p \in 1..Len(s), NEW q \in 1..Len(s),
              s[p].text = v, s[q].text = v
       PROVE  p = q
  BY <1>8, <1>10, <1>12
<1> QED BY <1>5, <1>8, <1>9, <1>10, <1>11, <1>12 DEF n, s, shown

-----------------------------------------------------------------------------

\* The sizes of small sets.
LEMMA Sizes ==
  ASSUME NEW x, NEW y, x # y
  PROVE  Cardinality({}) = 0 /\ Cardinality({x}) = 1 /\ Cardinality({x, y}) = 2
<1>1. Cardinality({}) = 0 /\ Cardinality({x}) = 1 /\ IsFiniteSet({x})
  BY FS_EmptySet, FS_Singleton
<1>2. {x, y} = {x} \cup {y} /\ y \notin {x}
  OBVIOUS
<1>3. Cardinality({x} \cup {y}) = Cardinality({x}) + 1
  BY <1>1, <1>2, FS_AddElement
<1> QED BY <1>1, <1>2, <1>3

(* A thing may be in one place, or in another, or in both. *)
Total(found, one, two) ==
  /\ ~one /\ ~two => found = 0
  /\ one /\ ~two => found = 1
  /\ ~one /\ two => found = 1
  /\ one /\ two => found = 2
AtMostOnce(s, v) == \A p, q \in 1..Len(s) : s[p].text = v /\ s[q].text = v => p = q
Says(s, v) == \E p \in 1..Len(s) : s[p].text = v
Count(s, v) == Cardinality({i \in DOMAIN s : s[i].text = v})

\* How often a text is in two lists that each have it once at most.
LEMMA Counted ==
  ASSUME NEW X, NEW s \in Seq(X), NEW t \in Seq(X), NEW v,
         AtMostOnce(s, v), AtMostOnce(t, v)
  PROVE  Total(Count(s \o t, v), Says(s, v), Says(t, v))
<1> DEFINE u == s \o t
           F == {i \in DOMAIN u : u[i].text = v}
           one == \E p \in 1..Len(s) : s[p].text = v
           two == \E p \in 1..Len(t) : t[p].text = v
<1>1. /\ \A p \in 1..Len(s) : u[p] = s[p] /\ p \in 1..Len(u)
      /\ \A p \in 1..Len(t) : u[Len(s) + p] = t[p] /\ Len(s) + p \in 1..Len(u)
      /\ \A p \in 1..Len(u) : p \in 1..Len(s) \/ \E q \in 1..Len(t) : p = Len(s) + q
      /\ u \in Seq(X)
  <2> HIDE DEF F, one, two
  <2>1. s \in Seq(X) /\ t \in Seq(X)
    OBVIOUS
  <2> QED BY <2>1, Positions DEF AtMostOnce
<1>2. DOMAIN u = 1..Len(u) /\ Len(s) \in Nat /\ Len(t) \in Nat
  BY <1>1
<1> HIDE DEF u
<1>b. /\ \A p, q \in 1..Len(s) : s[p].text = v /\ s[q].text = v => p = q
      /\ \A p, q \in 1..Len(t) : t[p].text = v /\ t[q].text = v => p = q
  BY DEF AtMostOnce
<1>3. \A i \in F : (i \in 1..Len(s) /\ s[i].text = v)
                   \/ \E q \in 1..Len(t) : i = Len(s) + q /\ t[q].text = v
  <2> SUFFICES ASSUME NEW i \in F
               PROVE  \/ i \in 1..Len(s) /\ s[i].text = v
                      \/ \E q \in 1..Len(t) : i = Len(s) + q /\ t[q].text = v
    OBVIOUS
  <2>1. i \in 1..Len(u) /\ u[i].text = v
    BY <1>2
  <2>2. CASE i \in 1..Len(s)
    BY <1>1, <2>1, <2>2
  <2>3. ASSUME NEW q \in 1..Len(t), i = Len(s) + q
        PROVE  \E r \in 1..Len(t) : i = Len(s) + r /\ t[r].text = v
    <3>1. u[Len(s) + q] = t[q]
      BY <1>1
    <3> QED BY <2>1, <2>3, <3>1
  <2> QED BY <1>1, <2>1, <2>2, <2>3
<1>4. /\ \A p \in 1..Len(s) : s[p].text = v => p \in F
      /\ \A p \in 1..Len(t) : t[p].text = v => Len(s) + p \in F
  BY <1>1, <1>2
<1>5. CASE ~one /\ ~two
  <2>1. F = {}
    BY <1>3, <1>5
  <2>2. Cardinality(F) = 0
    BY <2>1, FS_EmptySet
  <2> QED BY <1>5, <2>2 DEF u, Total, Count, Says
<1>6. CASE one /\ ~two
  <2>1. PICK p \in 1..Len(s) : s[p].text = v
    BY <1>6
  <2>2. F = {p}
    BY <1>b, <1>3, <1>4, <1>6, <2>1
  <2>3. Cardinality(F) = 1
    BY <2>2, FS_Singleton
  <2> QED BY <1>6, <2>3 DEF u, Total, Count, Says
<1>7. CASE ~one /\ two
  <2>1. PICK q \in 1..Len(t) : t[q].text = v
    BY <1>7
  <2>2. F = {Len(s) + q}
    BY <1>b, <1>3, <1>4, <1>7, <2>1
  <2>3. Cardinality(F) = 1
    BY <2>2, FS_Singleton
  <2> QED BY <1>7, <2>3 DEF u, Total, Count, Says
<1>8. CASE one /\ two
  <2>1. PICK p \in 1..Len(s) : s[p].text = v
    BY <1>8
  <2>2. PICK q \in 1..Len(t) : t[q].text = v
    BY <1>8
  <2>3. F = {p, Len(s) + q}
    BY <1>b, <1>3, <1>4, <2>1, <2>2
  <2>4. p # Len(s) + q
    BY <1>2
  <2>5. Cardinality({p, Len(s) + q}) = 2
    <3> DEFINE y == Len(s) + q
    <3>1. p # y
      BY <2>4
    <3> HIDE DEF y
    <3>2. Cardinality({p, y}) = 2
      BY <3>1, Sizes
    <3> QED BY <3>2 DEF y
  <2>6. Cardinality(F) = 2
    BY <2>3, <2>5
  <2> QED BY <1>8, <2>6 DEF u, Total, Count, Says
<1> QED BY <1>5, <1>6, <1>7, <1>8

\* An update is of a label that the layout has, at the same half.
LEMMA UpdatePlaced ==
  ASSUME NEW o \in AnyOverlay, NEW area \in Area, NEW right \in BOOLEAN, right => o.dual,
         NEW known, NEW p \in 1..Len(AreaUpdates(area, known, Offset(right)))
  PROVE  LET u == AreaUpdates(area, known, Offset(right))[p]
         IN  \E k \in 1..Places(area) :
               /\ GroupAt(o, area, right, k).id = u.group
               /\ u.label \in GroupAt(o, area, right, k).labels
<1> DEFINE n == Len(selected(area))
           u == AreaUpdates(area, known, Offset(right))[p]
<1>1. Offset(right) \in Nat /\ n \in Nat
  BY SelectedOf DEF Offset
<1>2. PICK k \in 1..n :
        /\ u.group = 99 + Number(selected(area)[k]) + Offset(right)
        /\ u.label \in MetricLabels(Metric(selected(area)[k]), Offset(right))
  BY <1>1, AreaUpdatesAre
<1>3. /\ MetricGroup(o, area, right, k).id = 99 + Number(selected(area)[k]) + Offset(right)
      /\ MetricGroup(o, area, right, k).labels = MetricLabels(Metric(selected(area)[k]), Offset(right))
  BY MetricGroupIs
<1>4. k \in 1..Places(area) /\ GroupAt(o, area, right, k) = MetricGroup(o, area, right, k)
  BY <1>1 DEF Places, GroupAt
<1> QED BY <1>2, <1>3, <1>4

\* The labels of a half are not those of the other.
LEMMA LabelRange ==
  ASSUME NEW area \in Area, NEW known, NEW offset \in Nat,
         NEW p \in 1..Len(AreaUpdates(area, known, offset))
  PROVE  LET l == AreaUpdates(area, known, offset)[p].label
         IN  l \in Int /\ 101 + offset <= l /\ l <= 133 + offset
<1> DEFINE l == AreaUpdates(area, known, offset)[p].label
<1>1. PICK k \in 1..Len(selected(area)) :
        l \in MetricLabels(Metric(selected(area)[k]), offset)
  BY AreaUpdatesAre
<1> DEFINE name == selected(area)[k]
           n == Number(name)
<1>2. name \in ToSet(Catalog)
  BY SelectedOf
<1>3. n \in Nat /\ 1 <= n /\ n <= 11
  BY <1>2, MetricIs
<1>4. l \in Int /\ 98 + 3 * n + offset <= l /\ l <= 100 + 3 * n + offset
  BY <1>1, <1>2, LabelsAre
<1> HIDE DEF n, l
<1>5. l \in Int /\ 101 + offset <= l /\ l <= 133 + offset
  BY <1>3, <1>4
<1> QED BY <1>5 DEF l

(* The halves that are shown, and what is asked for in each. *)
HalvesOf(o) == IF o.dual THEN <<o.left, o.right>> ELSE <<o.left>>
ShownOf(o) == [h \in DOMAIN HalvesOf(o) |-> HalvesOf(o)[h].metrics]

\* In how many halves a name is asked for.
LEMMA ShownIn ==
  ASSUME NEW o \in AnyOverlay, NEW v
  PROVE  LET found == Cardinality({half \in DOMAIN ShownOf(o) : v \in ToSet(ShownOf(o)[half])})
             one == v \in ToSet(o.left.metrics)
             two == o.dual /\ v \in ToSet(o.right.metrics)
         IN  /\ ~one /\ ~two => found = 0
             /\ one /\ ~two => found = 1
             /\ ~one /\ two => found = 1
             /\ one /\ two => found = 2
<1> DEFINE F == {half \in DOMAIN ShownOf(o) : v \in ToSet(ShownOf(o)[half])}
           one == v \in ToSet(o.left.metrics)
           two == o.dual /\ v \in ToSet(o.right.metrics)
<1>1. o.dual \in BOOLEAN
  BY DEF AnyOverlay
<1>2. CASE o.dual
  <2>1. /\ DOMAIN HalvesOf(o) = {1, 2}
        /\ HalvesOf(o)[1] = o.left /\ HalvesOf(o)[2] = o.right
    BY <1>2 DEF HalvesOf
  <2>2. /\ DOMAIN ShownOf(o) = {1, 2}
        /\ ShownOf(o)[1] = o.left.metrics /\ ShownOf(o)[2] = o.right.metrics
    BY <2>1 DEF ShownOf
  <2>3. /\ \A h \in F : h = 1 \/ h = 2
        /\ 1 \in F <=> one
        /\ 2 \in F <=> two
    BY <1>2, <2>2
  <2> HIDE DEF one, two, F
  <2>4. /\ ~one /\ ~two => F = {}
        /\ one /\ ~two => F = {1}
        /\ ~one /\ two => F = {2}
        /\ one /\ two => F = {1, 2}
    BY <2>3
  <2>5. Cardinality({}) = 0 /\ Cardinality({1}) = 1 /\ Cardinality({2}) = 1 /\ Cardinality({1, 2}) = 2
    <3>1. Cardinality({}) = 0 /\ Cardinality({1}) = 1 /\ Cardinality({2}) = 1
      BY FS_EmptySet, FS_Singleton
    <3>2. Cardinality({1} \cup {2}) = 1 + 1
      <4>1. IsFiniteSet({1})
        BY FS_Singleton
      <4>2. 2 \notin {1}
        OBVIOUS
      <4> QED BY <3>1, <4>1, <4>2, FS_AddElement
    <3>3. {1} \cup {2} = {1, 2}
      OBVIOUS
    <3> QED BY <3>1, <3>2, <3>3
  <2>6. /\ ~one /\ ~two => Cardinality(F) = 0
        /\ one /\ ~two => Cardinality(F) = 1
        /\ ~one /\ two => Cardinality(F) = 1
        /\ one /\ two => Cardinality(F) = 2
    BY <2>4, <2>5
  <2> QED BY <2>6 DEF one, two, F
<1>3. CASE ~o.dual
  <2>1. DOMAIN HalvesOf(o) = {1} /\ HalvesOf(o)[1] = o.left
    BY <1>3 DEF HalvesOf
  <2>2. DOMAIN ShownOf(o) = {1} /\ ShownOf(o)[1] = o.left.metrics
    BY <2>1 DEF ShownOf
  <2>3. (\A h \in F : h = 1) /\ (1 \in F <=> one) /\ ~two
    BY <1>3, <2>2
  <2> HIDE DEF one, two, F
  <2>4. (~one => F = {}) /\ (one => F = {1})
    BY <2>3
  <2>5. Cardinality({}) = 0 /\ Cardinality({1}) = 1
    BY FS_EmptySet, FS_Singleton
  <2>6. (~one => Cardinality(F) = 0) /\ (one => Cardinality(F) = 1)
    BY <2>4, <2>5
  <2> QED BY <2>3, <2>6 DEF one, two, F
<1> QED BY <1>1, <1>2, <1>3

(* The updates of a half: no label twice, and of each metric that is shown *)
(* the value, once, where it is known.                                     *)
OfArea(s, area, known) ==
  /\ s \in Seq(AnyUpdate)
  /\ \A p, q \in 1..Len(s) : s[p].label = s[q].label => p = q
  /\ \A v \in metric_values(known) :
       /\ v \in ToSet(selected(area)) <=> \E p \in 1..Len(s) : s[p].text = v
       /\ \A p, q \in 1..Len(s) : s[p].text = v /\ s[q].text = v => p = q

\* The updates of an area are such.
LEMMA AreaIs ==
  ASSUME NEW area \in Area, NEW known, NEW offset \in Nat
  PROVE  OfArea(AreaUpdates(area, known, offset), area, known)
BY AreaUpdatesAre DEF OfArea

\* A batch reaches the layout: the labels are there, and no value is lost.
LEMMA BatchReaches ==
  ASSUME NEW o \in AnyOverlay, NEW known,
         Len(o.left.metrics) <= 3, Len(o.right.metrics) <= 3
  PROVE  Reaches(metric_batch(o, known), run_config(o), ShownOf(o), known)
<1> DEFINE L == AreaUpdates(o.left, known, 0)
           R == IF o.dual THEN AreaUpdates(o.right, known, 100) ELSE <<>>
           all == run_config(o)
           n == Places(o.left)
           m == IF o.dual THEN Places(o.right) ELSE 0
           batch == metric_batch(o, known)
<1>1. /\ o.left \in Area /\ o.right \in Area /\ o.dual \in BOOLEAN
      /\ Offset(FALSE) = 0 /\ Offset(TRUE) = 100
  BY DEF AnyOverlay, Offset
<1>2. batch = L \o R
  BY DEF metric_batch
<1>3. /\ L \in Seq(AnyUpdate)
      /\ \A p, q \in 1..Len(L) : L[p].label = L[q].label => p = q
      /\ \A v \in metric_values(known) :
           /\ v \in ToSet(selected(o.left)) <=> \E p \in 1..Len(L) : L[p].text = v
           /\ \A p, q \in 1..Len(L) : L[p].text = v /\ L[q].text = v => p = q
  <2>1. OfArea(L, o.left, known)
    BY <1>1, AreaIs
  <2> HIDE DEF L
  <2> QED BY <2>1 DEF OfArea
<1>4. o.dual =>
      /\ R \in Seq(AnyUpdate)
      /\ \A p, q \in 1..Len(R) : R[p].label = R[q].label => p = q
      /\ \A v \in metric_values(known) :
           /\ v \in ToSet(selected(o.right)) <=> \E p \in 1..Len(R) : R[p].text = v
           /\ \A p, q \in 1..Len(R) : R[p].text = v /\ R[q].text = v => p = q
  <2> HAVE o.dual
  <2>1. R = AreaUpdates(o.right, known, 100)
    OBVIOUS
  <2> HIDE DEF R
  <2>2. OfArea(R, o.right, known)
    BY <1>1, <2>1, AreaIs
  <2> QED BY <2>2 DEF OfArea
<1>5. ~o.dual => R \in Seq(AnyUpdate) /\ Len(R) = 0
  <2> HAVE ~o.dual
  <2>1. R = <<>>
    OBVIOUS
  <2> HIDE DEF R
  <2> QED BY <2>1
<1>6. \A p \in 1..Len(L) : \E k \in 1..n :
        GroupAt(o, o.left, FALSE, k).id = L[p].group
        /\ L[p].label \in GroupAt(o, o.left, FALSE, k).labels
  <2>1. L = AreaUpdates(o.left, known, Offset(FALSE))
    BY <1>1
  <2> HIDE DEF L
  <2> QED BY <1>1, <2>1, UpdatePlaced
<1>7. \A p \in 1..Len(R) : \E k \in 1..m :
        GroupAt(o, o.right, TRUE, k).id = R[p].group
        /\ R[p].label \in GroupAt(o, o.right, TRUE, k).labels
  <2>1. CASE o.dual
    <3>1. R = AreaUpdates(o.right, known, Offset(TRUE)) /\ m = Places(o.right)
      BY <1>1, <2>1
    <3> HIDE DEF R, m
    <3> QED BY <1>1, <2>1, <3>1, UpdatePlaced
  <2>2. CASE ~o.dual
    <3> HIDE DEF R
    <3> QED BY <1>5, <2>2
  <2> QED BY <1>1, <2>1, <2>2
<1>8. \A p \in 1..Len(L) : L[p].label \in Int /\ L[p].label <= 133
  <2>1. \A p \in 1..Len(L) : L[p].label \in Int /\ L[p].label <= 133 + 0
    BY <1>1, LabelRange
  <2> HIDE DEF L
  <2> QED BY <2>1
<1>9. \A p \in 1..Len(R) : R[p].label \in Int /\ 201 <= R[p].label
  <2>1. CASE o.dual
    <3>1. R = AreaUpdates(o.right, known, 100)
      BY <2>1
    <3> HIDE DEF R
    <3>2. \A p \in 1..Len(R) : R[p].label \in Int /\ 101 + 100 <= R[p].label
      BY <1>1, <3>1, LabelRange
    <3> QED BY <3>2
  <2>2. CASE ~o.dual
    <3> HIDE DEF R
    <3> QED BY <1>5, <2>2
  <2> QED BY <1>1, <2>1, <2>2
<1>10. /\ n \in Nat /\ m \in Nat /\ DOMAIN all = 1..(n + m)
       /\ \A k \in 1..n : all[k] = GroupAt(o, o.left, FALSE, k)
       /\ \A k \in 1..m : all[n + k] = GroupAt(o, o.right, TRUE, k)
  BY LayoutIs
<1>a. /\ \A k \in 1..n : k \in DOMAIN all
      /\ \A k \in 1..m : n + k \in DOMAIN all
  <2> HIDE DEF n, m, all
  <2> QED BY <1>10
<1>11. R \in Seq(AnyUpdate)
  <2> HIDE DEF R
  <2> QED BY <1>1, <1>4, <1>5
<1> HIDE DEF L, R, all, n, m, batch
<1>12. /\ \A p \in 1..Len(L) : batch[p] = L[p] /\ p \in 1..Len(batch)
       /\ \A p \in 1..Len(R) : batch[Len(L) + p] = R[p] /\ Len(L) + p \in 1..Len(batch)
       /\ \A p \in 1..Len(batch) : p \in 1..Len(L) \/ \E q \in 1..Len(R) : p = Len(L) + q
       /\ batch \in Seq(AnyUpdate) /\ DOMAIN batch = 1..Len(batch)
  <2>1. batch \in Seq(AnyUpdate)
    BY <1>2, <1>3, <1>11, Positions
  <2>2. DOMAIN batch = 1..Len(batch)
    BY <2>1
  <2> QED BY <1>2, <1>3, <1>11, <2>1, <2>2, Positions
<1>13. ASSUME NEW i \in DOMAIN batch
       PROVE  \E g \in DOMAIN all : all[g].id = batch[i].group /\ batch[i].label \in all[g].labels
  <2>1. CASE i \in 1..Len(L)
    <3>1. PICK k \in 1..n : /\ GroupAt(o, o.left, FALSE, k).id = L[i].group
                            /\ L[i].label \in GroupAt(o, o.left, FALSE, k).labels
      BY <1>6, <2>1
    <3>2. k \in DOMAIN all /\ all[k] = GroupAt(o, o.left, FALSE, k)
      BY <1>10, <1>a
    <3> QED BY <1>12, <2>1, <3>1, <3>2
  <2>2. ASSUME NEW p \in 1..Len(R), i = Len(L) + p
        PROVE  \E g \in DOMAIN all : all[g].id = batch[i].group /\ batch[i].label \in all[g].labels
    <3>1. PICK k \in 1..m : /\ GroupAt(o, o.right, TRUE, k).id = R[p].group
                            /\ R[p].label \in GroupAt(o, o.right, TRUE, k).labels
      BY <1>7
    <3>2. n + k \in DOMAIN all /\ all[n + k] = GroupAt(o, o.right, TRUE, k)
      BY <1>10, <1>a
    <3> QED BY <1>12, <2>2, <3>1, <3>2
  <2> QED BY <1>12, <2>1, <2>2
<1>14. ASSUME NEW i \in DOMAIN batch, NEW j \in DOMAIN batch, batch[i].label = batch[j].label
       PROVE  i = j
  <2>1. CASE i \in 1..Len(L) /\ j \in 1..Len(L)
    BY <1>3, <1>12, <1>14, <2>1
  <2>2. ASSUME i \in 1..Len(L), NEW q \in 1..Len(R), j = Len(L) + q PROVE FALSE
    <3>1. L[i].label = R[q].label
      BY <1>12, <1>14, <2>2
    <3> QED BY <1>8, <1>9, <2>2, <3>1
  <2>3. ASSUME j \in 1..Len(L), NEW p \in 1..Len(R), i = Len(L) + p PROVE FALSE
    <3>1. L[j].label = R[p].label
      BY <1>12, <1>14, <2>3
    <3> QED BY <1>8, <1>9, <2>3, <3>1
  <2>4. ASSUME NEW p \in 1..Len(R), i = Len(L) + p, NEW q \in 1..Len(R), j = Len(L) + q PROVE i = j
    <3>1. R[p].label = R[q].label
      BY <1>12, <1>14, <2>4
    <3>2. o.dual
      BY <1>1, <1>5
    <3>3. p = q
      BY <1>4, <3>1, <3>2
    <3> QED BY <2>4, <3>3
  <2> QED BY <1>12, <2>1, <2>2, <2>3, <2>4
<1>15. ASSUME NEW v \in metric_values(known)
       PROVE  Cardinality({i \in DOMAIN batch : batch[i].text = v})
                = Cardinality({half \in DOMAIN ShownOf(o) : v \in ToSet(ShownOf(o)[half])})
  <2> DEFINE one == \E p \in 1..Len(L) : L[p].text = v
             two == \E p \in 1..Len(R) : R[p].text = v
             found == Cardinality({i \in DOMAIN batch : batch[i].text = v})
             asked == Cardinality({half \in DOMAIN ShownOf(o) : v \in ToSet(ShownOf(o)[half])})
  <2>1. v \in ToSet(Catalog)
    BY SampledIs DEF metric_values
  <2>2. /\ o.left.metrics \in Seq(Names) /\ o.right.metrics \in Seq(Names)
    BY <1>1 DEF Area
  <2>3. /\ v \in ToSet(o.left.metrics) <=> v \in ToSet(selected(o.left))
        /\ v \in ToSet(o.right.metrics) <=> v \in ToSet(selected(o.right))
    BY <2>1, <2>2, SelectedIs
  <2>4. /\ one <=> v \in ToSet(o.left.metrics)
        /\ two <=> o.dual /\ v \in ToSet(o.right.metrics)
    <3>1. one <=> v \in ToSet(o.left.metrics)
      BY <1>3, <2>3
    <3>2. CASE o.dual
      BY <1>4, <2>3, <3>1, <3>2
    <3>3. CASE ~o.dual
      BY <1>5, <3>1, <3>3
    <3> QED BY <1>1, <3>2, <3>3
  <2>5. /\ \A p, q \in 1..Len(L) : L[p].text = v /\ L[q].text = v => p = q
        /\ \A p, q \in 1..Len(R) : R[p].text = v /\ R[q].text = v => p = q
    BY <1>1, <1>3, <1>4, <1>5
  <2>6. /\ ~one /\ ~two => found = 0
        /\ one /\ ~two => found = 1
        /\ ~one /\ two => found = 1
        /\ one /\ two => found = 2
    <3>1. Total(Count(L \o R, v), Says(L, v), Says(R, v))
      <4>1. AtMostOnce(L, v) /\ AtMostOnce(R, v)
        BY <2>5 DEF AtMostOnce
      <4> HIDE DEF one, two, found
      <4> QED BY <1>3, <1>11, <4>1, Counted
    <3>2. /\ found = Count(L \o R, v)
          /\ one <=> Says(L, v)
          /\ two <=> Says(R, v)
      BY <1>2 DEF Count, Says
    <3> HIDE DEF one, two, found
    <3> QED BY <3>1, <3>2 DEF Total
  <2>7. LET a == v \in ToSet(o.left.metrics)
            b == o.dual /\ v \in ToSet(o.right.metrics)
        IN  /\ ~a /\ ~b => asked = 0
            /\ a /\ ~b => asked = 1
            /\ ~a /\ b => asked = 1
            /\ a /\ b => asked = 2
    BY ShownIn
  <2> HIDE DEF one, two, found, asked
  <2>8. found = asked
    BY <2>4, <2>6, <2>7
  <2> QED BY <2>8 DEF found, asked
<1> QED BY <1>13, <1>14, <1>15 DEF Reaches, batch, all

(* What may be saved of a screen: lists of up to three labels, with badges. *)
AnyHalf ==
  [labels : {l \in Seq(LABELS) : Len(l) <= MAX_LABELS},
   badges : Seq({"CPU Badge", "GPU Badge"}), bottom : BOOLEAN]
AnyScreen == [left : AnyHalf, right : AnyHalf, dual : BOOLEAN, waterfall : BOOLEAN]

\* A half that may be saved gives an area of up to three metrics.
LEMMA AreaOf ==
  ASSUME NEW half \in AnyHalf
  PROVE  area_from(half) \in Area /\ Len(area_from(half).metrics) <= 3
<1> DEFINE l == half.labels
           names == [i \in DOMAIN l |-> supported_label(l[i])]
<1>1. l \in Seq(LABELS) /\ Len(l) <= 3
  BY DEF AnyHalf, MAX_LABELS
<1>2. \A label \in LABELS : supported_label(label) \in Names
  <2>1. "Memory Usage" \in ToSet(Catalog)
    <3>1. Catalog[10] = "Memory Usage" /\ 10 \in DOMAIN Catalog
      BY CatalogIs DEF Catalog
    <3> QED BY <3>1 DEF ToSet
  <2> QED BY <2>1 DEF supported_label, Names
<1> HIDE DEF l
<1>3. DOMAIN l = 1..Len(l) /\ Len(l) \in Nat
  BY <1>1
<1>4. \A i \in 1..Len(l) : supported_label(l[i]) \in Names
  BY <1>1, <1>2
<1>5. names = [i \in 1..Len(l) |-> supported_label(l[i])]
  BY <1>3
<1> HIDE DEF names
<1>6. names \in Seq(Names) /\ Len(names) = Len(l)
  BY <1>3, <1>4, <1>5
<1>7. area_from(half) = [metrics |-> names, badges |-> half.badges, bottom |-> half.bottom]
  BY DEF area_from, names, l
<1>8. half.badges \in Seq({"CPU Badge", "GPU Badge"}) /\ half.bottom \in BOOLEAN
  BY DEF AnyHalf
<1>9. area_from(half) \in Area
  <2> DEFINE badges == half.badges
             bottom == half.bottom
             all == {"CPU Badge", "GPU Badge"}
  <2>1. badges \in Seq(all) /\ bottom \in BOOLEAN
    BY <1>8
  <2>2. Area = [metrics : Seq(Names), badges : Seq(all), bottom : BOOLEAN]
    BY DEF Area
  <2>3. area_from(half) = [metrics |-> names, badges |-> badges, bottom |-> bottom]
    BY <1>7
  <2> HIDE DEF badges, bottom, all
  <2> QED BY <1>6, <2>1, <2>2, <2>3
<1>10. area_from(half).metrics = names
  BY <1>7
<1> QED BY <1>1, <1>6, <1>9, <1>10

\* Whatever is saved of a screen, its overlay is laid out apart on the canvas,
\* and whatever of it is known is pushed to where it is shown: each label that
\* is updated is in the layout, none twice, and no value that is known is lost.
THEOREM OverlayReached ==
  ASSUME NEW screen \in AnyScreen
  PROVE  LET overlay == overlay_from(screen)
             o == overlay[1]
         IN  overlay # <<>> =>
               /\ Placed(run_config(o), screen.waterfall)
               /\ \A known : Reaches(metric_batch(o, known), run_config(o), ShownOf(o), known)
               /\ o.dual = screen.dual
<1> DEFINE overlay == overlay_from(screen)
           o == overlay[1]
           right == IF screen.dual THEN area_from(screen.right) ELSE NoArea
           left == area_from(screen.left)
           it == [left |-> left, right |-> right, dual |-> screen.dual, waterfall |-> screen.waterfall]
<1> SUFFICES ASSUME overlay # <<>>
             PROVE  /\ Placed(run_config(o), screen.waterfall)
                    /\ \A known : Reaches(metric_batch(o, known), run_config(o), ShownOf(o), known)
                    /\ o.dual = screen.dual
  OBVIOUS
<1>1. screen.left \in AnyHalf /\ screen.right \in AnyHalf
      /\ screen.dual \in BOOLEAN /\ screen.waterfall \in BOOLEAN
  BY DEF AnyScreen
<1>2. left \in Area /\ Len(left.metrics) <= 3
  BY <1>1, AreaOf
<1>3. NoArea \in Area /\ Len(NoArea.metrics) <= 3
  <2>1. /\ NoArea = [metrics |-> <<>>, badges |-> <<>>, bottom |-> FALSE]
        /\ <<>> \in Seq(Names) /\ <<>> \in Seq({"CPU Badge", "GPU Badge"}) /\ Len(<<>>) <= 3
    BY DEF NoArea
  <2> QED BY <2>1 DEF Area
<1>4. right \in Area /\ Len(right.metrics) <= 3
  <2>1. CASE screen.dual
    BY <1>1, <2>1, AreaOf
  <2>2. CASE ~screen.dual
    BY <1>3, <2>2
  <2> QED BY <1>1, <2>1, <2>2
<1>5. overlay = <<>> \/ overlay = <<it>>
  BY DEF overlay_from
<1> HIDE DEF left, right, overlay
<1>6. o = it
  BY <1>5
<1>7. it \in AnyOverlay /\ it.left = left /\ it.right = right
      /\ it.waterfall = screen.waterfall /\ it.dual = screen.dual
  BY <1>1, <1>2, <1>4 DEF AnyOverlay
<1> HIDE DEF it, o
<1>8. Placed(run_config(it), it.waterfall)
  BY <1>7, LayoutPlaced
<1>9. \A known : Reaches(metric_batch(it, known), run_config(it), ShownOf(it), known)
  <2> TAKE known
  <2>1. Len(it.left.metrics) <= 3 /\ Len(it.right.metrics) <= 3
    BY <1>2, <1>4, <1>7
  <2> QED BY <1>7, <2>1, BatchReaches
<1> QED BY <1>6, <1>7, <1>8, <1>9 DEF o, overlay

\* What the run looks at is an instance.
LEMMA ScreenShows ==
  ASSUME NEW screen \in AnyScreen
  PROVE  OverlayShows(screen)
<1> DEFINE overlay == overlay_from(screen)
           o == overlay[1]
           halves == IF screen.dual THEN <<o.left, o.right>> ELSE <<o.left>>
<1> SUFFICES ASSUME overlay # <<>>
             PROVE  /\ Placed(run_config(o), screen.waterfall)
                    /\ \A known \in {{}, {"CPU Temperature"}, ToSet(Catalog)} :
                         Reaches(metric_batch(o, known), run_config(o),
                                 [h \in DOMAIN halves |-> halves[h].metrics], known)
  BY DEF OverlayShows
<1>1. /\ Placed(run_config(o), screen.waterfall)
      /\ \A known : Reaches(metric_batch(o, known), run_config(o), ShownOf(o), known)
      /\ o.dual = screen.dual
  BY OverlayReached
<1> HIDE DEF o, overlay
<1>2. ShownOf(o) = [h \in DOMAIN halves |-> halves[h].metrics]
  BY <1>1 DEF ShownOf, HalvesOf
<1> QED BY <1>1, <1>2

\* The lists of the run are lists that may be saved.
LEMMA ListsAre ==
  /\ \A l \in LabelLists : l \in Seq(LABELS) /\ Len(l) <= MAX_LABELS
  /\ \A l \in Rights : l \in Seq(LABELS) /\ Len(l) <= MAX_LABELS
  /\ \A b \in Badges : b \in Seq({"CPU Badge", "GPU Badge"})
  /\ <<>> \in Seq(LABELS)
<1>1. /\ "CPU Temperature" \in LABELS /\ "Memory Utilization" \in LABELS
      /\ "Date&Time" \in LABELS /\ "CPU Voltage" \in LABELS
  <2>1. /\ Catalog[1] = "CPU Temperature" /\ Catalog[11] = "Date&Time"
        /\ 1 \in DOMAIN Catalog /\ 11 \in DOMAIN Catalog
    BY CatalogIs DEF Catalog
  <2> QED BY <2>1 DEF LABELS, ToSet
<1> DEFINE cpu == "CPU Temperature"
           memory == "Memory Utilization"
           clock == "Date&Time"
           volt == "CPU Voltage"
<1> HIDE DEF cpu, memory, clock, volt
<1>2. /\ cpu \in LABELS /\ memory \in LABELS /\ clock \in LABELS /\ volt \in LABELS
  BY <1>1 DEF cpu, memory, clock, volt
<1>3. /\ <<>> \in Seq(LABELS) /\ <<cpu>> \in Seq(LABELS) /\ <<memory, clock>> \in Seq(LABELS)
      /\ <<clock, cpu, memory>> \in Seq(LABELS) /\ <<volt>> \in Seq(LABELS)
      /\ Len(<<>>) <= 3 /\ Len(<<cpu>>) <= 3 /\ Len(<<memory, clock>>) <= 3
      /\ Len(<<clock, cpu, memory>>) <= 3 /\ Len(<<volt>>) <= 3
  BY <1>2
<1>4. \A l \in Rights : l \in Seq(LABELS) /\ Len(l) <= MAX_LABELS
  BY <1>3 DEF Rights, MAX_LABELS, cpu, memory, clock, volt
<1>5. ASSUME NEW l \in LabelLists PROVE l \in Seq(LABELS) /\ Len(l) <= MAX_LABELS
  <2>1. CASE l = <<"CPU Voltage">>
    BY <1>3, <2>1 DEF volt, MAX_LABELS
  <2>2. CASE l \in SeqsUpTo(Labels, 3) /\ parse_labels(l)
    <3>1. PICK k \in 0..3 : l \in [1..k -> Labels]
      BY <2>2 DEF SeqsUpTo
    <3>2. ToSet(l) \subseteq LABELS /\ Len(l) <= MAX_LABELS
      BY <2>2 DEF parse_labels
    <3>3. k \in Nat /\ DOMAIN l = 1..k /\ l = [i \in 1..k |-> l[i]]
      BY <3>1
    <3>4. \A i \in 1..k : l[i] \in LABELS
      BY <3>2, <3>3 DEF ToSet
    <3>5. l \in Seq(LABELS)
      BY <3>3, <3>4
    <3> QED BY <3>2, <3>5
  <2> QED BY <2>1, <2>2 DEF LabelLists
<1> DEFINE all == {"CPU Badge", "GPU Badge"}
           c == "CPU Badge"
           g == "GPU Badge"
<1>6. c \in all /\ g \in all
  OBVIOUS
<1> HIDE DEF all, c, g
<1>7. <<>> \in Seq(all) /\ <<c>> \in Seq(all) /\ <<g, c>> \in Seq(all)
  BY <1>6
<1>8. \A b \in Badges : b \in Seq(all)
  BY <1>7 DEF Badges, c, g
<1> QED BY <1>3, <1>4, <1>5, <1>8 DEF all

\* So are its halves.
LEMMA HalvesAre ==
  /\ Half(LabelLists, Badges, BOOLEAN) \in SUBSET AnyHalf
  /\ Half(LabelLists, Badges, {FALSE}) \in SUBSET AnyHalf
  /\ Half(Rights, Badges, {FALSE}) \in SUBSET AnyHalf
  /\ Half({<<>>}, {<<>>}, {TRUE}) \in SUBSET AnyHalf
<1> DEFINE lists == {l \in Seq(LABELS) : Len(l) <= MAX_LABELS}
           badges == Seq({"CPU Badge", "GPU Badge"})
<1>1. \A l : l \in Seq(LABELS) /\ Len(l) <= MAX_LABELS => l \in lists
  OBVIOUS
<1>2. \A b \in Badges : b \in badges
  BY ListsAre
<1>3. <<>> \in lists /\ <<>> \in badges
  BY <1>1 DEF MAX_LABELS
<1> HIDE DEF lists, badges
<1>4. LabelLists \in SUBSET lists /\ Rights \in SUBSET lists
  BY <1>1, ListsAre
<1>5. AnyHalf = [labels : lists, badges : badges, bottom : BOOLEAN]
  BY DEF AnyHalf, lists, badges
<1> QED BY <1>2, <1>3, <1>4, <1>5 DEF Half

\* And its screens.
LEMMA ScreensAre ==
  ASSUME NEW screen \in Screens
  PROVE  screen \in AnyScreen
BY HalvesAre DEF Screens, AnyScreen

-----------------------------------------------------------------------------
(* The calendar.                                                           *)

\* What a quotient and a remainder are.
LEMMA Quotient ==
  ASSUME NEW a \in Int, NEW b \in Nat \ {0}
  PROVE  /\ a \div b \in Int /\ a % b \in Nat /\ a % b < b
         /\ a = b * (a \div b) + (a % b)
         /\ a \in Nat => a \div b \in Nat
BY SMT

\* A year of an era, by its century, its four years and its place in them.
YearOf(doe) == (doe - doe \div 1460 + doe \div 36524 - doe \div 146096) \div 365
InEra(c, q, t, u) ==
  /\ c \in Nat /\ c <= 3 /\ q \in Nat /\ q <= 24 /\ t \in Nat /\ t <= 3 /\ u \in Nat /\ u <= 365
  /\ u = 365 => t = 3 /\ (q = 24 => c = 3)
DayOf(c, q, t, u) == 36524 * c + 1461 * q + 365 * t + u

\* Every day of an era is a day of a year of it.
LEMMA DayOfEra ==
  ASSUME NEW doe \in Nat, doe <= 146096
  PROVE  \E c, q, t, u : InEra(c, q, t, u) /\ doe = DayOf(c, q, t, u)
<1> DEFINE c == IF doe = 146096 THEN 3 ELSE doe \div 36524
           r == doe - 36524 * c
           q == r \div 1461
           s == r % 1461
           t == IF s = 1460 THEN 3 ELSE s \div 365
           u == s - 365 * t
<1>1. c \in Nat /\ c <= 3 /\ r \in Nat /\ r <= 36524 /\ (r = 36524 => c = 3)
  BY Quotient, SMT
<1>a. doe = 36524 * c + r
  BY <1>1, SMT
<1> HIDE DEF c, r
<1>2. /\ q \in Nat /\ q <= 24 /\ s \in Nat /\ s <= 1460 /\ r = 1461 * q + s
      /\ s = 1460 /\ q = 24 => r = 36524
  BY <1>1, SMT
<1> HIDE DEF q, s
<1>3. t \in Nat /\ t <= 3 /\ u \in Nat /\ u <= 365 /\ (u = 365 => t = 3 /\ s = 1460) /\ s = 365 * t + u
  BY <1>2, SMT
<1> HIDE DEF t, u
<1>4. doe = DayOf(c, q, t, u)
  BY <1>a, <1>1, <1>2, <1>3, SMT DEF DayOf
<1>5. InEra(c, q, t, u)
  BY <1>1, <1>2, <1>3, SMT DEF InEra
<1> HIDE DEF c, r, q, s, t, u
<1> QED BY <1>4, <1>5

\* The year that the formula finds.
LEMMA YearFound ==
  ASSUME NEW c, NEW q, NEW t, NEW u, InEra(c, q, t, u)
  PROVE  YearOf(DayOf(c, q, t, u)) = 100 * c + 4 * q + t
<1> DEFINE doe == 36524 * c + 1461 * q + 365 * t + u
           k == 24 * c + q + 365 * t + u
           last == u = 365 /\ c = 3 /\ q = 24
<1> USE DEF InEra
<1>1. doe \div 36524 = IF last THEN 4 ELSE c
  BY SMT
<1>2. doe \div 146096 = IF last THEN 1 ELSE 0
  BY SMT
<1>3. doe \div 1460 = 25 * c + q + (IF k >= 1460 THEN 1 ELSE 0)
  BY SMT
<1>4. doe = DayOf(c, q, t, u)
  BY DEF DayOf
<1>5. (doe - doe \div 1460 + doe \div 36524 - doe \div 146096) \div 365 = 100 * c + 4 * q + t
  BY <1>1, <1>2, <1>3, SMT
<1>6. YearOf(doe) = 100 * c + 4 * q + t
  BY <1>5 DEF YearOf
<1> QED BY <1>4, <1>6

\* The date of a day of a year that begins in March, by its months.
Before(mp) == (153 * mp + 2) \div 5
DateIn(y, mp, doy) ==
  [year |-> IF mp >= 10 THEN y + 1 ELSE y, month |-> IF mp < 10 THEN mp + 3 ELSE mp - 9,
   day |-> doy - Before(mp) + 1]
Date(y, doy) == DateIn(y, (5 * doy + 2) \div 153, doy)
InMonth(mp, doy) == mp \in 0..11 /\ doy \in Nat /\ doy <= 365 /\ Before(mp) <= doy /\ doy < Before(mp + 1)

\* A day of a year is one of a month.
LEMMA MonthFound ==
  ASSUME NEW doy \in Nat, doy <= 365
  PROVE  \E mp : InMonth(mp, doy) /\ \A y : Date(y, doy) = DateIn(y, mp, doy)
<1> DEFINE mp == (5 * doy + 2) \div 153
<1>1. mp \in Nat /\ mp <= 11 /\ Before(mp) <= doy /\ doy < Before(mp + 1)
  BY SMT DEF Before
<1>2. InMonth(mp, doy)
  BY <1>1 DEF InMonth
<1> QED
  BY <1>2 DEF Date

\* The months, but for the end of February.
MonthDays(mp) == IF mp \in {1, 3, 6, 8} THEN 30 ELSE 31

\* Where the months begin.
LEMMA Months ==
  /\ \A mp \in 0..10 : Before(mp + 1) = Before(mp) + MonthDays(mp)
  /\ \A mp \in 0..11 : Before(mp) \in Nat
  /\ Before(0) = 0 /\ Before(11) = 337 /\ Before(12) = 367
BY SMT DEF Before, MonthDays

\* How long the month of a date is.
LEMMA DateMonth ==
  ASSUME NEW y \in Int, NEW mp, NEW doy, InMonth(mp, doy)
  PROVE  MonthLength(DateIn(y, mp, doy))
           = IF mp = 11 THEN IF Leap(y + 1) THEN 29 ELSE 28 ELSE MonthDays(mp)
<1> DEFINE date == DateIn(y, mp, doy)
<1>1. mp \in 0..11
  BY DEF InMonth
<1>2. date.month = (IF mp < 10 THEN mp + 3 ELSE mp - 9) /\ date.year = (IF mp >= 10 THEN y + 1 ELSE y)
  BY DEF DateIn
<1> HIDE DEF date
<1> SUFFICES MonthLength(date) = IF mp = 11 THEN IF Leap(y + 1) THEN 29 ELSE 28 ELSE MonthDays(mp)
  BY DEF date
<1>3. CASE mp = 11
  BY <1>2, <1>3 DEF MonthLength
<1>4. CASE mp # 11
  <2>1. mp \in 0..10 /\ date.month # 2 /\ (date.month \in {4, 6, 9, 11} <=> mp \in {1, 3, 6, 8})
    BY <1>1, <1>2, <1>4
  <2> QED BY <1>4, <2>1 DEF MonthLength, MonthDays
<1> QED BY <1>3, <1>4

\* The next day of the same year, and the first of the next.
LEMMA SameYear ==
  ASSUME NEW y \in Int, NEW doy \in Nat, doy < 364 \/ (doy = 364 /\ Leap(y + 1))
  PROVE  Date(y, doy + 1) = Tomorrow(Date(y, doy))
<1>1. PICK mp : InMonth(mp, doy) /\ Date(y, doy) = DateIn(y, mp, doy)
  BY MonthFound
<1>2. PICK mq : InMonth(mq, doy + 1) /\ Date(y, doy + 1) = DateIn(y, mq, doy + 1)
  BY MonthFound
<1> DEFINE date == DateIn(y, mp, doy)
<1>3. MonthLength(date) = IF mp = 11 THEN IF Leap(y + 1) THEN 29 ELSE 28 ELSE MonthDays(mp)
  BY <1>1, DateMonth
<1>4. /\ date = [year |-> IF mp >= 10 THEN y + 1 ELSE y, month |-> IF mp < 10 THEN mp + 3 ELSE mp - 9,
                day |-> doy - Before(mp) + 1]
      /\ mp \in 0..11 /\ Before(mp) \in Nat /\ mq \in 0..11
  BY <1>1, <1>2, Months DEF DateIn, InMonth
<1>5. CASE doy + 1 < Before(mp + 1)
  <2>1. mq = mp
    BY <1>1, <1>2, <1>5, SMT DEF InMonth, Before
  <2>2. date.day < MonthLength(date)
    <3>1. CASE mp = 11
      BY <1>3, <1>4, <3>1, Months
    <3>2. CASE mp # 11
      <4>1. mp \in 0..10 /\ MonthDays(mp) \in Nat
        BY <1>4, <3>2 DEF MonthDays
      <4>2. Before(mp + 1) = Before(mp) + MonthDays(mp)
        BY <4>1, Months
      <4> QED BY <1>3, <1>4, <1>5, <3>2, <4>1, <4>2
    <3> QED BY <3>1, <3>2
  <2>3. Tomorrow(date) = On(date.year, date.month, date.day + 1)
    BY <2>2 DEF Tomorrow
  <2>4. DateIn(y, mp, doy + 1) = On(date.year, date.month, date.day + 1)
    BY <1>4 DEF DateIn, On
  <2> QED BY <1>1, <1>2, <2>1, <2>3, <2>4
<1>6. CASE ~(doy + 1 < Before(mp + 1))
  <2>1. mp \in 0..10 /\ Before(mp + 1) \in Nat /\ Before(mp + 1) = doy + 1
    <3>1. doy < Before(mp + 1) /\ doy <= 365
      BY <1>1 DEF InMonth
    <3>2. mp # 11
      <4>1. Before(11 + 1) = 367
        BY Months
      <4> QED BY <1>6, <3>1, <4>1
    <3>3. mp \in 0..10 /\ mp + 1 \in 0..11
      BY <1>4, <3>2
    <3>4. Before(mp + 1) \in Nat
      BY <3>3, Months
    <3> QED BY <1>6, <3>1, <3>3, <3>4
  <2>2. mq = mp + 1
    BY <1>2, <2>1, SMT DEF InMonth, Before
  <2>3. ~(date.day < MonthLength(date))
    BY <1>3, <1>4, <2>1, Months DEF MonthDays
  <2>4. DateIn(y, mq, doy + 1) = Tomorrow(date)
    <3>1. CASE mp = 9
      BY <1>4, <2>1, <2>2, <2>3, <3>1 DEF DateIn, Tomorrow, On
    <3>2. CASE mp # 9
      BY <1>4, <2>1, <2>2, <2>3, <3>2 DEF DateIn, Tomorrow, On
    <3> QED BY <3>1, <3>2
  <2> QED BY <1>1, <1>2, <2>4
<1> QED BY <1>5, <1>6

\* The day after the last of February is the first of March.
LEMMA NextYear ==
  ASSUME NEW y \in Int, NEW doy \in Nat, IF Leap(y + 1) THEN doy = 365 ELSE doy = 364
  PROVE  Date(y + 1, 0) = Tomorrow(Date(y, doy))
<1>1. (5 * doy + 2) \div 153 = 11 /\ (5 * 0 + 2) \div 153 = 0
  BY SMT
<1> DEFINE date == DateIn(y, 11, doy)
<1>2. date = [year |-> y + 1, month |-> 2, day |-> doy - 337 + 1]
  BY Months DEF DateIn
<1>3. MonthLength(date) = IF Leap(y + 1) THEN 29 ELSE 28
  BY <1>2 DEF MonthLength
<1>4. Tomorrow(date) = [year |-> y + 1, month |-> 3, day |-> 1]
  BY <1>2, <1>3 DEF Tomorrow, On
<1>5. DateIn(y + 1, 0, 0) = [year |-> y + 1, month |-> 3, day |-> 1]
  BY Months DEF DateIn
<1> QED BY <1>1, <1>4, <1>5 DEF Date

\* A long year ends with a leap day.
LEMMA LongYear ==
  ASSUME NEW era \in Int, NEW c, NEW q, NEW t, NEW u, InEra(c, q, t, u)
  PROVE  Leap(400 * era + 100 * c + 4 * q + t + 1) <=> (t = 3 /\ (q = 24 => c = 3))
BY SMT DEF InEra, Leap

\* A day, by its era and its place in it (DayFound: every day is one).
IsDay(days, era, c, q, t, u) ==
  era \in Int /\ InEra(c, q, t, u) /\ days + 719468 = 146097 * era + DayOf(c, q, t, u)

\* The date of a day is that of its place in its year, from March on.
LEMMA DateFound ==
  ASSUME NEW days \in Int, NEW era, NEW c, NEW q, NEW t, NEW u, IsDay(days, era, c, q, t, u)
  PROVE  civil_from_days(days) = Date(400 * era + 100 * c + 4 * q + t, u)
<1> DEFINE place == (days + 719468) % 146097
           year == 100 * c + 4 * q + t
           march == year + era * 400
           passed == (5 * u + 2) \div 153
           civil == [year |-> IF (IF passed < 10 THEN passed + 3 ELSE passed - 9) <= 2
                              THEN march + 1 ELSE march,
                     month |-> IF passed < 10 THEN passed + 3 ELSE passed - 9,
                     day |-> u - (153 * passed + 2) \div 5 + 1]
<1> USE DEF IsDay
<1>1. DayOf(c, q, t, u) \in Nat /\ DayOf(c, q, t, u) <= 146096
  BY SMT DEF DayOf, InEra
<1>2. (days + 719468) \div 146097 = era /\ place = DayOf(c, q, t, u)
  BY <1>1, SMT
<1>3. YearOf(place) = year
  BY <1>2, YearFound
<1>4. year \div 4 = 25 * c + q /\ year \div 100 = c
  BY SMT DEF InEra
<1>5. place - (365 * year + year \div 4 - year \div 100) = u
  BY <1>2, <1>4, SMT DEF DayOf, InEra
<1>7. passed \in Nat /\ passed <= 11 /\ march = 400 * era + 100 * c + 4 * q + t
  BY SMT DEF InEra
<1> HIDE DEF place, year
<1>6. civil_from_days(days) = civil
  BY <1>2, <1>3, <1>5, <1>7, SMT DEF civil_from_days, YearOf, place, year, InEra
<1> HIDE DEF passed, march
<1>8. /\ (IF passed < 10 THEN passed + 3 ELSE passed - 9) <= 2 <=> passed >= 10
      /\ u - (153 * passed + 2) \div 5 + 1 = u - Before(passed) + 1
  BY <1>7, SMT DEF Before
<1>9. civil = DateIn(march, passed, u)
  BY <1>8 DEF DateIn
<1> QED
  BY <1>6, <1>7, <1>9 DEF Date, passed

\* Every day has its place in an era.
LEMMA DayFound ==
  ASSUME NEW days \in Int
  PROVE  \E era, c, q, t, u : IsDay(days, era, c, q, t, u)
<1> DEFINE z == days + 719468
           era == z \div 146097
           e == z % 146097
<1>1. era \in Int /\ e \in Nat /\ e <= 146096 /\ z = 146097 * era + e
  BY SMT
<1> HIDE DEF era, e
<1>2. PICK c, q, t, u : InEra(c, q, t, u) /\ e = DayOf(c, q, t, u)
  BY <1>1, DayOfEra, SMT
<1>3. IsDay(days, era, c, q, t, u)
  BY <1>1, <1>2, SMT DEF IsDay
<1> QED BY <1>3

\* civil_from_days starts with the epoch, and gives a day after another the
\* next date.
THEOREM Calendar ==
  /\ civil_from_days(0) = On(1970, 1, 1)
  /\ \A day \in Int : civil_from_days(day + 1) = Tomorrow(civil_from_days(day))
<1>1. civil_from_days(0) = On(1970, 1, 1)
  <2>1. IsDay(0, 4, 3, 17, 1, 306)
    BY SMT DEF IsDay, InEra, DayOf
  <2>2. civil_from_days(0) = Date(400 * 4 + 100 * 3 + 4 * 17 + 1, 306)
    BY <2>1, DateFound, SMT
  <2>3. (5 * 306 + 2) \div 153 = 10 /\ Before(10) = 306
    BY SMT DEF Before
  <2> QED BY <2>2, <2>3, SMT DEF Date, DateIn, On
<1>2. ASSUME NEW day \in Int
      PROVE  civil_from_days(day + 1) = Tomorrow(civil_from_days(day))
  <2>1. PICK era, c, q, t, u : IsDay(day, era, c, q, t, u)
    BY DayFound
  <2>a. InEra(c, q, t, u) /\ era \in Int
    BY <2>1 DEF IsDay
  <2> DEFINE y == 400 * era + 100 * c + 4 * q + t
  <2>2. civil_from_days(day) = Date(y, u) /\ y \in Int /\ u \in Nat
    BY <2>1, <2>a, DateFound, SMT DEF InEra
  <2>3. Leap(y + 1) <=> (t = 3 /\ (q = 24 => c = 3))
    BY <2>a, LongYear, SMT
  <2>4. CASE u < 364 \/ (u = 364 /\ Leap(y + 1))
    <3>1. IsDay(day + 1, era, c, q, t, u + 1)
      BY <2>1, <2>3, <2>4, SMT DEF IsDay, InEra, DayOf
    <3>2. civil_from_days(day + 1) = Date(y, u + 1)
      BY <3>1, DateFound, SMT
    <3> HIDE DEF y
    <3> QED BY <2>2, <2>4, <3>2, SameYear, SMT
  <2>5. CASE ~(u < 364 \/ (u = 364 /\ Leap(y + 1)))
    <3>1. IF Leap(y + 1) THEN u = 365 ELSE u = 364
      <4>1. u \in Nat /\ u <= 365 /\ (u = 365 => Leap(y + 1))
        BY <2>a, <2>3 DEF InEra
      <4>2. ~(u < 364) /\ ~(u = 364 /\ Leap(y + 1))
        BY <2>5, Zenon
      <4> HIDE DEF y
      <4> QED BY <4>1, <4>2
    <3>2. civil_from_days(day + 1) = Date(y + 1, 0)
      <4>1. CASE t < 3
        <5>1. IsDay(day + 1, era, c, q, t + 1, 0)
          BY <2>1, <2>3, <3>1, <4>1, SMT DEF IsDay, InEra, DayOf
        <5>2. y + 1 = 400 * era + 100 * c + 4 * q + (t + 1)
          BY <2>a, SMT DEF InEra
        <5> QED BY <5>1, <5>2, DateFound, SMT
      <4>2. CASE t = 3 /\ q < 24
        <5>1. IsDay(day + 1, era, c, q + 1, 0, 0)
          BY <2>1, <2>3, <3>1, <4>2, SMT DEF IsDay, InEra, DayOf
        <5>2. y + 1 = 400 * era + 100 * c + 4 * (q + 1) + 0
          BY <2>a, <4>2, SMT DEF InEra
        <5> QED BY <5>1, <5>2, DateFound, SMT
      <4>3. CASE t = 3 /\ q = 24 /\ c < 3
        <5>1. IsDay(day + 1, era, c + 1, 0, 0, 0)
          BY <2>1, <2>3, <3>1, <4>3, SMT DEF IsDay, InEra, DayOf
        <5>2. y + 1 = 400 * era + 100 * (c + 1) + 4 * 0 + 0
          BY <2>a, <4>3, SMT DEF InEra
        <5> QED BY <5>1, <5>2, DateFound, SMT
      <4>4. CASE t = 3 /\ q = 24 /\ c = 3
        <5>1. IsDay(day + 1, era + 1, 0, 0, 0, 0)
          BY <2>1, <2>3, <3>1, <4>4, SMT DEF IsDay, InEra, DayOf
        <5>2. y + 1 = 400 * (era + 1) + 100 * 0 + 4 * 0 + 0
          BY <2>a, <4>4, SMT DEF InEra
        <5> QED BY <5>1, <5>2, DateFound, SMT
      <4> QED BY <2>a, <4>1, <4>2, <4>3, <4>4, SMT DEF InEra
    <3> HIDE DEF y
    <3> QED BY <2>2, <3>1, <3>2, NextYear, SMT
  <2> QED BY <2>4, <2>5
<1> QED BY <1>1, <1>2

-----------------------------------------------------------------------------
(* What the run chooses.                                                   *)

\* The days of the run are days.
LEMMA DaysAre ==
  ASSUME NEW i \in DateInputs
  PROVE  i.kind = "date" /\ i.day \in Int
<1> DEFINE a == 3000
           b == 47000
           c == 47600
<1>1. a \in Int /\ b \in Int /\ c \in Int
  BY SMT
<1>2. DateInputs = [kind : {"date"}, day : (0..a) \cup (b..c)]
  BY SMT DEF DateInputs
<1> HIDE DEF a, b, c
<1> QED BY <1>1, <1>2

(* What a run chooses to look at. *)
Chosen ==
  \/ input = Unused \/ input \in LegacyInputs \/ input \in KanaliInputs
  \/ input \in OverlayInputs \/ input \in DateInputs

\* Whatever screen or day the run checks, what is pushed is shown, and the date
\* is the next: each input is an instance of the two theorems.
THEOREM EveryValueArrives == MCSpec => []ValuesArrive
<1>1. MCInit => Chosen
  BY DEF MCInit, Chosen
<1>2. Chosen /\ [MCNext]_<<vars, input>> => Chosen'
  <2>1. [MCNext]_<<vars, input>> => input' = input
    BY DEF MCNext
  <2> QED BY <2>1 DEF Chosen
<1>3. Chosen => ValuesArrive
  <2> SUFFICES ASSUME Chosen PROVE ValuesArrive
    OBVIOUS
  <2>1. CASE input \in OverlayInputs
    <3>1. input.kind = "overlay" /\ input.screen \in Screens
      BY <2>1 DEF OverlayInputs
    <3> QED BY <3>1, ScreensAre, ScreenShows DEF ValuesArrive
  <2>2. CASE input \in DateInputs
    <3>1. input.kind = "date" /\ input.day \in Int
      BY <2>2, DaysAre
    <3> QED BY <3>1, Calendar DEF ValuesArrive
  <2>3. CASE input = Unused \/ input \in LegacyInputs \/ input \in KanaliInputs
    <3>1. input.kind # "overlay" /\ input.kind # "date"
      BY <2>3 DEF Unused, LegacyInputs, KanaliInputs
    <3> QED BY <3>1 DEF ValuesArrive
  <2> QED BY <2>1, <2>2, <2>3 DEF Chosen
<1> QED BY <1>1, <1>2, <1>3, PTL DEF MCSpec

-----------------------------------------------------------------------------
(* The serial link of the original firmware.                               *)

USE SerialConstants

Piece == [marker : BOOLEAN, of : Nat]

\* A call, with what is left of its requests.
CallOK(c) ==
  /\ c \in [kind : DOMAIN Requests, left : Seq({"wait", "send"}),
            state : {"running", "ok", "silent", "failed"}, clean : BOOLEAN]
  /\ \E k \in 0..Len(Requests[c.kind]) :
       c.left = SubSeq(Requests[c.kind], k + 1, Len(Requests[c.kind]))
  /\ c.state = "running" => c.left # <<>>

Types ==
  /\ CallOK(call)
  /\ phase \in {"idle", "draining", "reading"}
  /\ phase # "idle" => Running
  /\ sequence \in 0..MaxRequests
  /\ inbox \in Seq(Nat)
  /\ coming \in Seq(Piece) /\ line \in Seq(Piece) /\ buffer \in Seq(Piece)

\* The frame with which the display answers n is on its way: i pieces of it
\* were read, j have arrived.
Split(n, i, j) ==
  /\ buffer = SubSeq(Frame(n), 1, i)
  /\ line = SubSeq(Frame(n), i + 1, j)
  /\ coming = SubSeq(Frame(n), j + 1, 3)

OneFrame(n) == \E i \in 0..3 : \E j \in i..3 : Split(n, i, j)

Silence == buffer = <<>> /\ line = <<>> /\ coming = <<>>

\* A clean call that waits for its replies: nothing is owed between requests,
\* nothing of the past is left when one is written, and all that comes after
\* it is the answer to it.
Waits == call.kind \in Confirmed /\ call.clean

Clean ==
  Waits =>
    /\ Running /\ phase = "idle" => inbox = <<>> /\ coming = <<>>
    /\ phase = "draining" => inbox = <<>> /\ coming = <<>> /\ line = <<>>
    /\ phase = "reading" =>
         \/ inbox = <<sequence>> /\ Silence
         \/ inbox = <<>> /\ (Silence \/ OneFrame(sequence))
    /\ call.state = "ok" => inbox = <<>>

Inv == Types /\ Clean

-----------------------------------------------------------------------------
(* Requests and frames.                                                    *)

LEMMA RequestsType ==
  ASSUME NEW kind \in DOMAIN Requests
  PROVE  /\ Requests[kind] \in Seq({"wait", "send"})
         /\ Len(Requests[kind]) \in Nat \ {0}
         /\ kind \in Confirmed =>
              \A i \in 1..Len(Requests[kind]) : Requests[kind][i] = "wait"
<1>1. DOMAIN Requests = {"request", "screen", "sysinfo", "apply"}
  BY DEF Requests
<1>2. CASE kind = "request"
  BY <1>2 DEF Requests
<1>3. CASE kind = "screen"
  BY <1>3 DEF Requests
<1>4. CASE kind = "sysinfo"
  BY <1>4 DEF Requests, Confirmed
<1>5. CASE kind = "apply"
  BY <1>5 DEF Requests, Confirmed
<1> QED
  BY <1>1, <1>2, <1>3, <1>4, <1>5

LEMMA FrameType ==
  ASSUME NEW n \in Nat
  PROVE  /\ Frame(n) \in Seq(Piece)
         /\ Len(Frame(n)) = 3
         /\ Frame(n)[1] = Marker /\ Frame(n)[2] = Text(n) /\ Frame(n)[3] = Marker
         /\ SubSeq(Frame(n), 4, 3) = <<>>
  BY DEF Frame, Marker, Text, Piece

\* A part of a frame, in the order in which it comes.
LEMMA Part ==
  ASSUME NEW n \in Nat, NEW i \in 0..3, NEW j \in i..3
  PROVE  /\ SubSeq(Frame(n), i + 1, j) \in Seq(Piece)
         /\ Len(SubSeq(Frame(n), i + 1, j)) = j - i
         /\ \A k \in 1..(j - i) : SubSeq(Frame(n), i + 1, j)[k] = Frame(n)[i + k]
  BY FrameType

\* The first pieces of a part are a part, and so are the others.
LEMMA PartOfPart ==
  ASSUME NEW n \in Nat, NEW i \in 0..3, NEW j \in i..3, NEW k \in 0..(j - i),
         NEW s, s = SubSeq(Frame(n), i + 1, j)
  PROVE  /\ SubSeq(s, 1, k) = SubSeq(Frame(n), i + 1, i + k)
         /\ SubSeq(s, k + 1, Len(s)) = SubSeq(Frame(n), i + k + 1, j)
<1>1. /\ s \in Seq(Piece) /\ Len(s) = j - i
      /\ \A l \in 1..(j - i) : s[l] = Frame(n)[i + l]
  BY Part
<1>2. i + k \in i..3 /\ i + k \in 0..3 /\ j \in (i + k)..3
  OBVIOUS
<1>3. SubSeq(s, 1, k) = SubSeq(Frame(n), i + 1, i + k)
  <2> DEFINE t == SubSeq(s, 1, k)
             u == SubSeq(Frame(n), i + 1, i + k)
  <2>1. t \in Seq(Piece) /\ Len(t) = k /\ \A l \in 1..k : t[l] = Frame(n)[i + l]
    <3>1. t \in Seq(Piece) /\ Len(t) = k /\ \A l \in 1..k : t[l] = s[l]
      BY <1>1
    <3> QED
      BY <1>1, <3>1
  <2>2. u \in Seq(Piece) /\ Len(u) = k /\ \A l \in 1..k : u[l] = Frame(n)[i + l]
    BY <1>2, Part
  <2> HIDE DEF t, u
  <2>3. t = u
    BY <2>1, <2>2, SeqEqual
  <2> QED
    BY <2>3 DEF t, u
<1>4. SubSeq(s, k + 1, Len(s)) = SubSeq(Frame(n), i + k + 1, j)
  <2> DEFINE t == SubSeq(s, k + 1, Len(s))
             u == SubSeq(Frame(n), i + k + 1, j)
  <2>1. /\ t \in Seq(Piece) /\ Len(t) = j - i - k
        /\ \A l \in 1..(j - i - k) : t[l] = Frame(n)[i + k + l]
    BY <1>1
  <2>2. /\ u \in Seq(Piece) /\ Len(u) = j - i - k
        /\ \A l \in 1..(j - i - k) : u[l] = Frame(n)[i + k + l]
    BY <1>2, Part
  <2> HIDE DEF t, u
  <2>3. t = u
    BY <2>1, <2>2, SeqEqual
  <2> QED
    BY <2>3 DEF t, u
<1> QED
  BY <1>3, <1>4

\* What was read and what is read next are what has been read.
LEMMA PartThenPart ==
  ASSUME NEW n \in Nat, NEW i \in 0..3, NEW j \in i..3, NEW k \in j..3
  PROVE  SubSeq(Frame(n), i + 1, j) \o SubSeq(Frame(n), j + 1, k)
           = SubSeq(Frame(n), i + 1, k)
<1> DEFINE s == SubSeq(Frame(n), i + 1, j)
           t == SubSeq(Frame(n), j + 1, k)
           u == SubSeq(Frame(n), i + 1, k)
<1>1. s \in Seq(Piece) /\ Len(s) = j - i /\ \A l \in 1..(j - i) : s[l] = Frame(n)[i + l]
  BY Part
<1>2. t \in Seq(Piece) /\ Len(t) = k - j /\ \A l \in 1..(k - j) : t[l] = Frame(n)[j + l]
  BY Part
<1>3. u \in Seq(Piece) /\ Len(u) = k - i /\ \A l \in 1..(k - i) : u[l] = Frame(n)[i + l]
  BY Part
<1> HIDE DEF s, t, u
<1>4. /\ s \o t \in Seq(Piece) /\ Len(s \o t) = k - i
      /\ \A l \in 1..(k - i) : (s \o t)[l] = IF l <= j - i THEN s[l] ELSE t[l - (j - i)]
  BY SMTT(30), <1>1, <1>2, ConcatProperties
<1>5. ASSUME NEW l \in 1..(k - i)
      PROVE  (s \o t)[l] = Frame(n)[i + l]
  <2>1. CASE l <= j - i
    BY <1>1, <1>4, <2>1
  <2>2. CASE ~(l <= j - i)
    <3>1. l - (j - i) \in 1..(k - j) /\ j + (l - (j - i)) = i + l
      BY <2>2
    <3> QED
      BY <1>2, <1>4, <2>2, <3>1
  <2> QED
    BY <2>1, <2>2
<1>6. s \o t = u
  BY <1>3, <1>4, <1>5, SeqEqual
<1> QED
  BY <1>6 DEF s, t, u

\* Only the whole of a frame has a frame in it.
LEMMA WholeFrame ==
  ASSUME NEW n \in Nat, NEW i \in 0..3, HasFrame(SubSeq(Frame(n), 1, i))
  PROVE  i = 3
<1> DEFINE s == SubSeq(Frame(n), 1, i)
<1>1. s \in Seq(Piece) /\ Len(s) = i /\ \A l \in 1..i : s[l] = Frame(n)[l]
  BY FrameType
<1> HIDE DEF s
<1>2. PICK a, b \in Markers(s) : a < b
  BY DEF HasFrame, s
<1>3. a \in 1..i /\ b \in 1..i /\ Frame(n)[a].marker /\ Frame(n)[b].marker
  BY <1>1, <1>2 DEF Markers
<1>4. Frame(n)[2].marker = FALSE
  BY DEF Frame, Text
<1> QED
  BY <1>2, <1>3, <1>4

-----------------------------------------------------------------------------
(* Calls.                                                                  *)

\* What is left of a call is the end of its requests; without the first it
\* still is.
LEMMA TailLeft ==
  ASSUME NEW r \in Seq({"wait", "send"}), NEW k \in 0..Len(r),
         NEW l, l = SubSeq(r, k + 1, Len(r)), l # <<>>
  PROVE  /\ l \in Seq({"wait", "send"}) /\ Len(l) \in Nat \ {0}
         /\ Head(l) = r[k + 1]
         /\ k + 1 \in 1..Len(r)
         /\ Tail(l) = SubSeq(r, k + 2, Len(r))
<1>1. CASE k = Len(r)
  BY <1>1
<1>2. CASE k < Len(r)
  <2>1. k + 1 \in 1..Len(r) /\ Len(r) \in (k + 1)..Len(r)
    BY <1>2
  <2>2. Head(l) = r[k + 1] /\ Tail(l) = SubSeq(r, k + 2, Len(r))
    <3> DEFINE m == k + 1
    <3>1. m \in 1..Len(r) /\ Len(r) \in m..Len(r) /\ m + 1 = k + 2 /\ l = SubSeq(r, m, Len(r))
      BY <2>1
    <3> HIDE DEF m
    <3>2. Head(SubSeq(r, m, Len(r))) = r[m] /\ Tail(SubSeq(r, m, Len(r))) = SubSeq(r, m + 1, Len(r))
      BY <3>1, HeadTailOfSubSeq
    <3> QED
      BY <3>1, <3>2 DEF m
  <2>3. l \in Seq({"wait", "send"}) /\ Len(l) = Len(r) - k
    BY <2>1
  <2>4. Len(l) \in Nat \ {0}
    BY <1>2, <2>3
  <2> QED
    BY <2>1, <2>2, <2>3, <2>4
<1> QED
  BY <1>1, <1>2

\* A call that waits for its replies sends nothing without waiting.
LEMMA NothingSent ==
  ASSUME CallOK(call), Running, call.kind \in Confirmed
  PROVE  Head(call.left) = "wait"
<1>1. PICK k \in 0..Len(Requests[call.kind]) :
        call.left = SubSeq(Requests[call.kind], k + 1, Len(Requests[call.kind]))
  BY DEF CallOK
<1>2. call.kind \in DOMAIN Requests /\ call.left # <<>>
  BY DEF CallOK, Running
<1>3. /\ Requests[call.kind] \in Seq({"wait", "send"})
      /\ \A i \in 1..Len(Requests[call.kind]) : Requests[call.kind][i] = "wait"
  BY <1>2, RequestsType
<1>4. Head(call.left) = Requests[call.kind][k + 1] /\ k + 1 \in 1..Len(Requests[call.kind])
  BY <1>1, <1>2, <1>3, TailLeft
<1> QED
  BY <1>3, <1>4

\* A call that returns, or goes on with its next request.
LEMMA ReturnedOK ==
  ASSUME CallOK(call), NEW state \in {"ok", "silent", "failed"}
  PROVE  /\ CallOK(Returned(state))
         /\ Returned(state).state = state
         /\ Returned(state).kind = call.kind /\ Returned(state).clean = call.clean
<1> DEFINE r == Requests[call.kind]
<1>1. /\ r \in Seq({"wait", "send"}) /\ Len(r) \in Nat
      /\ call.kind \in DOMAIN Requests
  BY RequestsType DEF CallOK
<1>2. SubSeq(r, Len(r) + 1, Len(r)) = <<>>
  BY <1>1, SubSeqEmpty
<1> DEFINE c == [call EXCEPT !.state = state]
           d == [c EXCEPT !.left = <<>>]
<1>3. /\ d \in [kind : DOMAIN Requests, left : Seq({"wait", "send"}),
                state : {"running", "ok", "silent", "failed"}, clean : BOOLEAN]
      /\ d.kind = call.kind /\ d.left = <<>> /\ d.state = state /\ d.clean = call.clean
  <2>1. /\ c \in [kind : DOMAIN Requests, left : Seq({"wait", "send"}),
                  state : {"running", "ok", "silent", "failed"}, clean : BOOLEAN]
        /\ c.kind = call.kind /\ c.state = state /\ c.clean = call.clean
    BY DEF CallOK
  <2> HIDE DEF c
  <2>2. <<>> \in Seq({"wait", "send"})
    OBVIOUS
  <2>3. d \in [kind : DOMAIN Requests, left : Seq({"wait", "send"}),
               state : {"running", "ok", "silent", "failed"}, clean : BOOLEAN]
    BY <2>1, <2>2
  <2>4. d.kind = call.kind /\ d.left = <<>> /\ d.state = state /\ d.clean = call.clean
    BY <2>1
  <2> QED
    BY <2>3, <2>4
<1>a. Returned(state) = d
  BY DEF Returned
<1>4. Len(r) \in 0..Len(r)
  BY <1>1
<1> HIDE DEF d, r
<1>5. \E k \in 0..Len(Requests[d.kind]) :
        d.left = SubSeq(Requests[d.kind], k + 1, Len(Requests[d.kind]))
  BY <1>2, <1>3, <1>4 DEF r
<1> QED
  BY <1>3, <1>5, <1>a DEF CallOK

LEMMA AnsweredOK ==
  ASSUME CallOK(call), Running
  PROVE  /\ CallOK(Answered)
         /\ Answered.state \in {"running", "ok"}
         /\ Answered.kind = call.kind /\ Answered.clean = call.clean
<1> DEFINE r == Requests[call.kind]
<1>1. PICK k \in 0..Len(r) : call.left = SubSeq(r, k + 1, Len(r))
  BY DEF CallOK
<1>2. call.kind \in DOMAIN Requests /\ call.left # <<>> /\ call.state = "running"
  BY DEF CallOK, Running
<1>3. r \in Seq({"wait", "send"}) /\ Len(r) \in Nat
  BY <1>2, RequestsType
<1>4. /\ call.left \in Seq({"wait", "send"}) /\ Len(call.left) \in Nat \ {0}
      /\ k + 1 \in 1..Len(r)
      /\ Tail(call.left) = SubSeq(r, (k + 1) + 1, Len(r))
  BY <1>1, <1>2, <1>3, TailLeft
<1>5. CASE Len(call.left) = 1
  BY <1>5, ReturnedOK DEF Answered
<1>6. CASE Len(call.left) # 1
  <2>1. Answered = [kind |-> call.kind, left |-> Tail(call.left), state |-> "running",
                    clean |-> call.clean]
    BY <1>2, <1>6 DEF Answered, CallOK
  <2>2. Tail(call.left) \in Seq({"wait", "send"}) /\ Tail(call.left) # <<>>
    <3>1. Tail(call.left) \in Seq({"wait", "send"})
      BY <1>2, <1>4
    <3>2. Len(Tail(call.left)) = Len(call.left) - 1
      BY <1>2, <1>4
    <3>3. Len(Tail(call.left)) # 0
      BY <1>4, <1>6, <3>2
    <3>4. Len(<<>>) = 0
      OBVIOUS
    <3>5. Tail(call.left) # <<>>
      BY <3>3, <3>4
    <3> QED
      BY <3>1, <3>5
  <2>3. k + 1 \in 0..Len(r)
    BY <1>4
  <2> HIDE DEF r
  <2>4. \E m \in 0..Len(r) : Tail(call.left) = SubSeq(r, m + 1, Len(r))
    BY <1>4, <2>3
  <2> QED
    BY <1>2, <2>1, <2>2, <2>4 DEF CallOK, r
<1> QED
  BY <1>5, <1>6

-----------------------------------------------------------------------------
(* Steps.                                                                  *)

LEMMA InitInv == Init => Inv
<1> SUFFICES ASSUME Init PROVE Inv
  OBVIOUS
<1>1. CallOK(call)
  <2>1. "request" \in DOMAIN Requests /\ Requests["request"] = <<"wait">>
    BY DEF Requests
  <2>2. call = [kind |-> "request", left |-> <<>>, state |-> "failed", clean |-> TRUE]
    BY DEF Init
  <2>3. SubSeq(<<"wait">>, 2, 1) = <<>> /\ Len(<<"wait">>) = 1
    OBVIOUS
  <2>4. \E k \in 0..Len(Requests[call.kind]) :
          call.left = SubSeq(Requests[call.kind], k + 1, Len(Requests[call.kind]))
    BY <2>1, <2>2, <2>3
  <2> QED
    BY <2>1, <2>2, <2>4 DEF CallOK
<1>2. /\ inbox = <<>> /\ coming = <<>> /\ line = <<>> /\ buffer = <<>>
      /\ phase = "idle" /\ sequence = 0 /\ call.state = "failed"
  BY DEF Init
<1> QED
  BY <1>1, <1>2 DEF Inv, Types, Clean, Running

LEMMA CallInv ==
  ASSUME Inv, Call
  PROVE  Inv'
<1>1. PICK kind \in DOMAIN Requests :
        call' = [kind |-> kind, left |-> Requests[kind], state |-> "running", clean |-> ~Owed]
  BY DEF Call
<1>2. /\ ~Running /\ phase = "idle"
      /\ UNCHANGED <<phase, sequence, inbox, coming, line, buffer>>
  BY DEF Call, Inv, Types
<1>3. CallOK(call')
  <2>1. /\ Requests[kind] \in Seq({"wait", "send"}) /\ Len(Requests[kind]) \in Nat \ {0}
        /\ Requests[kind] # <<>>
    BY RequestsType
  <2>2. SubSeq(Requests[kind], 0 + 1, Len(Requests[kind])) = Requests[kind]
    BY <2>1, SubSeqFull
  <2>3. \E k \in 0..Len(Requests[kind]) :
          Requests[kind] = SubSeq(Requests[kind], k + 1, Len(Requests[kind]))
    BY <2>1, <2>2
  <2>4. (~Owed) \in BOOLEAN
    OBVIOUS
  <2> QED
    BY <1>1, <2>1, <2>3, <2>4 DEF CallOK
<1>4. Types'
  BY <1>2, <1>3 DEF Inv, Types
<1>5. Clean'
  <2>1. call'.clean => inbox = <<>> /\ coming = <<>>
    BY <1>1 DEF Owed
  <2> QED
    BY <1>1, <1>2, <2>1 DEF Clean, Waits
<1> QED
  BY <1>4, <1>5 DEF Inv

LEMMA DrainInv ==
  ASSUME Inv, Drain \/ DrainMore
  PROVE  Inv'
<1>1. /\ Running /\ phase \in {"idle", "draining"} /\ phase' = "draining" /\ line' = <<>>
      /\ UNCHANGED <<call, sequence, inbox, coming, buffer>>
  BY DEF Drain, DrainMore, Inv, Types
<1> QED
  BY <1>1 DEF Inv, Types, Clean, Waits, Running

LEMMA WriteInv ==
  ASSUME Inv, Write
  PROVE  Inv'
<1>1. /\ Running /\ phase = "draining" /\ sequence' = sequence + 1 /\ sequence' \in 1..MaxRequests
      /\ inbox' = Append(inbox, sequence') /\ buffer' = <<>>
      /\ UNCHANGED <<coming, line>>
  BY DEF Write, Inv, Types
<1>2. inbox' \in Seq(Nat)
  BY <1>1 DEF Inv, Types
<1>3. CASE Head(call.left) = "send"
  <2>1. call' = Answered /\ phase' = "idle"
    BY <1>3 DEF Write
  <2>2. CallOK(call')  /\ call'.kind = call.kind
    BY <1>1, <2>1, AnsweredOK DEF Inv, Types
  <2>3. call.kind \notin Confirmed
    BY <1>1, <1>3, NothingSent DEF Inv, Types
  <2> QED
    BY <1>1, <1>2, <2>1, <2>2, <2>3 DEF Inv, Types, Clean, Waits
<1>4. CASE Head(call.left) # "send"
  <2>1. call' = call /\ phase' = "reading"
    BY <1>4 DEF Write
  <2>2. Types'
    BY <1>1, <1>2, <2>1 DEF Inv, Types, Running
  <2>3. Waits => inbox' = <<sequence'>> /\ Silence'
    <3> SUFFICES ASSUME Waits PROVE inbox' = <<sequence'>> /\ Silence'
      OBVIOUS
    <3>1. inbox = <<>> /\ coming = <<>> /\ line = <<>>
      BY <1>1 DEF Inv, Clean
    <3> QED
      BY <1>1, <3>1 DEF Silence
  <2> QED
    BY <1>1, <2>1, <2>2, <2>3 DEF Inv, Clean, Waits, Running
<1> QED
  BY <1>3, <1>4

LEMMA FailInv ==
  ASSUME Inv, WriteFails \/ Timeout
  PROVE  Inv'
<1>1. PICK state \in {"silent", "failed"} : call' = Returned(state)
  BY DEF WriteFails, Timeout
<1>2. CallOK(call') /\ call'.state \notin {"ok", "running"}
  BY <1>1, ReturnedOK DEF Inv, Types
<1>3. /\ phase' = "idle" /\ UNCHANGED <<inbox, coming, line>>
      /\ buffer' \in {buffer, <<>>}
      /\ sequence' \in {sequence, sequence + 1} /\ sequence' <= MaxRequests
  BY DEF WriteFails, Timeout, Inv, Types
<1>4. sequence' \in 0..MaxRequests
  BY <1>3 DEF Inv, Types
<1>5. buffer' \in Seq(Piece)
  <2>1. <<>> \in Seq(Piece)
    OBVIOUS
  <2> QED
    BY <1>3, <2>1 DEF Inv, Types
<1> QED
  BY <1>2, <1>3, <1>4, <1>5 DEF Inv, Types, Clean, Running

\* The frame is found when the last of its pieces is read: by then the display
\* has taken the request and has nothing more to send.
LEMMA ReadInv ==
  ASSUME Inv, Read
  PROVE  Inv'
<1> DEFINE Got(k) == buffer \o SubSeq(line, 1, k)
<1>1. PICK k \in 1..Len(line) :
        /\ line' = SubSeq(line, k + 1, Len(line))
        /\ \/ ~HasFrame(Got(k)) /\ buffer' = Got(k) /\ UNCHANGED <<call, phase>>
           \/ /\ HasFrame(Got(k)) /\ buffer' = <<>> /\ phase' = "idle"
              /\ call' = Returned("failed") \/ call' = Answered
  BY DEF Read
<1>2. /\ phase = "reading" /\ Running /\ CallOK(call)
      /\ line \in Seq(Piece) /\ Len(line) \in Nat /\ line # <<>>
      /\ UNCHANGED <<sequence, inbox, coming>>
  BY DEF Read, Inv, Types
<1>3. SubSeq(line, 1, k) \in Seq(Piece) /\ line' \in Seq(Piece) /\ Got(k) \in Seq(Piece)
  <2>1. SubSeq(line, 1, k) \in Seq(Piece) /\ SubSeq(line, k + 1, Len(line)) \in Seq(Piece)
    BY <1>2
  <2> QED
    BY <1>1, <2>1 DEF Inv, Types
<1>4. CASE ~HasFrame(Got(k)) /\ buffer' = Got(k) /\ UNCHANGED <<call, phase>>
  <2>1. Types'
    BY <1>2, <1>3, <1>4 DEF Inv, Types, Running
  <2>2. ASSUME Waits PROVE inbox' = <<>> /\ OneFrame(sequence)'
    <3>1. inbox = <<>> /\ OneFrame(sequence)
      BY <1>2, <2>2 DEF Inv, Clean, Silence
    <3>a. PICK i \in 0..3 : \E j \in i..3 : Split(sequence, i, j)
      BY <3>1 DEF OneFrame
    <3>b. PICK j \in i..3 : Split(sequence, i, j)
      BY <3>a
    <3>2. /\ buffer = SubSeq(Frame(sequence), 1, i)
          /\ line = SubSeq(Frame(sequence), i + 1, j)
          /\ coming = SubSeq(Frame(sequence), j + 1, 3)
      BY <3>b DEF Split
    <3>3. sequence \in Nat
      BY DEF Inv, Types
    <3>4. Len(line) = j - i
      BY <3>2, <3>3, Part
    <3>5. i + k \in 0..3 /\ i + k \in i..3 /\ j \in (i + k)..3 /\ k \in 0..(j - i)
      BY <3>4
    <3>6. /\ SubSeq(line, 1, k) = SubSeq(Frame(sequence), i + 1, i + k)
          /\ line' = SubSeq(Frame(sequence), i + k + 1, j)
      BY SMTT(30), <1>1, <3>2, <3>3, <3>5, PartOfPart
    <3>7. SubSeq(Frame(sequence), 0 + 1, i) \o SubSeq(Frame(sequence), i + 1, i + k)
            = SubSeq(Frame(sequence), 0 + 1, i + k)
      BY <3>3, <3>5, PartThenPart
    <3>8. buffer' = SubSeq(Frame(sequence), 1, i + k)
      BY SMTT(30), <1>4, <3>2, <3>6, <3>7
    <3> QED
      BY <1>2, <3>1, <3>2, <3>5, <3>6, <3>8 DEF OneFrame, Split
  <2> QED
    BY <1>2, <1>4, <2>1, <2>2 DEF Inv, Clean, Waits, Running
<1>5. CASE /\ HasFrame(Got(k)) /\ buffer' = <<>> /\ phase' = "idle"
           /\ call' = Returned("failed") \/ call' = Answered
  <2>1. /\ CallOK(call') /\ call'.kind = call.kind /\ call'.clean = call.clean
    BY <1>2, <1>5, ReturnedOK, AnsweredOK
  <2>2. Types'
    BY <1>2, <1>3, <1>5, <2>1 DEF Inv, Types
  <2>3. ASSUME Waits PROVE inbox' = <<>> /\ coming' = <<>>
    <3>1. inbox = <<>> /\ OneFrame(sequence)
      BY <1>2, <2>3 DEF Inv, Clean, Silence
    <3>a. PICK i \in 0..3 : \E j \in i..3 : Split(sequence, i, j)
      BY <3>1 DEF OneFrame
    <3>b. PICK j \in i..3 : Split(sequence, i, j)
      BY <3>a
    <3>2. /\ buffer = SubSeq(Frame(sequence), 1, i)
          /\ line = SubSeq(Frame(sequence), i + 1, j)
          /\ coming = SubSeq(Frame(sequence), j + 1, 3)
      BY <3>b DEF Split
    <3>3. sequence \in Nat
      BY DEF Inv, Types
    <3>4. Len(line) = j - i
      BY <3>2, <3>3, Part
    <3>5. i + k \in 0..3 /\ i + k \in i..3 /\ j \in (i + k)..3 /\ k \in 0..(j - i)
      BY <3>4
    <3>6. SubSeq(line, 1, k) = SubSeq(Frame(sequence), i + 1, i + k)
      BY <3>2, <3>3, <3>5, PartOfPart
    <3>7. SubSeq(Frame(sequence), 0 + 1, i) \o SubSeq(Frame(sequence), i + 1, i + k)
            = SubSeq(Frame(sequence), 0 + 1, i + k)
      BY <3>3, <3>5, PartThenPart
    <3>8. Got(k) = SubSeq(Frame(sequence), 1, i + k)
      BY <3>2, <3>6, <3>7
    <3>9. i + k = 3
      BY <1>5, <3>3, <3>5, <3>8, WholeFrame
    <3>10. coming = SubSeq(Frame(sequence), 4, 3)
      BY <3>2, <3>5, <3>9
    <3> QED
      BY <1>2, <3>1, <3>3, <3>10, FrameType
  <2> QED
    BY <1>2, <1>5, <2>1, <2>2, <2>3 DEF Inv, Clean, Waits
<1> QED
  BY <1>1, <1>4, <1>5

-----------------------------------------------------------------------------
(* The display.                                                            *)

LEMMA ExecuteInv ==
  ASSUME Inv, Execute
  PROVE  Inv'
<1>1. /\ inbox # <<>> /\ inbox' = Tail(inbox)
      /\ coming' = coming \/ coming' = coming \o Frame(Head(inbox))
      /\ UNCHANGED <<call, phase, sequence, line, buffer>>
  BY DEF Execute
<1>2. Head(inbox) \in Nat /\ inbox' \in Seq(Nat) /\ coming \in Seq(Piece)
  BY <1>1 DEF Inv, Types
<1>3. coming' \in Seq(Piece)
  BY <1>1, <1>2, FrameType, ConcatProperties
<1>4. Types'
  BY <1>1, <1>2, <1>3 DEF Inv, Types, Running
<1>5. ASSUME Waits, phase = "reading"
      PROVE  inbox' = <<>> /\ (Silence' \/ OneFrame(sequence)')
  <2>1. inbox = <<sequence>> /\ Silence
    BY <1>1, <1>5 DEF Inv, Clean
  <2>2. inbox' = <<>> /\ Head(inbox) = sequence /\ sequence \in Nat
    BY <1>1, <1>2, <2>1
  <2>3. CASE coming' = coming
    BY <1>1, <2>1, <2>2, <2>3 DEF Silence
  <2>4. CASE coming' = coming \o Frame(sequence)
    <3>1. coming' = Frame(sequence)
      BY <2>1, <2>2, <2>4, FrameType, ConcatEmptySeq DEF Silence
    <3>2. /\ SubSeq(Frame(sequence), 1, 0) = <<>>
          /\ SubSeq(Frame(sequence), 0 + 1, 0) = <<>>
          /\ SubSeq(Frame(sequence), 0 + 1, 3) = Frame(sequence)
      BY <2>2, FrameType, SubSeqEmpty, SubSeqFull
    <3>3. 0 \in 0..3
      OBVIOUS
    <3> QED
      BY <1>1, <2>1, <2>2, <3>1, <3>2, <3>3 DEF OneFrame, Split, Silence
  <2> QED
    BY <1>1, <2>2, <2>3, <2>4
<1> QED
  BY <1>1, <1>4, <1>5 DEF Inv, Clean, Waits, Running

LEMMA ArriveInv ==
  ASSUME Inv, Arrive
  PROVE  Inv'
<1>1. PICK k \in 1..Len(coming) : /\ line' = line \o SubSeq(coming, 1, k)
                                  /\ coming' = SubSeq(coming, k + 1, Len(coming))
  BY DEF Arrive
<1>2. /\ coming # <<>> /\ coming \in Seq(Piece) /\ Len(coming) \in Nat
      /\ UNCHANGED <<call, phase, sequence, inbox, buffer>>
  BY DEF Arrive, Inv, Types
<1>3. SubSeq(coming, 1, k) \in Seq(Piece) /\ coming' \in Seq(Piece)
  BY <1>1, <1>2
<1>4. line' \in Seq(Piece)
  BY <1>1, <1>3 DEF Inv, Types
<1>5. Types'
  BY <1>2, <1>3, <1>4 DEF Inv, Types, Running
<1>6. ASSUME Waits, phase = "reading"
      PROVE  inbox' = <<>> /\ OneFrame(sequence)'
  <2>1. inbox = <<>> /\ OneFrame(sequence)
    BY <1>2, <1>6 DEF Inv, Clean, Silence
  <2>a. PICK i \in 0..3 : \E j \in i..3 : Split(sequence, i, j)
    BY <2>1 DEF OneFrame
  <2>b. PICK j \in i..3 : Split(sequence, i, j)
    BY <2>a
  <2>2. /\ buffer = SubSeq(Frame(sequence), 1, i)
        /\ line = SubSeq(Frame(sequence), i + 1, j)
        /\ coming = SubSeq(Frame(sequence), j + 1, 3)
    BY <2>b DEF Split
  <2>3. sequence \in Nat /\ j \in 0..3 /\ 3 \in j..3
    BY DEF Inv, Types
  <2>4. Len(coming) = 3 - j
    BY <2>2, <2>3, Part
  <2>5. j + k \in i..3 /\ j + k \in j..3 /\ k \in 0..(3 - j)
    BY <2>4
  <2>6. /\ SubSeq(coming, 1, k) = SubSeq(Frame(sequence), j + 1, j + k)
        /\ coming' = SubSeq(Frame(sequence), j + k + 1, 3)
    <3> DEFINE e == 3
    <3>1. e \in j..3 /\ k \in 0..(e - j) /\ coming = SubSeq(Frame(sequence), j + 1, e)
      BY <2>2, <2>3, <2>5
    <3> HIDE DEF e
    <3>2. /\ SubSeq(coming, 1, k) = SubSeq(Frame(sequence), j + 1, j + k)
          /\ SubSeq(coming, k + 1, Len(coming)) = SubSeq(Frame(sequence), j + k + 1, e)
      BY SMTT(30), <2>3, <3>1, PartOfPart
    <3> QED
      BY <1>1, <3>2 DEF e
  <2>7. line' = SubSeq(Frame(sequence), i + 1, j + k)
    <3> DEFINE m == j + k
    <3>1. m \in j..3
      BY <2>5
    <3>2. line' = SubSeq(Frame(sequence), i + 1, j) \o SubSeq(Frame(sequence), j + 1, m)
      BY <1>1, <2>2, <2>6
    <3> HIDE DEF m
    <3>3. SubSeq(Frame(sequence), i + 1, j) \o SubSeq(Frame(sequence), j + 1, m)
            = SubSeq(Frame(sequence), i + 1, m)
      BY <2>3, <3>1, PartThenPart
    <3> QED
      BY <3>2, <3>3 DEF m
  <2> QED
    BY <1>2, <2>1, <2>2, <2>5, <2>6, <2>7 DEF OneFrame, Split
<1> QED
  BY <1>2, <1>5, <1>6 DEF Inv, Clean, Waits, Running

-----------------------------------------------------------------------------
(* Theorems.                                                               *)

\* The inductive invariant: types, and a line on which nothing but the answer
\* to the request of a clean call can be.
THEOREM Invariance == Spec => []Inv
<1>1. Inv /\ UNCHANGED vars => Inv'
  BY DEF Inv, vars, Types, Clean, Waits, Running, Silence, OneFrame, Split
<1>2. Inv /\ [Next]_vars => Inv'
  BY <1>1, CallInv, DrainInv, WriteInv, FailInv, ReadInv, ExecuteInv, ArriveInv DEF Next
<1> QED
  BY <1>2, InitInv, PTL DEF Spec

\* Type correctness: a request is in progress only in a call that has one left.
THEOREM TypeCorrect == Spec => []TypeOK
<1>1. Inv => TypeOK
  BY DEF Inv, Types, TypeOK, CallOK, Running
<1> QED
  BY <1>1, Invariance, PTL

\* A call that waits for its replies and began when nothing was owed succeeds
\* only when the display has taken all its requests (Client::send and the
\* drain before it, serial.rs).
THEOREM NoReplyForAnother == Spec => []AnsweredMeansDone
<1>1. Inv => AnsweredMeansDone
  BY DEF Inv, Clean, Waits, AnsweredMeansDone
<1> QED
  BY <1>1, Invariance, PTL

=============================================================================
