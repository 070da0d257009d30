---------------------------- MODULE MediaProofs ----------------------------
(***************************************************************************)
(* Theorems about the preparation of a file, for every file that ffprobe   *)
(* can describe, every combination of options and every limit on sizes and *)
(* names.                                                                  *)
(*                                                                         *)
(* check, the plan and verify each know a part of what a display plays.    *)
(* The proofs go from one to the next: what a report without a finding of  *)
(* a kind says about the file (Compliant, Contained), what ffmpeg then     *)
(* makes of it (Made), and what verify leaves of that.  That a second run  *)
(* finds nothing to do (Ready) needs that a name that was made safe is     *)
(* safe: sanitize_stem is a loop, and what it leaves is followed by        *)
(* induction on its characters (Neat, Tidy).                               *)
(***************************************************************************)
EXTENDS Media, SequenceTheorems, FiniteSetTheorems, WellFoundedInduction, TLAPS

-----------------------------------------------------------------------------
(* Induction and recursion.                                                *)

\* What holds of 0, and of n + 1 when of n, holds of every number.  (The
\* theorem of the library takes an operator; a set will do.)
LEMMA NatSetInduction ==
  ASSUME NEW S, 0 \in S, \A n \in Nat : n \in S => n + 1 \in S
  PROVE  Nat \subseteq S
<1> DEFINE R == {ss \in Nat \X Nat : ss[1] < ss[2]}
           T == Nat \ S
<1>1. IsWellFoundedOn(R, Nat)
  BY NatLessThanWellFounded DEF OpToRel
<1>2. SUFFICES ASSUME T # {} PROVE FALSE
  OBVIOUS
<1>3. \A a, b \in Nat : <<a, b>> \in R <=> a < b
  OBVIOUS
<1> HIDE DEF R
<1>4. PICK x \in T : \A y \in T : ~(<<y, x>> \in R)
  BY <1>1, <1>2, WFMin
<1>5. x # 0 /\ x - 1 \in Nat /\ x - 1 < x
  BY <1>4
<1>6. x - 1 \notin T
  BY <1>3, <1>4, <1>5
<1>7. x - 1 + 1 \in S
  BY <1>5, <1>6
<1> QED
  BY <1>4, <1>7, <1>5

(* A function f on D whose value at d is given where a recursion stops, and *)
(* elsewhere is made, by op, of its value at rest[d], which is less by m.   *)
WellDefined(D, V, m, stop, base, rest, op) ==
  /\ m \in [D -> Nat] /\ stop \in SUBSET D
  /\ base \in [stop -> V] /\ rest \in [D \ stop -> D] /\ op \in [D \ stop -> [V -> V]]
  /\ \A d \in D \ stop : m[rest[d]] < m[d]
Solution(f, D, V, stop, base, rest, op) ==
  /\ f \in [D -> V]
  /\ \A d \in D : f[d] = IF d \in stop THEN base[d] ELSE op[d][f[rest[d]]]

\* There is such a function.
LEMMA Recursion ==
  ASSUME NEW D, NEW V, NEW m, NEW stop, NEW base, NEW rest, NEW op,
         WellDefined(D, V, m, stop, base, rest, op)
  PROVE  \E f : Solution(f, D, V, stop, base, rest, op)
<1> USE DEF WellDefined
<1> DEFINE Below(n) == {d \in D : m[d] < n}
           Value(f, d) == IF d \in stop THEN base[d] ELSE op[d][f[rest[d]]]
           Solves(f, n) == f \in [Below(n) -> V] /\ \A d \in Below(n) : f[d] = Value(f, d)
<1>1. \A n \in Nat : \E f : Solves(f, n)
  <2> DEFINE S == {n \in Nat : \E f : Solves(f, n)}
  <2>1. 0 \in S
    <3> DEFINE e == [d \in Below(0) |-> base[d]]
    <3>1. Below(0) = {}
      OBVIOUS
    <3>2. Solves(e, 0)
      BY <3>1
    <3> QED BY <3>2
  <2>2. ASSUME NEW n \in Nat, n \in S PROVE n + 1 \in S
    <3>1. PICK f : Solves(f, n)
      BY <2>2
    <3> DEFINE g == [d \in Below(n + 1) |-> Value(f, d)]
    <3>2. ASSUME NEW d \in Below(n + 1), d \notin stop PROVE rest[d] \in Below(n)
      BY <3>2
    <3>3. ASSUME NEW d \in Below(n + 1) PROVE Value(f, d) \in V
      BY <3>1, <3>2, <3>3
    <3>4. \A d \in Below(n) : d \in Below(n + 1) /\ g[d] = f[d]
      BY <3>1
    <3>5. ASSUME NEW d \in Below(n + 1) PROVE g[d] = Value(g, d)
      BY <3>2, <3>4, <3>5
    <3>6. Solves(g, n + 1)
      BY <3>3, <3>5
    <3> HIDE DEF g, Solves
    <3> QED BY <3>6
  <2> HIDE DEF S
  <2>3. Nat \subseteq S
    BY <2>1, <2>2, NatSetInduction
  <2> QED
    BY <2>3 DEF S
<1>2. ASSUME NEW f, NEW g, NEW n \in Nat, NEW k \in Nat, n <= k, Solves(f, n), Solves(g, k)
      PROVE  \A d \in Below(n) : f[d] = g[d]
  <2> DEFINE S == {j \in Nat : \A d \in Below(n) : m[d] < j => f[d] = g[d]}
  <2>1. 0 \in S
    OBVIOUS
  <2>2. ASSUME NEW j \in Nat, j \in S PROVE j + 1 \in S
    <3>1. ASSUME NEW d \in Below(n), m[d] < j + 1 PROVE f[d] = g[d]
      <4>1. d \in Below(k)
        BY <1>2
      <4>2. f[d] = Value(f, d) /\ g[d] = Value(g, d)
        BY <1>2, <4>1
      <4>3. CASE d \in stop
        BY <4>2, <4>3
      <4>4. CASE d \notin stop
        <5>1. rest[d] \in D /\ m[rest[d]] \in Nat /\ m[rest[d]] < m[d]
          BY <4>4
        <5>2. rest[d] \in Below(n) /\ m[rest[d]] < j
          BY <3>1, <5>1
        <5>3. f[rest[d]] = g[rest[d]]
          BY <2>2, <5>2
        <5> QED BY <4>2, <4>4, <5>3
      <4> QED BY <4>3, <4>4
    <3> QED BY <3>1
  <2> HIDE DEF S
  <2>3. Nat \subseteq S
    BY <2>1, <2>2, NatSetInduction
  <2>4. ASSUME NEW d \in Below(n) PROVE f[d] = g[d]
    <3>1. n \in S
      BY <2>3
    <3> QED BY <3>1, <2>4 DEF S
  <2> QED BY <2>4
<1> DEFINE h(n) == CHOOSE f : Solves(f, n)
           F == [d \in D |-> h(m[d] + 1)[d]]
<1>3. \A n \in Nat : Solves(h(n), n)
  BY <1>1
<1> HIDE DEF h
<1>4. ASSUME NEW d \in D
      PROVE  F[d] \in V /\ F[d] = Value(F, d)
  <2> DEFINE n == m[d] + 1
  <2>1. n \in Nat /\ d \in Below(n)
    OBVIOUS
  <2>2. h(n)[d] \in V /\ h(n)[d] = Value(h(n), d)
    BY <1>3, <2>1
  <2>3. CASE d \in stop
    BY <2>2, <2>3
  <2>4. CASE d \notin stop
    <3> DEFINE r == rest[d]
    <3>1. r \in D /\ m[r] \in Nat /\ m[r] < m[d]
      BY <2>4
    <3>2. m[r] + 1 \in Nat /\ m[r] + 1 <= n /\ r \in Below(m[r] + 1)
      BY <3>1
    <3>3. Solves(h(m[r] + 1), m[r] + 1) /\ Solves(h(n), n)
      BY <1>3, <2>1, <3>2
    <3> HIDE DEF Solves
    <3>4. h(m[r] + 1)[r] = h(n)[r]
      BY <1>2, <3>2, <3>3, <2>1
    <3>5. F[r] = h(n)[r]
      BY <3>1, <3>4
    <3> QED BY <2>2, <2>4, <3>5
  <2> QED BY <2>3, <2>4
<1>5. F \in [D -> V] /\ \A d \in D : F[d] = Value(F, d)
  BY <1>4
<1> QED
  BY <1>5 DEF Solution
-----------------------------------------------------------------------------
(* Names.                                                                  *)

\* The loop of sanitize_stem: one more character.
Longer(done, ch) ==
  IF ch \in {"a", "."} THEN Append(done, ch)
  ELSE IF done # <<>> /\ done[Len(done)] # "-" THEN Append(done, "-") ELSE done

\* And what follows the loop.
Cut(clean) ==
  LET short == SubSeq(clean, 1, Min({Len(clean), MaxStem}))
      solid == {i \in 1..Len(short) : short[i] \notin {"-", "."}}
  IN  IF solid = {} THEN <<"a">> ELSE SubSeq(short, Min(solid), Max(solid))

\* The loop is a fold over the set of the indices, from the last one down.
LoopBody(h, stem, s) == IF s = {} THEN <<>> ELSE Longer(h[s \ {Max(s)}], stem[Max(s)])

\* sanitize_stem is that loop and that cut.
LEMMA LoopUnfolds ==
  ASSUME NEW stem, \E f : f = [s \in SUBSET DOMAIN stem |-> LoopBody(f, stem, s)]
  PROVE  \E h : /\ h = [s \in SUBSET DOMAIN stem |-> LoopBody(h, stem, s)]
                /\ sanitize_stem(stem) = Cut(h[DOMAIN stem])
BY DEF LoopBody, Longer, Cut, sanitize_stem, FoldLeft, MapThenFoldSet

\* A set of indices with a member has a last one.
LEMMA MaxIs ==
  ASSUME NEW n \in Nat, NEW s \in SUBSET (1..n), s # {}
  PROVE  Max(s) \in s /\ \A i \in s : Max(s) >= i
<1> DEFINE S == {k \in Nat : \A t \in SUBSET (1..k) : t # {} => \E x \in t : \A i \in t : x >= i}
<1>1. 0 \in S
  <2>1. 1..0 = {}
    OBVIOUS
  <2> QED BY <2>1
<1>2. ASSUME NEW k \in Nat, k \in S PROVE k + 1 \in S
  <2>1. ASSUME NEW t \in SUBSET (1..k + 1), t # {}
        PROVE  \E x \in t : \A i \in t : x >= i
    <3>1. CASE k + 1 \in t
      BY <3>1
    <3>2. CASE k + 1 \notin t
      <4>1. t \in SUBSET (1..k)
        BY <3>2
      <4> QED BY <1>2, <2>1, <4>1
    <3> QED BY <3>1, <3>2
  <2> QED BY <2>1
<1> HIDE DEF S
<1>3. n \in S
  BY <1>1, <1>2, NatSetInduction
<1>4. \E x \in s : \A i \in s : x >= i
  BY <1>3 DEF S
<1> QED
  BY <1>4 DEF Max

\* The loop, from the first character on.
LEMMA LoopIs ==
  ASSUME NEW stem \in Seq(Chars)
  PROVE  \E c : /\ c \in [0..Len(stem) -> Seq(Chars)] /\ c[0] = <<>>
                /\ \A i \in 1..Len(stem) : c[i] = Longer(c[i - 1], stem[i])
                /\ sanitize_stem(stem) = Cut(c[Len(stem)])
<1> DEFINE n == Len(stem)
           D == SUBSET (1..n)
           m == [s \in D |-> Cardinality(s)]
           stop == {{}}
           base == [s \in stop |-> <<>>]
           rest == [s \in D \ stop |-> s \ {Max(s)}]
           op == [s \in D \ stop |-> [v \in Seq(Chars) |-> Longer(v, stem[Max(s)])]]
<1>1. n \in Nat /\ DOMAIN stem = 1..n /\ \A i \in 1..n : stem[i] \in Chars
  OBVIOUS
<1>2. \A s \in D : IsFiniteSet(s) /\ Cardinality(s) \in Nat
  <2>1. IsFiniteSet(1..n)
    BY <1>1, FS_Interval
  <2> HIDE DEF n
  <2> QED BY <2>1, FS_Subset, FS_CardinalityType
<1>3. ASSUME NEW s \in D, s # {}
      PROVE  /\ Max(s) \in s /\ s \ {Max(s)} \in D
             /\ Cardinality(s \ {Max(s)}) < Cardinality(s)
  <2>1. Max(s) \in s
    <3> HIDE DEF n
    <3> QED BY <1>1, <1>3, MaxIs
  <2>2. Cardinality(s \ {Max(s)}) = Cardinality(s) - 1
    BY <1>2, <2>1, FS_RemoveElement
  <2>3. Cardinality(s) \in Nat
    BY <1>2
  <2>4. s \ {Max(s)} \in D
    OBVIOUS
  <2> HIDE DEF D
  <2> QED BY <2>1, <2>2, <2>3, <2>4
<1>4. \A v \in Seq(Chars), ch \in Chars : Longer(v, ch) \in Seq(Chars)
  <2> TAKE v \in Seq(Chars), ch \in Chars
  <2>0. "-" \in Chars
    BY DEF Chars
  <2>1. Append(v, ch) \in Seq(Chars) /\ Append(v, "-") \in Seq(Chars)
    BY <2>0, AppendProperties
  <2> QED BY <2>1 DEF Longer
<1>5. WellDefined(D, Seq(Chars), m, stop, base, rest, op)
  <2>1. m \in [D -> Nat] /\ stop \in SUBSET D /\ base \in [stop -> Seq(Chars)]
    BY <1>2
  <2>2. rest \in [D \ stop -> D]
    BY <1>3
  <2>3. op \in [D \ stop -> [Seq(Chars) -> Seq(Chars)]]
    <3>1. \A s \in D \ stop : stem[Max(s)] \in Chars
      BY <1>1, <1>3
    <3> HIDE DEF D, stop
    <3> QED BY <1>4, <3>1
  <2>4. \A s \in D \ stop : m[rest[s]] < m[s]
    BY <1>3
  <2> HIDE DEF D, m, stop, base, rest, op
  <2> QED BY <2>1, <2>2, <2>3, <2>4 DEF WellDefined
<1>6. PICK f : Solution(f, D, Seq(Chars), stop, base, rest, op)
  <2> HIDE DEF D, m, stop, base, rest, op
  <2> QED BY <1>5, Recursion
<1>b. \A g, s : LoopBody(g, stem, s) = IF s = {} THEN <<>> ELSE Longer(g[s \ {Max(s)}], stem[Max(s)])
  BY DEF LoopBody
<1> DEFINE Body(g, s) == LoopBody(g, stem, s)
<1>7. f \in [D -> Seq(Chars)] /\ \A s \in D : f[s] = Body(f, s)
  <2>1. f \in [D -> Seq(Chars)]
    BY <1>6 DEF Solution
  <2>2. ASSUME NEW s \in D PROVE f[s] = Body(f, s)
    <3>1. f[s] = IF s \in stop THEN base[s] ELSE op[s][f[rest[s]]]
      BY <1>6 DEF Solution
    <3>2. CASE s = {}
      BY <1>b, <3>1, <3>2
    <3>3. CASE s # {}
      <4>1. s \in D \ stop /\ rest[s] = s \ {Max(s)} /\ rest[s] \in D /\ f[rest[s]] \in Seq(Chars)
        BY <1>3, <2>1, <3>3
      <4> HIDE DEF D, rest
      <4>2. op[s][f[rest[s]]] = Longer(f[rest[s]], stem[Max(s)])
        BY <4>1
      <4>3. Body(f, s) = Longer(f[s \ {Max(s)}], stem[Max(s)])
        BY <1>b, <3>3
      <4> HIDE DEF op, stop, Body
      <4>4. s \notin stop
        BY <4>1
      <4> QED BY <3>1, <4>1, <4>2, <4>3, <4>4
    <3> QED BY <3>2, <3>3
  <2> QED BY <2>1, <2>2
<1>8. PICK h : h = [s \in D |-> Body(h, s)] /\ sanitize_stem(stem) = Cut(h[1..n])
  <2>1. f = [s \in SUBSET DOMAIN stem |-> LoopBody(f, stem, s)]
    BY <1>1, <1>7
  <2> QED BY <1>1, <2>1, LoopUnfolds
<1> DEFINE c == [i \in 0..n |-> h[1..i]]
<1>9. c[0] = <<>>
  <2>1. 1..0 = {} /\ {} \in D /\ 0 \in 0..n
    BY <1>1
  <2>2. h[{}] = <<>>
    <3> HIDE DEF D
    <3>1. h[{}] = Body(h, {})
      BY <1>8, <2>1
    <3> QED BY <1>b, <3>1
  <2> HIDE DEF n, D
  <2> QED BY <2>1, <2>2
<1>10. ASSUME NEW i \in 1..n PROVE c[i] = Longer(c[i - 1], stem[i])
  <2>1. 1..i \in D /\ 1..i # {} /\ i \in 0..n /\ i - 1 \in 0..n
    <3>1. i \in Nat /\ i >= 1 /\ i <= n
      BY <1>1
    <3>2. \A j \in 1..i : j \in 1..n
      BY <1>1, <3>1
    <3>3. i \in 1..i
      BY <3>1
    <3> HIDE DEF n
    <3> QED BY <1>1, <3>1, <3>2, <3>3
  <2>2. Max(1..i) = i
    <3>0. i \in Nat /\ 1..i \in SUBSET (1..i)
      BY <1>1
    <3>1. Max(1..i) \in 1..i /\ \A j \in 1..i : Max(1..i) >= j
      <4> HIDE DEF n, D
      <4> QED BY <2>1, <3>0, MaxIs
    <3> QED BY <3>1
  <2>3. (1..i) \ {i} = 1..i - 1
    OBVIOUS
  <2> DEFINE I == 1..i
  <2> HIDE DEF D, n
  <2>4. h[I] = Body(h, I)
    BY <1>8, <2>1
  <2>5. Body(h, I) = Longer(h[I \ {Max(I)}], stem[Max(I)])
    BY <1>b, <2>1
  <2>6. c[i] = h[I] /\ c[i - 1] = h[1..i - 1]
    BY <2>1
  <2> HIDE DEF I, c, Body
  <2> QED BY <2>2, <2>3, <2>4, <2>5, <2>6 DEF I
<1>11. \A i \in 0..n : c[i] \in Seq(Chars)
  <2> DEFINE S == {i \in Nat : i \in 0..n => c[i] \in Seq(Chars)}
  <2> HIDE DEF c
  <2>1. 0 \in S
    <3>1. <<>> \in Seq(Chars)
      OBVIOUS
    <3> QED BY <1>9, <3>1
  <2>2. ASSUME NEW i \in Nat, i \in S PROVE i + 1 \in S
    <3> DEFINE j == i + 1
    <3>1. ASSUME j \in 0..n PROVE c[j] \in Seq(Chars)
      <4>1. j \in 1..n /\ j - 1 = i /\ c[i] \in Seq(Chars) /\ stem[j] \in Chars
        BY <1>1, <2>2, <3>1
      <4> HIDE DEF j, n
      <4>2. c[j] = Longer(c[i], stem[j])
        BY <1>10, <4>1
      <4> QED BY <1>4, <4>1, <4>2
    <3> QED BY <3>1
  <2> HIDE DEF S
  <2>3. Nat \subseteq S
    BY <2>1, <2>2, NatSetInduction
  <2> QED BY <2>3 DEF S
<1>12. c[n] = h[1..n]
  BY <1>1
<1> HIDE DEF n, Body
<1>13. c \in [0..n -> Seq(Chars)]
  BY <1>11
<1> HIDE DEF c
<1> QED
  BY <1>8, <1>9, <1>10, <1>12, <1>13 DEF n

\* A set of numbers with a member has a least one.
LEMMA LeastIs ==
  ASSUME NEW S \in SUBSET Nat, S # {}
  PROVE  Min(S) \in S /\ \A y \in S : Min(S) <= y
<1> DEFINE T == {n \in Nat : \A y \in S : n <= y}
<1>1. \E x \in S : \A y \in S : x <= y
  <2>1. SUFFICES ASSUME \A x \in S : \E y \in S : ~(x <= y) PROVE FALSE
    OBVIOUS
  <2>2. 0 \in T
    OBVIOUS
  <2>3. ASSUME NEW n \in Nat, n \in T PROVE n + 1 \in T
    <3>1. ASSUME NEW y \in S PROVE n + 1 <= y
      <4>1. n <= y /\ y \in Nat
        BY <2>3
      <4>2. n # y
        BY <2>1, <2>3
      <4> QED BY <4>1, <4>2
    <3> QED BY <3>1
  <2> HIDE DEF T
  <2>4. Nat \subseteq T
    BY <2>2, <2>3, NatSetInduction
  <2>5. PICK y \in S : TRUE
    OBVIOUS
  <2>6. y \in Nat /\ y + 1 \in Nat /\ ~(y + 1 <= y)
    OBVIOUS
  <2>7. y + 1 \in T
    BY <2>4, <2>6
  <2> QED BY <2>6, <2>7 DEF T
<1> QED
  BY <1>1 DEF Min


\* Characters a display takes, and no dash at the start or after a dash.
Neat(t) ==
  /\ t \in Seq(Chars)
  /\ \A i \in 1..Len(t) : /\ t[i] \in {"a", ".", "-"}
                          /\ t[i] = "-" => i > 1 /\ t[i - 1] # "-"

\* Besides, it is not too long, and nothing is to be trimmed.
Tidy(t) == Neat(t) /\ Len(t) \in 1..MaxStem /\ t[1] = "a" /\ t[Len(t)] = "a"

\* One more character leaves it neat.
LEMMA LongerIsNeat ==
  ASSUME NEW v, Neat(v), NEW ch \in Chars
  PROVE  Neat(Longer(v, ch))
<1>1. ASSUME NEW x \in {"a", ".", "-"}, x = "-" => v # <<>> /\ v[Len(v)] # "-"
      PROVE  Neat(Append(v, x))
  <2> DEFINE u == Append(v, x)
             n == Len(v)
  <2>1. v \in Seq(Chars) /\ x \in Chars /\ n \in Nat
    <3>1. v \in Seq(Chars)
      BY DEF Neat
    <3>2. x \in Chars
      BY DEF Chars
    <3> QED BY <3>1, <3>2
  <2>2. /\ u \in Seq(Chars) /\ Len(u) = n + 1 /\ u[n + 1] = x
        /\ \A i \in 1..n : u[i] = v[i]
    BY <2>1, AppendProperties
  <2>3. v # <<>> => n > 0
    BY <2>1, EmptySeq
  <2> HIDE DEF u
  <2>4. ASSUME NEW i \in 1..n + 1
        PROVE  u[i] \in {"a", ".", "-"} /\ (u[i] = "-" => i > 1 /\ u[i - 1] # "-")
    <3>1. CASE i \in 1..n
      <4>1. u[i] = v[i] /\ v[i] \in {"a", ".", "-"} /\ (v[i] = "-" => i > 1 /\ v[i - 1] # "-")
        BY <2>2, <3>1 DEF Neat
      <4>2. i > 1 => u[i - 1] = v[i - 1]
        BY <2>1, <2>2, <3>1
      <4> QED BY <4>1, <4>2
    <3>2. CASE i = n + 1
      <4>1. u[i] = x
        BY <2>2, <3>2
      <4>2. x = "-" => n > 0 /\ v[n] # "-"
        BY <1>1, <2>3
      <4>3. n > 0 => n \in 1..n /\ i - 1 = n /\ i > 1
        BY <2>1, <3>2
      <4>4. n > 0 => u[i - 1] = v[n]
        BY <2>2, <4>3
      <4> HIDE DEF n
      <4> QED BY <4>1, <4>2, <4>3, <4>4
    <3> QED BY <2>1, <3>1, <3>2
  <2> QED
    BY <2>2, <2>4 DEF Neat
<1>2. CASE ch \in {"a", "."}
  BY <1>1, <1>2 DEF Longer
<1>3. CASE ch \notin {"a", "."} /\ v # <<>> /\ v[Len(v)] # "-"
  BY <1>1, <1>3 DEF Longer
<1> QED
  BY <1>2, <1>3 DEF Longer

\* What the loop makes is neat.
LEMMA LoopIsNeat ==
  ASSUME NEW stem \in Seq(Chars), NEW c, c[0] = <<>>,
         \A i \in 1..Len(stem) : c[i] = Longer(c[i - 1], stem[i])
  PROVE  Neat(c[Len(stem)])
<1> DEFINE n == Len(stem)
           S == {i \in Nat : i \in 0..n => Neat(c[i])}
<1>1. n \in Nat /\ \A i \in 1..n : stem[i] \in Chars
  OBVIOUS
<1>2. 0 \in S
  <2>1. <<>> \in Seq(Chars) /\ Len(<<>>) = 0 /\ 1..0 = {}
    OBVIOUS
  <2>2. Neat(<<>>)
    BY <2>1 DEF Neat
  <2> QED BY <2>2
<1>3. ASSUME NEW i \in Nat, i \in S PROVE i + 1 \in S
  <2> DEFINE j == i + 1
  <2>1. ASSUME j \in 0..n PROVE Neat(c[j])
    <3>1. j \in 1..n /\ j - 1 = i /\ Neat(c[i]) /\ stem[j] \in Chars
      BY <1>1, <1>3, <2>1
    <3> HIDE DEF j
    <3>2. c[j] = Longer(c[i], stem[j])
      BY <3>1
    <3> QED BY <3>1, <3>2, LongerIsNeat
  <2> QED BY <2>1
<1> HIDE DEF S
<1>4. n \in S
  BY <1>1, <1>2, <1>3, NatSetInduction
<1> QED
  BY <1>1, <1>4 DEF S

\* And it makes nothing else of what is neat.
LEMMA LoopKeeps ==
  ASSUME NEW stem, Neat(stem), NEW c \in [0..Len(stem) -> Seq(Chars)], c[0] = <<>>,
         \A i \in 1..Len(stem) : c[i] = Longer(c[i - 1], stem[i])
  PROVE  c[Len(stem)] = stem
<1> DEFINE n == Len(stem)
           Same(i) == Len(c[i]) = i /\ \A k \in 1..i : c[i][k] = stem[k]
           S == {i \in Nat : i \in 0..n => Same(i)}
<1>1. stem \in Seq(Chars) /\ n \in Nat /\ \A i \in 1..n : stem[i] \in Chars
  BY DEF Neat
<1>2. 0 \in S
  <2>1. Len(<<>>) = 0 /\ 1..0 = {}
    OBVIOUS
  <2> QED BY <2>1
<1>3. ASSUME NEW i \in Nat, i \in S PROVE i + 1 \in S
  <2> DEFINE j == i + 1
  <2>1. ASSUME j \in 0..n PROVE Same(j)
    <3> DEFINE v == c[i]
    <3>1. j \in 1..n /\ j - 1 = i /\ Same(i) /\ stem[j] \in Chars /\ i \in 0..n
      BY <1>1, <1>3, <2>1
    <3>2. v \in Seq(Chars)
      BY <3>1
    <3>3. stem[j] \in {"a", ".", "-"} /\ (stem[j] = "-" => j > 1 /\ stem[j - 1] # "-")
      BY <3>1 DEF Neat
    <3>4. c[j] = Longer(v, stem[j])
      BY <3>1
    <3>5. c[j] = Append(v, stem[j])
      <4>1. CASE stem[j] = "-"
        <5>1. i \in 1..i /\ v[i] = stem[i] /\ stem[i] # "-" /\ Len(v) = i /\ i > 0
          BY <3>1, <3>3, <4>1
        <5>2. v # <<>>
          BY <3>2, <5>1, EmptySeq
        <5> HIDE DEF v, j
        <5> QED BY <3>4, <4>1, <5>1, <5>2 DEF Longer
      <4>2. CASE stem[j] # "-"
        BY <3>3, <3>4, <4>2 DEF Longer
      <4> QED BY <4>1, <4>2
    <3> DEFINE u == Append(v, stem[j])
    <3>6. /\ Len(u) = Len(v) + 1 /\ u[Len(v) + 1] = stem[j]
          /\ \A k \in 1..Len(v) : u[k] = v[k]
      <4> HIDE DEF v, j
      <4> QED BY <3>1, <3>2, AppendProperties
    <3>7. Len(u) = j /\ u[j] = stem[j] /\ \A k \in 1..i : u[k] = stem[k]
      BY <3>1, <3>6
    <3>8. \A k \in 1..j : k = j \/ k \in 1..i
      OBVIOUS
    <3>9. \A k \in 1..j : u[k] = stem[k]
      <4> HIDE DEF u, j
      <4> QED BY <3>7, <3>8
    <3> HIDE DEF u, v
    <3> QED BY <3>5, <3>7, <3>9 DEF u
  <2> QED BY <2>1
<1> HIDE DEF S
<1>4. n \in S
  BY <1>1, <1>2, <1>3, NatSetInduction
<1>5. n \in 0..n /\ Same(n)
  BY <1>1, <1>4 DEF S
<1>6. c[n] \in Seq(Chars)
  BY <1>5
<1> QED
  BY <1>1, <1>5, <1>6, SeqEqual

\* A slice of a neat text that starts with no dash is neat.
LEMMA SliceIsNeat ==
  ASSUME NEW t, Neat(t), NEW m \in 1..Len(t), NEW n \in m..Len(t), t[m] # "-"
  PROVE  LET u == SubSeq(t, m, n)
         IN  /\ Neat(u) /\ Len(u) = n - m + 1
             /\ \A i \in 1..n - m + 1 : u[i] = t[m + i - 1]
<1> DEFINE u == SubSeq(t, m, n)
           l == Len(t)
<1>1. t \in Seq(Chars) /\ l \in Nat /\ m \in Nat /\ n \in Nat /\ m >= 1 /\ m <= n /\ n <= l
  <2>1. t \in Seq(Chars)
    BY DEF Neat
  <2> QED BY <2>1
<1>2. /\ u \in Seq(Chars) /\ Len(u) = n - m + 1
      /\ \A i \in 1..n - m + 1 : u[i] = t[m + i - 1]
  <2>1. \A i \in m..n : t[i] \in Chars
    BY <1>1
  <2> QED BY <1>1, <2>1, SubSeqProperties
<1> HIDE DEF u
<1>3. ASSUME NEW i \in 1..n - m + 1
      PROVE  u[i] \in {"a", ".", "-"} /\ (u[i] = "-" => i > 1 /\ u[i - 1] # "-")
  <2> DEFINE j == m + i - 1
             k == i - 1
  <2>1. j \in 1..l /\ u[i] = t[j]
    BY <1>1, <1>2
  <2>2. t[j] \in {"a", ".", "-"} /\ (t[j] = "-" => j > 1 /\ t[j - 1] # "-")
    BY <2>1 DEF Neat
  <2>3. i = 1 => j = m
    BY <1>1
  <2>4. i # 1 => k \in 1..n - m + 1 /\ m + k - 1 = j - 1 /\ i > 1
    BY <1>1
  <2>5. i # 1 => u[k] = t[j - 1]
    <3> HIDE DEF j, k
    <3> QED BY <1>2, <2>4
  <2> HIDE DEF j
  <2> QED BY <2>1, <2>2, <2>3, <2>4, <2>5
<1> QED
  BY <1>2, <1>3 DEF Neat, u

\* What follows the loop leaves nothing to trim or to cut.
LEMMA CutIsTidy ==
  ASSUME NEW t, Neat(t)
  PROVE  Tidy(Cut(t))
<1> DEFINE l == Len(t)
           k == Min({l, MaxStem})
           short == SubSeq(t, 1, k)
           solid == {i \in 1..Len(short) : short[i] \notin {"-", "."}}
           a == Min(solid)
           b == Max(solid)
<1>0. t \in Seq(Chars) /\ l \in Nat
  <2>1. t \in Seq(Chars)
    BY DEF Neat
  <2> QED BY <2>1
<1>1. k \in 0..l /\ k <= MaxStem /\ k \in Nat /\ MaxStem \in Nat /\ MaxStem >= 1
  <2>1. MaxStem \in Nat /\ MaxStem >= 1
    BY MediaConstants
  <2>2. {l, MaxStem} \in SUBSET Nat /\ {l, MaxStem} # {}
    BY <1>0, <2>1
  <2>3. k \in {l, MaxStem} /\ \A y \in {l, MaxStem} : k <= y
    BY <2>2, LeastIs
  <2> HIDE DEF k, l
  <2> QED BY <1>0, <2>1, <2>3
<1>2. Cut(t) = IF solid = {} THEN <<"a">> ELSE SubSeq(short, a, b)
  BY DEF Cut
<1>3. CASE solid = {}
  <2> DEFINE r == <<"a">>
  <2>1. Cut(t) = r
    BY <1>2, <1>3
  <2>2. r \in Seq(Chars) /\ Len(r) = 1 /\ r[1] = "a"
    BY DEF Chars
  <2>3. Neat(r)
    BY <2>2 DEF Neat
  <2> HIDE DEF r
  <2> QED BY <1>1, <2>1, <2>2, <2>3 DEF Tidy
<1>4. CASE solid # {}
  <2>1. 1 <= k
    <3>1. PICK i \in 1..Len(short) : TRUE
      BY <1>4
    <3>2. Len(short) = IF 1 <= k THEN k - 1 + 1 ELSE 0
      <4>1. \A j \in 1..k : t[j] \in Chars
        BY <1>0, <1>1
      <4> HIDE DEF k, l
      <4> QED BY <1>1, <4>1, SubSeqProperties
    <3> HIDE DEF short
    <3> QED BY <3>1, <3>2
  <2>2. t[1] # "-"
    <3>1. 1 \in 1..l
      BY <1>0, <1>1, <2>1
    <3> QED BY <3>1 DEF Neat
  <2>3. Neat(short) /\ Len(short) = k /\ \A i \in 1..k : short[i] = t[i]
    <3>1. 1 \in 1..l /\ k \in 1..l
      BY <1>0, <1>1, <2>1
    <3> HIDE DEF k
    <3>2. Neat(short) /\ Len(short) = k - 1 + 1 /\ \A i \in 1..k - 1 + 1 : short[i] = t[1 + i - 1]
      BY <3>1, <2>2, SliceIsNeat
    <3>3. k - 1 + 1 = k /\ \A i \in 1..k : 1 + i - 1 = i
      BY <1>1
    <3> HIDE DEF short
    <3> QED BY <3>2, <3>3
  <2>4. a \in solid /\ b \in solid /\ a <= b /\ \A i \in solid : i <= b
    <3>1. solid \in SUBSET (1..k) /\ solid \in SUBSET Nat
      <4>1. solid \in SUBSET (1..Len(short))
        OBVIOUS
      <4> HIDE DEF solid, short, k
      <4>2. solid \in SUBSET (1..k)
        BY <2>3, <4>1
      <4> QED BY <1>1, <4>2
    <3> HIDE DEF solid, k
    <3>2. a \in solid /\ \A i \in solid : a <= i
      BY <1>4, <3>1, LeastIs
    <3>3. b \in solid /\ \A i \in solid : b >= i
      BY <1>1, <1>4, <3>1, MaxIs
    <3> HIDE DEF a, b
    <3>4. a \in Nat /\ b \in Nat /\ \A i \in solid : i \in Nat
      BY <3>1, <3>2, <3>3
    <3> QED BY <3>2, <3>3, <3>4
  <2> HIDE DEF short
  <2>5. a \in 1..k /\ b \in 1..k /\ short[a] \notin {"-", "."} /\ short[b] \notin {"-", "."}
    <3> HIDE DEF a, b, k
    <3> QED BY <2>3, <2>4
  <2> HIDE DEF a, b, solid, k
  <2>6. short[a] = "a" /\ short[b] = "a"
    BY <2>3, <2>5 DEF Neat
  <2> DEFINE u == SubSeq(short, a, b)
             n == b - a + 1
  <2>7. Neat(u) /\ Len(u) = n /\ \A i \in 1..n : u[i] = short[a + i - 1]
    <3>1. a \in 1..Len(short) /\ b \in a..Len(short)
      BY <1>1, <2>3, <2>4, <2>5
    <3>2. short[a] # "-"
      BY <2>6
    <3> QED BY <2>3, <3>1, <3>2, SliceIsNeat
  <2>8. n \in Nat /\ n >= 1 /\ n <= MaxStem /\ a + 1 - 1 = a /\ a + n - 1 = b /\ 1 \in 1..n /\ n \in 1..n
    BY <1>1, <2>4, <2>5
  <2> HIDE DEF u, n
  <2>9. u[1] = "a" /\ u[n] = "a"
    <3>1. u[1] = short[a + 1 - 1] /\ u[n] = short[a + n - 1]
      BY <2>7, <2>8
    <3> QED BY <3>1, <2>6, <2>8
  <2>10. Cut(t) = u
    BY <1>2, <1>4 DEF u
  <2> QED BY <1>1, <2>7, <2>8, <2>9, <2>10 DEF Tidy
<1> QED
  BY <1>3, <1>4

\* And nothing of it is trimmed or cut again.
LEMMA CutKeeps ==
  ASSUME NEW t, Tidy(t)
  PROVE  Cut(t) = t
<1> DEFINE l == Len(t)
           k == Min({l, MaxStem})
           solid == {i \in 1..l : t[i] \notin {"-", "."}}
<1>1. /\ t \in Seq(Chars) /\ l \in Nat /\ l >= 1 /\ l <= MaxStem /\ MaxStem \in Nat
      /\ t[1] = "a" /\ t[l] = "a"
  <2>1. t \in Seq(Chars) /\ l \in 1..MaxStem /\ MaxStem \in Nat /\ t[1] = "a" /\ t[l] = "a"
    BY MediaConstants DEF Tidy, Neat
  <2> HIDE DEF l
  <2>2. l \in Nat /\ l >= 1 /\ l <= MaxStem
    BY <2>1
  <2> QED BY <2>1, <2>2
<1>2. k = l
  <2>1. k \in {l, MaxStem} /\ \A y \in {l, MaxStem} : k <= y
    <3>1. {l, MaxStem} \in SUBSET Nat /\ {l, MaxStem} # {}
      BY <1>1
    <3> QED BY <3>1, LeastIs
  <2> HIDE DEF k, l
  <2> QED BY <1>1, <2>1
<1>3. SubSeq(t, 1, l) = t
  BY <1>1, SubSeqFull
<1>4. 1 \in solid /\ l \in solid /\ solid \in SUBSET (1..l) /\ solid \in SUBSET Nat
  <2> HIDE DEF l
  <2> QED BY <1>1
<1>5. Min(solid) = 1 /\ Max(solid) = l
  <2> HIDE DEF solid, l
  <2>1. Min(solid) \in solid /\ \A y \in solid : Min(solid) <= y
    BY <1>4, LeastIs
  <2>2. Max(solid) \in solid /\ \A y \in solid : Max(solid) >= y
    BY <1>1, <1>4, MaxIs
  <2> DEFINE a == Min(solid)
             b == Max(solid)
  <2>3. a \in 1..l /\ b \in 1..l /\ a <= 1 /\ b >= l
    BY <1>4, <2>1, <2>2
  <2> HIDE DEF a, b
  <2>4. a = 1 /\ b = l
    BY <1>1, <2>3
  <2> QED BY <2>4 DEF a, b
<1>6. Cut(t) = IF solid = {} THEN <<"a">> ELSE SubSeq(t, Min(solid), Max(solid))
  <2>1. Cut(t) = LET short == SubSeq(t, 1, k)
                     some == {i \in 1..Len(short) : short[i] \notin {"-", "."}}
                 IN  IF some = {} THEN <<"a">> ELSE SubSeq(short, Min(some), Max(some))
    BY DEF Cut
  <2>2. SubSeq(t, 1, k) = t
    BY <1>2, <1>3
  <2> HIDE DEF k
  <2> QED BY <2>1, <2>2
<1> HIDE DEF solid, l
<1> QED
  BY <1>3, <1>4, <1>5, <1>6

\* A name that a display takes is taken as it is.
LEMMA TidyStays ==
  ASSUME NEW t, Tidy(t)
  PROVE  sanitize_stem(t) = t
<1>1. t \in Seq(Chars) /\ Neat(t)
  BY DEF Tidy, Neat
<1>2. PICK c : /\ c \in [0..Len(t) -> Seq(Chars)] /\ c[0] = <<>>
               /\ \A i \in 1..Len(t) : c[i] = Longer(c[i - 1], t[i])
               /\ sanitize_stem(t) = Cut(c[Len(t)])
  BY <1>1, LoopIs
<1>3. c[Len(t)] = t
  BY <1>1, <1>2, LoopKeeps
<1> QED
  BY <1>2, <1>3, CutKeeps

\* sanitize_stem gives a name that a display takes, whatever it is given, and
\* gives it back as it is (check.rs, "Reduces a stem to the device-safe charset").
THEOREM NameSettles ==
  ASSUME NEW stem \in Seq(Chars)
  PROVE  /\ Tidy(sanitize_stem(stem))
         /\ sanitize_stem(sanitize_stem(stem)) = sanitize_stem(stem)
<1>1. PICK c : /\ c \in [0..Len(stem) -> Seq(Chars)] /\ c[0] = <<>>
               /\ \A i \in 1..Len(stem) : c[i] = Longer(c[i - 1], stem[i])
               /\ sanitize_stem(stem) = Cut(c[Len(stem)])
  BY LoopIs
<1>2. Neat(c[Len(stem)])
  BY <1>1, LoopIsNeat
<1>3. Tidy(sanitize_stem(stem))
  BY <1>1, <1>2, CutIsTidy
<1> QED
  BY <1>3, TidyStays

-----------------------------------------------------------------------------
(* What a report says.                                                     *)

\* The findings that say something of the file: all but NAME.
Measured(f, target, o) ==
  check_size(f) \cup
    (IF classify(f) = None THEN {fatal("STREAM")}
     ELSE check_transform(o) \cup check_trim(f, classify(f), o) \cup check_format(target) \cup
          (IF classify(f) = "Image" THEN check_image(f, target, o) ELSE check_video(f, target, o)))

\* A report repeats what was measured, and asks for what that needs.
LEMMA Reported ==
  ASSUME NEW path, NEW f, NEW target, NEW o
  PROVE  LET found == check(path, f, target, o)
         IN  /\ found.kind = classify(f)
             /\ Measured(f, target, o) \subseteq found.findings
             /\ found.needs = UNION {x.needs : x \in Measured(f, target, o)}
  BY DEF check, Measured

\* What a file is when nothing asks to have it encoded again.
LEMMA Compliant ==
  ASSUME NEW f \in File, NEW target \in Targets, NEW o, classify(f) # None,
         \A x \in Measured(f, target, o) : x.severity # "Fatal" /\ "re_encode" \notin x.needs
  PROVE  /\ target = LEGACY_PANORAMA
         /\ f.size > 0 /\ f.video /\ f.rotation = 0 /\ f.dims = target.dims
         /\ classify(f) = "Image" => f.codec \in {"png", "mjpeg"}
         /\ classify(f) # "Image" => /\ compliant_codec(f) /\ f.pix = "yuv420p"
                                     /\ Distance(f.rate, 1000 * target.fps) < 50
                                     /\ f.rate # None /\ ~f.bframes
<1> DEFINE M == Measured(f, target, o)
<1>1. check_size(f) \cup check_format(target) \subseteq M
  BY DEF Measured
<1>2. \A code, needs : auto(code, needs) \in M => "re_encode" \notin needs
  BY DEF auto, Finding
<1>3. \A code, needs : decide(code, needs) \in M => "re_encode" \notin needs
  BY DEF decide, Finding
<1>4. \A code : fatal(code) \notin M
  BY DEF fatal, Finding
<1>5. target.format = "Mp4"
  BY <1>1, <1>2 DEF check_format
<1>6. target = LEGACY_PANORAMA
  BY <1>5 DEF Targets, KANALI_PANORAMA, KANALI_TURRIS, LEGACY_PANORAMA
<1>7. f.size > 0
  BY <1>1, <1>4 DEF check_size, File
<1>8. f.video
  BY DEF classify, HasVideo
<1>9. check_geometry(f, target, o) \subseteq M /\ check_pixels(f, o.tonemap) \subseteq M
  BY DEF Measured, check_image, check_video
<1> DEFINE shown == display_dims(f)
<1>10. f.rotation = 0 /\ shown[1] = f.dims[1]
  BY <1>2, <1>9 DEF check_geometry
<1>11. shown = target.dims
  <2>1. ASSUME o.explicit, shown # target.dims, ~aspect_matches(shown, target), 0 \notin {shown[1], shown[2]}
        PROVE  FALSE
    <3>1. Finding("ASPECT", "Ok", {"re_encode"}) \in M
      BY <1>9, <2>1 DEF check_geometry
    <3>2. "re_encode" \in Finding("ASPECT", "Ok", {"re_encode"}).needs
      BY DEF Finding
    <3> QED
      BY <3>1, <3>2
  <2> QED
    BY <1>2, <1>3, <1>4, <1>9, <2>1 DEF check_geometry
<1>12. f.dims = target.dims
  BY <1>6, <1>10, <1>11 DEF display_dims, File, LEGACY_PANORAMA
<1>13. ASSUME classify(f) = "Image"
       PROVE  f.codec \in {"png", "mjpeg"}
  <2>1. check_image(f, target, o) \subseteq M
    BY <1>13 DEF Measured
  <2> QED
    BY <2>1, <1>2 DEF check_image
<1>14. ASSUME classify(f) # "Image"
       PROVE  /\ compliant_codec(f) /\ f.pix = "yuv420p"
              /\ Distance(f.rate, 1000 * target.fps) < 50 /\ f.rate # None /\ ~f.bframes
  <2>1. check_video(f, target, o) \subseteq M
    BY <1>14 DEF Measured
  <2>2. compliant_codec(f) /\ ~f.bframes
    BY <2>1, <1>2 DEF check_video, File
  <2>3. check_rate(f, target) \in M
    BY <2>1 DEF check_video
  <2>4. Distance(f.rate, 1000 * target.fps) < 50 /\ f.rate # None
    BY <2>3, <1>2 DEF check_rate
  <2>5. f.codec \in {"png", "mjpeg"} \/ f.pix = "yuv420p"
    BY <1>2, <1>3, <1>9 DEF check_pixels
  <2> QED
    BY <2>2, <2>4, <2>5 DEF compliant_codec
<1> QED
  BY <1>6, <1>7, <1>8, <1>10, <1>12, <1>13, <1>14

\* What it is when nothing asks to have it rewrapped either.
LEMMA Contained ==
  ASSUME NEW f \in File, NEW o, classify(f) \notin {None, "Image"},
         \A x \in Measured(f, LEGACY_PANORAMA, o) : "remux" \notin x.needs
  PROVE  f.container = "mp4" /\ ~f.audio
<1>1. check_video(f, LEGACY_PANORAMA, o) \subseteq Measured(f, LEGACY_PANORAMA, o)
  BY DEF Measured
<1>2. \A code, needs : auto(code, needs) \in Measured(f, LEGACY_PANORAMA, o) => "remux" \notin needs
  BY DEF auto, Finding
<1> QED
  BY <1>1, <1>2 DEF check_video, LEGACY_PANORAMA, File

\* Only a video is ever rewrapped.
LEMMA StillsAreNotRewrapped ==
  ASSUME NEW f, NEW target, NEW o, NEW x \in Measured(f, target, o), "remux" \in x.needs
  PROVE  classify(f) # "Image"
<1> SUFFICES ASSUME classify(f) = "Image" PROVE "remux" \notin x.needs
  OBVIOUS
<1>1. CASE x \in check_size(f) \cup check_transform(o) \cup check_trim(f, classify(f), o) \cup check_format(target)
  BY <1>1 DEF check_size, check_transform, check_trim, check_format, auto, fatal, Finding
<1>2. CASE x \in check_pixels(f, o.tonemap)
  BY <1>2 DEF check_pixels, ok, auto, decide, fatal, Finding
<1>3. CASE x \in check_geometry(f, target, o)
  BY <1>3 DEF check_geometry, ok, auto, decide, fatal, Finding
<1>4. CASE x \in {IF f.codec \in {"png", "mjpeg"} THEN ok("CODEC") ELSE auto("CODEC", {"re_encode"})}
  BY <1>4 DEF ok, auto, Finding
<1>5. CASE x = fatal("STREAM")
  BY <1>5 DEF fatal, Finding
<1> QED
  BY <1>1, <1>2, <1>3, <1>4, <1>5 DEF Measured, check_image

\* A finding that is fine asks for nothing, a transform apart.
LEMMA OkNeedsNothing ==
  ASSUME NEW f, NEW target, NEW o, check_transform(o) = {},
         NEW x \in Measured(f, target, o), x.severity = "Ok"
  PROVE  x.needs = {}
<1>1. ~o.explicit
  BY DEF check_transform
<1>2. CASE x \in check_size(f) \cup check_trim(f, classify(f), o) \cup check_format(target)
  BY <1>2 DEF check_size, check_trim, check_format, auto, fatal, Finding
<1>3. CASE x \in check_pixels(f, o.tonemap)
  BY <1>3 DEF check_pixels, ok, auto, decide, fatal, Finding
<1>4. CASE x \in check_geometry(f, target, o)
  BY <1>1, <1>4 DEF check_geometry, ok, auto, decide, fatal, Finding
<1>5. CASE x \in check_image(f, target, o) \ (check_pixels(f, o.tonemap) \cup check_geometry(f, target, o))
  BY <1>5 DEF check_image, ok, auto, Finding
<1>6. CASE x \in check_video(f, target, o) \ (check_pixels(f, o.tonemap) \cup check_geometry(f, target, o))
  BY <1>6 DEF check_video, check_rate, ok, auto, Finding
<1>7. CASE x = fatal("STREAM")
  BY <1>7 DEF fatal, Finding
<1> QED
  BY <1>2, <1>3, <1>4, <1>5, <1>6, <1>7 DEF Measured

-----------------------------------------------------------------------------
(* The transform.                                                          *)

LEMMA MaxOf ==
  ASSUME NEW a \in Int, NEW b \in Int
  PROVE  Max({a, b}) = IF a > b THEN a ELSE b
  BY DEF Max

LEMMA MinOf ==
  ASSUME NEW a \in Int, NEW b \in Int
  PROVE  Min({a, b}) = IF a < b THEN a ELSE b
  BY DEF Min

\* A picture scaled to cover a side and zoomed still covers it.
LEMMA ZoomedCovers ==
  ASSUME NEW n \in Nat, NEW zoom \in Nat, 1000 <= zoom
  PROVE  /\ 2 * (((2 * ((n + 1) \div 2)) * zoom) \div 2000) \in Nat
         /\ n <= 2 * (((2 * ((n + 1) \div 2)) * zoom) \div 2000)
<1> DEFINE h == (n + 1) \div 2
<1>1. h \in Nat /\ n <= 2 * h
  OBVIOUS
<1> HIDE DEF h
<1>2. h * zoom \in Nat /\ 1000 * h <= h * zoom
  BY <1>1
<1>3. (2 * h) * zoom = 2 * (h * zoom)
  BY <1>1
<1> DEFINE p == h * zoom
<1>4. p \in Nat /\ 1000 * h <= p
  BY <1>2
<1> HIDE DEF p
<1>5. (2 * p) \div 2000 \in Nat /\ h <= (2 * p) \div 2000
  BY <1>1, <1>4
<1>6. ((2 * h) * zoom) \div 2000 = (2 * p) \div 2000
  BY <1>3 DEF p
<1> QED
  BY <1>1, <1>5, <1>6 DEF h

\* Wherever the focus is, the viewport stays within what is left over.
LEMMA FocusStays ==
  ASSUME NEW rest \in Nat, NEW focus \in Nat, focus <= 10000
  PROVE  /\ 2 * ((rest * focus) \div 20000) \in Nat
         /\ 2 * ((rest * focus) \div 20000) <= rest
<1> DEFINE p == rest * focus
<1>1. p \in Nat /\ p <= 10000 * rest
  OBVIOUS
<1> HIDE DEF p
<1>2. p \div 20000 \in Nat /\ 2 * (p \div 20000) <= rest
  BY <1>1
<1> QED
  BY <1>2 DEF p

\* The graph of every valid transform has the pixels it asks for, whatever
\* the size of the picture.
LEMMA ViewportFits ==
  ASSUME NEW dims \in (Nat \ {0}) \X (Nat \ {0}), NEW target \in Targets, NEW t, validate(t)
  PROVE  cover_viewport(dims, target, t)
<1>1. target.dims \in Nat \X Nat
  BY DEF Targets, LEGACY_PANORAMA, KANALI_PANORAMA, KANALI_TURRIS
<1> DEFINE zoom == t.zoom
           focus == t.focus
<1>2. /\ zoom \in Nat /\ 1000 <= zoom
      /\ \A i \in 1 .. 2 : focus[i] \in Nat /\ focus[i] <= 10000
  BY DEF validate
<1> HIDE DEF zoom, focus
<1> DEFINE scaled(i, j) == Max({target.dims[i], (2 * target.dims[j] * dims[i] + dims[j]) \div (2 * dims[j])})
           zoomed(n) == 2 * (((2 * ((n + 1) \div 2)) * zoom) \div 2000)
           whole == Covering(dims, target, zoom)
<1>3. ASSUME NEW i \in 1 .. 2, NEW j \in 1 .. 2
      PROVE  scaled(i, j) \in Nat /\ target.dims[i] <= scaled(i, j)
  <2> DEFINE a == 2 * target.dims[j] * dims[i] + dims[j]
             b == 2 * dims[j]
  <2>1. target.dims[i] \in Nat /\ target.dims[j] \in Nat /\ dims[i] \in Nat /\ dims[j] \in Nat \ {0}
    BY <1>1
  <2>2. a \in Nat /\ b \in Nat \ {0}
    <3>1. \A p, q \in Nat : p * q \in Nat
      OBVIOUS
    <3>2. 2 * target.dims[j] \in Nat
      BY <2>1
    <3>3. (2 * target.dims[j]) * dims[i] \in Nat
      BY <2>1, <3>1, <3>2
    <3> QED
      BY <2>1, <3>3
  <2> HIDE DEF a, b
  <2>3. a \div b \in Nat
    BY <2>2
  <2>4. Max({target.dims[i], a \div b}) = IF target.dims[i] > a \div b THEN target.dims[i] ELSE a \div b
    BY <2>1, <2>3, MaxOf
  <2> QED
    BY <2>1, <2>3, <2>4 DEF a, b
<1>4. whole = <<zoomed(scaled(1, 2)), zoomed(scaled(2, 1))>>
  BY DEF Covering
<1> HIDE DEF scaled, whole
<1>5. ASSUME NEW n \in Nat
      PROVE  zoomed(n) \in Nat /\ n <= zoomed(n)
  BY <1>2, ZoomedCovers
<1> HIDE DEF zoomed
<1>6. /\ whole[1] \in Nat /\ target.dims[1] <= whole[1]
      /\ whole[2] \in Nat /\ target.dims[2] <= whole[2]
  <2>1. /\ scaled(1, 2) \in Nat /\ target.dims[1] <= scaled(1, 2)
        /\ scaled(2, 1) \in Nat /\ target.dims[2] <= scaled(2, 1)
    BY <1>3
  <2>2. /\ zoomed(scaled(1, 2)) \in Nat /\ scaled(1, 2) <= zoomed(scaled(1, 2))
        /\ zoomed(scaled(2, 1)) \in Nat /\ scaled(2, 1) <= zoomed(scaled(2, 1))
    BY <1>5, <2>1
  <2> QED
    BY <1>1, <1>4, <2>1, <2>2
<1>7. ASSUME NEW i \in 1 .. 2
      PROVE  LET corner == 2 * (((whole[i] - target.dims[i]) * focus[i]) \div 20000)
             IN  corner >= 0 /\ corner + target.dims[i] <= whole[i]
  <2> DEFINE side == target.dims[i]
             all == whole[i]
             at == focus[i]
             rest == all - side
  <2>1. side \in Nat /\ all \in Nat /\ side <= all
    BY <1>1, <1>6
  <2>2. at \in Nat /\ at <= 10000
    BY <1>2
  <2> HIDE DEF side, all, at
  <2>3. rest \in Nat
    BY <2>1
  <2> HIDE DEF rest
  <2>4. 2 * ((rest * at) \div 20000) \in Nat /\ 2 * ((rest * at) \div 20000) <= rest
    BY <2>2, <2>3, FocusStays
  <2> DEFINE corner == 2 * ((rest * at) \div 20000)
  <2>5. corner >= 0 /\ corner + side <= all
    <3>1. corner \in Nat /\ corner <= rest
      BY <2>4
    <3> HIDE DEF corner
    <3> QED
      BY <2>1, <3>1 DEF rest
  <2> QED
    BY <2>5 DEF rest, side, all, at
<1> QED
  BY <1>7 DEF cover_viewport, whole, zoom, focus

\* A file without the finding GEOMETRY has a picture in it, so its graph can
\* run.
LEMMA GraphRuns ==
  ASSUME NEW f \in File, NEW target \in Targets, NEW o, validate(o.transform), classify(f) # None,
         \A x \in Measured(f, target, o) : x.severity # "Fatal"
  PROVE  geometry_filter(f, target, o.transform)
<1> DEFINE shown == display_dims(f)
<1>1. check_geometry(f, target, o) \subseteq Measured(f, target, o)
  BY DEF Measured, check_image, check_video
<1>2. fatal("GEOMETRY").severity = "Fatal"
  BY DEF fatal, Finding
<1>3. 0 \notin {shown[1], shown[2]}
  BY <1>1, <1>2 DEF check_geometry
<1>4. shown \in Nat \X Nat
  <2> DEFINE turned == IF f.rotation \in {90, 270} THEN <<f.dims[2], f.dims[1]>> ELSE f.dims
  <2>1. turned[1] \in Nat /\ turned[2] \in Nat /\ f.sar[1] \in Nat /\ f.sar[2] \in Nat \ {0}
    BY DEF File
  <2>2. shown = <<(2 * turned[1] * f.sar[1] + f.sar[2]) \div (2 * f.sar[2]), turned[2]>>
    BY DEF display_dims
  <2> HIDE DEF turned, shown
  <2>3. 2 * turned[1] \in Nat
    BY <2>1
  <2>4. \A p, q \in Nat : p * q \in Nat
    OBVIOUS
  <2>5. (2 * turned[1]) * f.sar[1] \in Nat
    BY <2>1, <2>3, <2>4
  <2> DEFINE a == 2 * turned[1] * f.sar[1] + f.sar[2]
             b == 2 * f.sar[2]
  <2>6. a \in Nat /\ b \in Nat \ {0}
    BY <2>1, <2>5
  <2> HIDE DEF a, b
  <2>7. a \div b \in Nat
    BY <2>6
  <2> QED
    BY <2>1, <2>2, <2>7 DEF a, b
<1> HIDE DEF shown
<1> DEFINE turned == IF o.transform.turns \in {1, 3} THEN <<shown[2], shown[1]>> ELSE shown
<1>5. turned \in (Nat \ {0}) \X (Nat \ {0})
  BY <1>3, <1>4
<1> HIDE DEF turned
<1>6. cover_viewport(turned, target, o.transform)
  BY <1>5, ViewportFits
<1> QED
  BY <1>6 DEF geometry_filter, turned, shown

-----------------------------------------------------------------------------
(* What ffmpeg makes of it.                                                *)

Trims == {None} \cup [start : Nat, end : Nat \cup {None}]

LEMMA FramesType ==
  ASSUME NEW f \in File, NEW target \in Targets, NEW p, p.trim \in Trims
  PROVE  Frames(f, target, p) \in Nat
<1> DEFINE from == IF p.trim = None THEN 0 ELSE p.trim.start
           end == IF p.trim = None \/ p.trim.end = None THEN f.length
                  ELSE Min({p.trim.end, f.length})
<1>1. target.fps = 30
  BY DEF Targets, LEGACY_PANORAMA, KANALI_PANORAMA, KANALI_TURRIS
<1>2. from \in Nat /\ f.length \in Nat
  BY DEF Trims, File
<1>3. end \in Nat
  <2>1. CASE p.trim = None \/ p.trim.end = None
    BY <1>2, <2>1
  <2>2. CASE ~(p.trim = None \/ p.trim.end = None)
    <3>1. p.trim.end \in Nat
      BY <2>2 DEF Trims
    <3>2. Min({p.trim.end, f.length}) = IF p.trim.end < f.length THEN p.trim.end ELSE f.length
      BY <1>2, <3>1, MinOf
    <3> QED
      BY <1>2, <2>2, <3>1, <3>2
  <2> QED
    BY <2>1, <2>2
<1> HIDE DEF from, end
<1>4. end <= from \/ 1 + ((end - from) * 30) \div 100 \in Nat
  BY <1>2, <1>3
<1>5. Frames(f, target, p) =
        IF p.kind = "Image" THEN IF target.format = "RawH264" THEN 60 * target.fps ELSE 1
        ELSE IF Mapped(f) = "cover" THEN 1
        ELSE IF end <= from THEN 0 ELSE 1 + ((end - from) * target.fps) \div 100
  BY DEF Frames, from, end
<1> QED
  BY <1>1, <1>4, <1>5

\* The facts of an encoded file that its display, or verify, looks at.
EncodedAs(e, target, codec, n) ==
  /\ e.codec = codec /\ e.dims = target.dims /\ e.rotation = 0 /\ e.frames = n
  /\ e.video = (n > 0) /\ e.size \in Nat /\ (n > 0 => e.size > 0)
  /\ e.audio = FALSE
  /\ codec = "png" => e.container = "png_pipe"
  /\ codec = "h264" => e.pix = "yuv420p"
  /\ codec = "h264" /\ target.format = "Mp4" =>
       /\ e.container = "mp4" /\ e.profile = "High" /\ e.level = 41
       /\ e.rate = 1000 * target.fps /\ e.bframes = FALSE
  /\ codec = "h264" /\ target.format # "Mp4" => e.container = "h264"
  /\ codec = "h264" /\ target.format = "Mxhd" => e.profile = "Main" /\ e.bframes = FALSE

LEMMA EncodedFacts ==
  ASSUME NEW f, NEW target, NEW p, Frames(f, target, p) \in Nat
  PROVE  EncodedAs(Encoded(f, target, p), target, p.codec, Frames(f, target, p))
<1> DEFINE e == Encoded(f, target, p)
           n == Frames(f, target, p)
<1>1. /\ e.codec = p.codec /\ e.dims = target.dims /\ e.rotation = 0 /\ e.frames = n
      /\ e.video = (n > 0) /\ e.audio = FALSE
  BY DEF Encoded
<1>2. e.size = IF target.format # "Mp4" /\ n = 0 THEN 0 ELSE 1
  BY DEF Encoded
<1>3. e.container = IF p.codec = "png" THEN "png_pipe" ELSE IF target.format # "Mp4" THEN "h264" ELSE "mp4"
  BY DEF Encoded
<1>4. /\ e.pix = IF p.codec = "png" THEN "rgb24" ELSE "yuv420p"
      /\ e.bframes = (target.format = "RawH264")
  BY DEF Encoded
<1>5. e.profile = IF p.codec = "png" THEN None ELSE IF target.format = "Mxhd" THEN "Main" ELSE "High"
  BY DEF Encoded
<1>6. e.level = IF p.codec = "png" THEN None ELSE IF target.format = "RawH264" THEN 50 ELSE 41
  BY DEF Encoded
<1>7. e.rate = IF target.format # "Mp4" THEN 2000 * target.fps ELSE 1000 * target.fps
  BY DEF Encoded
<1> HIDE DEF e, n
<1>8. e.size \in Nat /\ (n > 0 => e.size > 0)
  BY <1>2
<1>9. p.codec = "png" => e.container = "png_pipe"
  BY <1>3
<1>10. p.codec = "h264" => e.pix = "yuv420p"
  BY <1>4
<1>11. p.codec = "h264" /\ target.format = "Mp4" =>
         /\ e.container = "mp4" /\ e.profile = "High" /\ e.level = 41
         /\ e.rate = 1000 * target.fps /\ e.bframes = FALSE
  <2> SUFFICES ASSUME p.codec = "h264", target.format = "Mp4"
               PROVE  /\ e.container = "mp4" /\ e.profile = "High" /\ e.level = 41
                      /\ e.rate = 1000 * target.fps /\ e.bframes = FALSE
    OBVIOUS
  <2>1. e.container = "mp4" /\ e.profile = "High"
    BY <1>3, <1>5
  <2>2. e.level = 41
    BY <1>6
  <2>3. e.rate = 1000 * target.fps
    BY <1>7
  <2>4. e.bframes = FALSE
    BY <1>4
  <2> QED
    BY <2>1, <2>2, <2>3, <2>4
<1>12. p.codec = "h264" /\ target.format # "Mp4" => e.container = "h264"
  BY <1>3
<1>13. p.codec = "h264" /\ target.format = "Mxhd" => e.profile = "Main" /\ e.bframes = FALSE
  BY <1>4, <1>5
<1> QED
  BY <1>1, <1>8, <1>9, <1>10, <1>11, <1>12, <1>13, Zenon DEF EncodedAs, e, n

LEMMA RewrappedFacts ==
  ASSUME NEW f \in File
  PROVE  LET e == Rewrapped(f)
         IN  /\ e.container = "mp4" /\ ~e.audio /\ e.size = f.size /\ e.video = f.video
             /\ e.dims = f.dims /\ e.rotation = f.rotation /\ e.pix = f.pix /\ e.rate = f.rate
             /\ e.bframes = f.bframes /\ e.profile = f.profile /\ e.level = f.level
             /\ IF Mapped(f) = "video" THEN e.codec = f.codec ELSE e.codec = "mjpeg"
  BY DEF Rewrapped, File

-----------------------------------------------------------------------------
(* The plan of an accepted report.                                         *)

\* analyse has accepted the file, and the plan is the one made for it.
Decided ==
  LET found == check(job.source.path, file, job.target, asked)
  IN  /\ job.source \in Sources /\ job.target \in Targets /\ validate(asked.transform)
      /\ analysis = [report |-> found,
                     plan |-> IF found.kind = None THEN None ELSE from_report(found, job.target, asked)]
      /\ acceptable(found, job.strict)

Findings == Measured(file, job.target, asked)

LEMMA Accepted ==
  ASSUME Decided
  PROVE  /\ file \in File /\ job.target \in Targets /\ validate(asked.transform)
         /\ classify(file) # None
         /\ \A x \in Findings : x.severity # "Fatal" /\ (job.strict => x.severity = "Ok")
         /\ report.needs = UNION {x.needs : x \in Findings}
         /\ report.kind = classify(file)
         /\ plan = from_report(report, job.target, asked)
<1> DEFINE found == check(job.source.path, file, job.target, asked)
<1>1. file \in File /\ job.target \in Targets /\ validate(asked.transform)
  BY SourcesAssumption DEF Decided, file
<1>2. /\ found.kind = classify(file)
      /\ Findings \subseteq found.findings
      /\ found.needs = UNION {x.needs : x \in Findings}
  BY Reported DEF Findings
<1>3. report = found
  BY DEF Decided, report
<1>4. acceptable(found, job.strict)
  BY DEF Decided
<1> HIDE DEF found
<1>5. \A x \in Findings : x.severity # "Fatal" /\ (job.strict => x.severity = "Ok")
  BY <1>2, <1>4 DEF acceptable, Severities
<1>6. classify(file) # None
  <2>1. fatal("STREAM").severity = "Fatal"
    BY DEF fatal, Finding
  <2>2. classify(file) = None => fatal("STREAM") \in Findings
    BY DEF Findings, Measured
  <2> QED
    BY <1>5, <2>1, <2>2
<1>7. plan = from_report(report, job.target, asked)
  BY <1>2, <1>3, <1>6 DEF Decided, plan, found
<1> QED
  BY <1>1, <1>2, <1>3, <1>5, <1>6, <1>7

LEMMA PlanFacts ==
  ASSUME Decided
  PROVE  /\ plan.kind = classify(file)
         /\ plan.action \in {"Passthrough", "Remux", "Encode"}
         /\ plan.action = "Encode" <=> "re_encode" \in report.needs
         /\ plan.action = "Remux" => "remux" \in report.needs
         /\ "remux" \in report.needs => plan.action # "Passthrough"
         /\ plan.codec = IF plan.action # "Encode" THEN "copy"
                         ELSE IF plan.kind = "Image" /\ job.target.format = "Mp4" THEN "png" ELSE "h264"
         /\ plan.trim \in Trims
<1>1. asked.trim \in Trims
  BY SourcesAssumption DEF Decided, asked, Trims
<1>2. plan = from_report(report, job.target, asked) /\ report.kind = classify(file)
  BY Accepted
<1>3. /\ plan.kind = report.kind
      /\ plan.action = IF "re_encode" \in report.needs THEN "Encode"
                       ELSE IF "remux" \in report.needs THEN "Remux" ELSE "Passthrough"
      /\ plan.codec = IF plan.action # "Encode" THEN "copy"
                      ELSE IF report.kind = "Image" /\ job.target.format = "Mp4" THEN "png" ELSE "h264"
      /\ plan.trim = IF report.kind = "Image" THEN None ELSE asked.trim
  BY <1>2 DEF from_report
<1> QED
  BY <1>1, <1>2, <1>3 DEF Trims

\* What is not encoded again is a file that a cm01 display plays, its
\* container and its sound apart.
LEMMA AsItIs ==
  ASSUME Decided, plan.action # "Encode"
  PROVE  /\ job.target = LEGACY_PANORAMA
         /\ file.size > 0 /\ file.video /\ file.rotation = 0 /\ file.dims = job.target.dims
         /\ classify(file) = "Image" => file.codec \in {"png", "mjpeg"}
         /\ classify(file) # "Image" => /\ compliant_codec(file) /\ file.pix = "yuv420p"
                                        /\ Distance(file.rate, 1000 * job.target.fps) < 50
                                        /\ file.rate # None /\ ~file.bframes
<1>1. \A x \in Findings : x.severity # "Fatal" /\ "re_encode" \notin x.needs
  BY Accepted, PlanFacts
<1> QED
  BY <1>1, Accepted, Compliant DEF Findings

LEMMA PassedPlays ==
  ASSUME Decided, plan.action = "Passthrough"
  PROVE  Plays(job.target, file) /\ file.size > 0 /\ HasVideo(file)
<1>1. \A x \in Findings : "remux" \notin x.needs
  BY Accepted, PlanFacts
<1>2. job.target = LEGACY_PANORAMA /\ job.target.format = "Mp4"
  BY AsItIs DEF LEGACY_PANORAMA
<1>3. /\ file.size > 0 /\ HasVideo(file) /\ file.dims = job.target.dims /\ file.rotation = 0
  BY AsItIs DEF HasVideo
<1>4. CASE classify(file) = "Image"
  <2>1. file.container \in IMAGE_CONTAINERS
    BY <1>4, Accepted DEF classify
  <2>2. file.codec \in {"png", "mjpeg"}
    BY <1>4, AsItIs
  <2>3. file.container \notin {"webp_pipe", "gif"}
    BY <2>2, SourcesAssumption DEF Decided, file
  <2> QED
    BY <1>2, <1>3, <2>1, <2>2, <2>3 DEF Plays, IMAGE_CONTAINERS
<1>5. CASE classify(file) # "Image"
  <2>1. file \in File /\ classify(file) \notin {None, "Image"}
    BY <1>5, Accepted
  <2>2. file.container = "mp4" /\ ~file.audio
    BY <1>1, <1>2, <2>1, Contained DEF Findings
  <2>3. /\ compliant_codec(file) /\ file.pix = "yuv420p"
        /\ Distance(file.rate, 1000 * job.target.fps) < 50 /\ ~file.bframes
    BY <1>5, AsItIs
  <2> QED
    BY <1>2, <1>3, <2>2, <2>3 DEF Plays
<1> QED
  BY <1>3, <1>4, <1>5

LEMMA RewrappedPlays ==
  ASSUME Decided, plan.action = "Remux"
  PROVE  /\ verify(Rewrapped(file)) => Plays(job.target, Rewrapped(file))
         /\ Mapped(file) = "video" => verify(Rewrapped(file))
         /\ Rewrapped(file).size \in Nat
         /\ job.target.format = "Mp4"
<1> DEFINE e == Rewrapped(file)
<1>1. PICK x \in Findings : "remux" \in x.needs
  BY Accepted, PlanFacts
<1>2. classify(file) # "Image"
  BY <1>1, StillsAreNotRewrapped DEF Findings
<1>3. job.target = LEGACY_PANORAMA /\ job.target.format = "Mp4"
  BY AsItIs DEF LEGACY_PANORAMA
<1>4. /\ file.size > 0 /\ file.video /\ file.dims = job.target.dims /\ file.rotation = 0
      /\ compliant_codec(file) /\ file.pix = "yuv420p"
      /\ Distance(file.rate, 1000 * job.target.fps) < 50 /\ ~file.bframes
  BY <1>2, AsItIs
<1>5. file \in File
  BY Accepted
<1>6. /\ e.container = "mp4" /\ ~e.audio /\ e.size = file.size /\ e.video = file.video
      /\ e.dims = file.dims /\ e.rotation = file.rotation /\ e.pix = file.pix /\ e.rate = file.rate
      /\ e.bframes = file.bframes /\ e.profile = file.profile /\ e.level = file.level
      /\ IF Mapped(file) = "video" THEN e.codec = file.codec ELSE e.codec = "mjpeg"
  BY <1>5, RewrappedFacts
<1> HIDE DEF e
<1>7. verify(e) => Mapped(file) = "video"
  BY <1>3, <1>6 DEF verify
<1>8. Mapped(file) = "video" => Plays(job.target, e)
  <2> SUFFICES ASSUME Mapped(file) = "video" PROVE Plays(job.target, e)
    OBVIOUS
  <2>1. compliant_codec(e)
    <3>1. e.codec = file.codec /\ e.profile = file.profile /\ e.level = file.level
      BY <1>6
    <3>2. compliant_codec(file)
      BY <1>4
    <3>3. e.codec = "h264" /\ e.profile \in {"Baseline", "Constrained Baseline", "Main", "High"}
      BY <3>1, <3>2 DEF compliant_codec
    <3>4. file.level = None \/ file.level <= 41
      BY <3>2 DEF compliant_codec
    <3>5. e.level = None \/ e.level <= 41
      BY <3>1, <3>4, Zenon
    <3> QED
      BY <3>3, <3>5 DEF compliant_codec
  <2>2. Distance(e.rate, 1000 * job.target.fps) < 50
    BY <1>4, <1>6
  <2>3. e.size > 0 /\ HasVideo(e) /\ e.dims = job.target.dims /\ e.rotation = 0
    BY <1>4, <1>6 DEF HasVideo
  <2> QED
    BY <1>3, <1>4, <1>6, <2>1, <2>2, <2>3 DEF Plays
<1>9. Mapped(file) = "video" => verify(e)
  <2>1. Mapped(file) = "video" => e.codec = "h264"
    BY ZenonT(60), <1>4, <1>6 DEF compliant_codec
  <2> QED
    BY <1>3, <1>4, <1>6, <2>1 DEF verify, HasVideo
<1>10. e.size \in Nat
  BY <1>5, <1>6 DEF File
<1> QED
  BY <1>3, <1>7, <1>8, <1>9, <1>10 DEF e

\* The header changes nothing of the stream.
LEMMA WrappedFacts ==
  ASSUME NEW f, NEW target, NEW p, out = Encoded(f, target, p)
  PROVE  /\ Wrapped.container = "mxhd"
         /\ Wrapped.header.frames = out.frames
         /\ Wrapped.header.kind = IF plan.kind = "Image" THEN 2 ELSE 4
         /\ Wrapped.codec = out.codec /\ Wrapped.profile = out.profile
         /\ Wrapped.bframes = out.bframes /\ Wrapped.audio = out.audio /\ Wrapped.size = out.size
         /\ Wrapped.video = out.video /\ Wrapped.dims = out.dims /\ Wrapped.rotation = out.rotation
         /\ Wrapped.frames = out.frames
<1>1. {"container", "header", "codec", "profile", "bframes", "audio", "size", "video", "dims",
       "rotation", "frames"} \subseteq DOMAIN out
  BY DEF Encoded
<1> QED
  BY <1>1 DEF Wrapped

LEMMA EncodedPlays ==
  ASSUME Decided, plan.action = "Encode", out = Encoded(file, job.target, plan), verify(out),
         job.target.format = "Mxhd" /\ plan.kind = "Image" => out.frames = 1
  PROVE  Plays(job.target, IF job.target.format = "Mxhd" THEN Wrapped ELSE out)
<1> DEFINE target == job.target
           n == Frames(file, target, plan)
<1>1. target.format \in {"Mp4", "RawH264", "Mxhd"}
  BY Accepted DEF Targets, LEGACY_PANORAMA, KANALI_PANORAMA, KANALI_TURRIS
<1>2. target.format = "Mp4" => target = LEGACY_PANORAMA
  BY Accepted DEF Targets, LEGACY_PANORAMA, KANALI_PANORAMA, KANALI_TURRIS
<1>3. plan.codec = IF plan.kind = "Image" /\ target.format = "Mp4" THEN "png" ELSE "h264"
  BY PlanFacts
<1>4. n \in Nat
  BY Accepted, PlanFacts, FramesType
<1>5. /\ out.codec = plan.codec /\ out.dims = target.dims /\ out.rotation = 0 /\ out.audio = FALSE
      /\ plan.codec = "png" => out.container = "png_pipe"
      /\ plan.codec = "h264" => out.pix = "yuv420p"
      /\ plan.codec = "h264" /\ target.format = "Mp4" =>
           /\ out.container = "mp4" /\ out.profile = "High" /\ out.level = 41
           /\ out.rate = 1000 * target.fps /\ out.bframes = FALSE
      /\ plan.codec = "h264" /\ target.format # "Mp4" => out.container = "h264"
      /\ plan.codec = "h264" /\ target.format = "Mxhd" => out.profile = "Main" /\ out.bframes = FALSE
  <2>1. EncodedAs(out, target, plan.codec, n)
    BY <1>4, EncodedFacts
  <2> HIDE DEF n
  <2> QED
    BY <2>1, Zenon DEF EncodedAs
<1>6. out.size > 0 /\ HasVideo(out)
  BY DEF verify
<1>7. CASE plan.codec = "png"
  <2>1. target.format = "Mp4"
    BY <1>3, <1>7
  <2> QED
    BY <1>5, <1>6, <1>7, <2>1 DEF Plays
<1>8. CASE plan.codec = "h264" /\ target.format = "Mp4"
  <2>1. compliant_codec(out)
    <3>1. out.level <= 41
      BY <1>5, <1>8
    <3>2. out.codec = "h264" /\ out.profile = "High"
      BY <1>5, <1>8
    <3> QED
      BY <3>1, <3>2 DEF compliant_codec
  <2>2. Distance(out.rate, 1000 * target.fps) < 50
    <3>1. out.rate = 30000 /\ 1000 * target.fps = 30000
      BY <1>2, <1>5, <1>8 DEF LEGACY_PANORAMA
    <3> QED
      BY <3>1 DEF Distance
  <2> QED
    BY <1>5, <1>6, <1>8, <2>1, <2>2 DEF Plays
<1>9. CASE target.format = "RawH264"
  BY <1>3, <1>5, <1>6, <1>9 DEF Plays
<1>10. CASE target.format = "Mxhd"
  <2>1. plan.codec = "h264" /\ target.format # "Mp4"
    BY <1>3, <1>10
  <2>2. /\ Wrapped.container = "mxhd" /\ Wrapped.codec = "h264" /\ Wrapped.profile = "Main"
        /\ ~Wrapped.bframes /\ ~Wrapped.audio /\ Wrapped.header.frames = Wrapped.frames
    BY <1>5, <1>10, <2>1, WrappedFacts
  <2>3. Wrapped.header.kind = 2 => Wrapped.frames = 1
    <3>1. Wrapped.header.kind = IF plan.kind = "Image" THEN 2 ELSE 4
      BY WrappedFacts
    <3>2. Wrapped.header.kind = 2 => plan.kind = "Image"
      BY <3>1
    <3>3. Wrapped.frames = out.frames
      BY WrappedFacts
    <3> QED
      BY <1>10, <3>2, <3>3
  <2>4. Wrapped.size > 0 /\ HasVideo(Wrapped) /\ Wrapped.dims = target.dims /\ Wrapped.rotation = 0
    BY <1>5, <1>6, WrappedFacts DEF HasVideo
  <2> QED
    BY <1>10, <2>2, <2>3, <2>4 DEF Plays
<1> QED
  BY <1>1, <1>3, <1>7, <1>8, <1>9, <1>10

\* What ffmpeg was told is what verify asks for.
LEMMA EncodedVerifies ==
  ASSUME Decided, plan.action = "Encode", out = Encoded(file, job.target, plan)
  PROVE  /\ out.size \in Nat
         /\ Frames(file, job.target, plan) # 0 =>
              /\ verify(out)
              /\ job.target.format = "Mxhd" /\ plan.kind = "Image" => out.frames = 1
<1> DEFINE target == job.target
           n == Frames(file, target, plan)
<1>1. target.format \in {"Mp4", "RawH264", "Mxhd"} /\ target.fps = 30
  BY Accepted DEF Targets, LEGACY_PANORAMA, KANALI_PANORAMA, KANALI_TURRIS
<1>2. plan.codec = IF plan.kind = "Image" /\ target.format = "Mp4" THEN "png" ELSE "h264"
  BY PlanFacts
<1>3. n \in Nat
  BY Accepted, PlanFacts, FramesType
<1>4. /\ out.codec = plan.codec /\ out.dims = target.dims /\ out.audio = FALSE /\ out.frames = n
      /\ out.video = (n > 0) /\ out.size \in Nat /\ (n > 0 => out.size > 0)
      /\ plan.codec = "h264" /\ target.format = "Mp4" =>
           /\ out.container = "mp4" /\ out.rate = 1000 * target.fps
      /\ plan.codec = "h264" /\ target.format # "Mp4" => out.container = "h264"
  <2>1. EncodedAs(out, target, plan.codec, n)
    BY <1>3, EncodedFacts
  <2> HIDE DEF n
  <2> QED
    BY <2>1, Zenon DEF EncodedAs
<1> HIDE DEF n
<1>5. target.format = "Mxhd" /\ plan.kind = "Image" => n = 1
  BY <1>1 DEF Frames, n
<1>6. ASSUME n # 0
      PROVE  verify(out)
  <2>1. out.size > 0 /\ HasVideo(out)
    <3>1. n > 0
      BY <1>3, <1>6
    <3>2. out.video = (n > 0) /\ (n > 0 => out.size > 0)
      BY <1>4
    <3> QED
      BY <3>1, <3>2 DEF HasVideo
  <2>2. CASE plan.kind = "Image" /\ target.format = "Mp4"
    BY <1>2, <1>4, <2>1, <2>2 DEF verify
  <2>3. CASE ~(plan.kind = "Image" /\ target.format = "Mp4")
    <3>1. plan.codec = "h264"
      BY <1>2, <2>3
    <3>2. out.codec = "h264" /\ out.container = IF target.format = "Mp4" THEN "mp4" ELSE "h264"
      BY <1>4, <3>1
    <3>3. target.format = "Mp4" => out.rate # None /\ Distance(out.rate, 1000 * target.fps) <= 50
      <4>1. target.format = "Mp4" => out.rate = 30000
        BY <1>1, <1>4, <3>1
      <4> QED
        BY <1>1, <4>1, MediaConstants DEF Distance
    <3>4. out.audio = FALSE /\ out.dims = target.dims
      BY <1>4
    <3>5. plan.action # "Passthrough" /\ plan.action # "Remux"
      OBVIOUS
    <3> QED
      BY <2>1, <2>3, <3>2, <3>3, <3>4, <3>5, Zenon DEF verify
  <2> QED
    BY <2>2, <2>3
<1> QED
  BY <1>4, <1>5, <1>6 DEF n

\* What a finished run leaves, before it is verified.
Made ==
  /\ plan.action = "Passthrough" /\ Aliased => out.size = 0
  /\ plan.action = "Passthrough" /\ ~Aliased => out = file
  /\ plan.action # "Passthrough" => ~Aliased
  /\ plan.action = "Encode" => out = Encoded(file, job.target, plan)
  /\ plan.action = "Remux" => out = Rewrapped(file)

-----------------------------------------------------------------------------
(* What is ready, and stays so.                                            *)

\* A file for a cm01 display with which nothing is to be done.
Ready(f) ==
  /\ f.size \in Nat /\ f.size > 0 /\ f.size <= MaxSource /\ f.video /\ ~f.hdr
  /\ f.rotation = 0 /\ f.dims = LEGACY_PANORAMA.dims /\ display_dims(f) = f.dims
  /\ f.pix \notin {"rgba", "yuva420p", "pal8"}
  /\ classify(f) = "Image" => f.codec \in {"png", "mjpeg"}
  /\ classify(f) # "Image" =>
       /\ compliant_codec(f) /\ f.pix = "yuv420p" /\ check_rate(f, LEGACY_PANORAMA) = ok("FPS")
       /\ ~f.bframes /\ f.container = "mp4" /\ ~f.audio

\* check says so.
LEMMA ReadyIsFine ==
  ASSUME NEW f, Ready(f)
  PROVE  \A x \in Measured(f, LEGACY_PANORAMA, DefaultOptions) : x.severity = "Ok" /\ x.needs = {}
<1> DEFINE o == DefaultOptions
           t == LEGACY_PANORAMA
           Fine(x) == x.severity = "Ok" /\ x.needs = {}
<1>1. \A code : Fine(ok(code))
  BY DEF ok, Finding
<1>2. o.explicit = FALSE /\ is_default(o.transform) /\ o.trim = None /\ t.format = "Mp4" /\ t.dims = <<1920, 960>>
  BY DEF DefaultOptions, is_default, LEGACY_PANORAMA
<1> HIDE DEF o, Fine
<1>3. check_size(f) = {}
  BY MediaConstants DEF check_size, Ready
<1>4. classify(f) # None
  BY MediaConstants DEF classify, HasVideo, Ready, Kinds
<1>5. check_transform(o) = {} /\ check_trim(f, classify(f), o) = {} /\ check_format(t) = {}
  BY <1>2 DEF check_transform, check_trim, check_format
<1>6. check_geometry(f, t, o) = {ok("RESOLUTION")}
  <2>1. f.rotation = 0 /\ f.dims = t.dims /\ display_dims(f) = f.dims
    BY DEF Ready
  <2>2. 0 \notin {f.dims[1], f.dims[2]}
    BY <1>2, <2>1
  <2> QED BY <2>1, <2>2 DEF check_geometry
<1>7. check_pixels(f, o.tonemap) = {ok("PIXFMT")}
  <2>1. f.codec \in {"png", "mjpeg"} \/ f.pix = "yuv420p"
    BY DEF Ready
  <2> QED BY <2>1 DEF check_pixels, Ready
<1>8. CASE classify(f) = "Image"
  <2>1. check_image(f, t, o) = {ok("CODEC"), ok("PIXFMT"), ok("RESOLUTION")}
    BY <1>6, <1>7, <1>8 DEF check_image, Ready
  <2>2. Measured(f, t, o) = check_image(f, t, o)
    BY <1>3, <1>4, <1>5, <1>8 DEF Measured
  <2> QED BY <1>1, <2>1, <2>2 DEF Fine, o
<1>9. CASE classify(f) # "Image"
  <2>1. check_video(f, t, o) = {ok("CODEC"), ok("FPS"), ok("PIXFMT"), ok("RESOLUTION"), ok("CONTAINER")}
    <3>1. compliant_codec(f) /\ check_rate(f, t) = ok("FPS") /\ ~f.bframes /\ f.container = "mp4" /\ ~f.audio
      BY <1>9 DEF Ready
    <3> HIDE DEF t
    <3> QED BY <1>2, <1>6, <1>7, <3>1 DEF check_video
  <2>2. Measured(f, t, o) = check_video(f, t, o)
    BY <1>3, <1>4, <1>5, <1>9 DEF Measured
  <2> QED BY <1>1, <2>1, <2>2 DEF Fine, o
<1> QED
  BY <1>8, <1>9

\* Hence it is accepted, under a name that a display takes, as it is.
LEMMA ReadySettles ==
  ASSUME NEW f, Ready(f), NEW name, Tidy(name.stem), name = [stem |-> name.stem, ext |-> name.ext],
         name.ext = IF classify(f) # "Image" THEN "mp4"
                    ELSE IF name.ext \in {"png", "jpg"} THEN name.ext ELSE "png"
  PROVE  LET again == check(name, f, LEGACY_PANORAMA, DefaultOptions)
         IN  acceptable(again, TRUE) /\ again.needs = {} /\ again.name = name
<1> DEFINE o == DefaultOptions
           t == LEGACY_PANORAMA
           M == Measured(f, t, o)
           kind == classify(f)
           needs == UNION {x.needs : x \in M}
           passthrough == kind # None /\ {"re_encode", "remux"} \cap needs = {}
           ext == extension_of(name, kind, passthrough)
           stem == stem_of(name, o.name, ext)
           renamed == IF kind # None /\ sanitize_stem(stem) # stem THEN {auto("NAME", {})} ELSE {}
           again == check(name, f, t, o)
<1>1. again = [kind |-> kind, findings |-> M \cup renamed, needs |-> needs,
               name |-> [stem |-> sanitize_stem(stem), ext |-> ext]]
  BY DEF check, Measured
<1>2. \A x \in M : x.severity = "Ok" /\ x.needs = {}
  BY ReadyIsFine
<1>3. kind # None
  BY MediaConstants DEF classify, HasVideo, Ready, Kinds
<1>4. o.name = None
  BY DEF DefaultOptions
<1> HIDE DEF M, o, t, kind
<1>5. needs = {}
  BY <1>2
<1>6. passthrough
  BY <1>3, <1>5
<1> HIDE DEF needs, passthrough
<1>7. ext = name.ext
  BY <1>6 DEF extension_of, kind
<1>8. stem = name.stem
  BY <1>4 DEF stem_of
<1>9. sanitize_stem(name.stem) = name.stem
  BY TidyStays
<1>10. renamed = {}
  BY <1>8, <1>9
<1>11. again.findings = M /\ again.needs = {} /\ again.name = name
  BY <1>1, <1>5, <1>7, <1>8, <1>9, <1>10
<1> HIDE DEF again
<1>12. acceptable(again, TRUE)
  <2>1. \A s \in Severities(again) : s = "Ok"
    BY <1>2, <1>11 DEF Severities
  <2> QED BY <2>1 DEF acceptable
<1> QED
  BY <1>11, <1>12 DEF again, o, t

\* What is more about a file when nothing asks to have it encoded again.
LEMMA CompliantToo ==
  ASSUME NEW f \in File, NEW target \in Targets, NEW o, classify(f) # None,
         \A x \in Measured(f, target, o) : x.severity # "Fatal" /\ "re_encode" \notin x.needs
  PROVE  /\ display_dims(f) = f.dims
         /\ f.pix \notin {"rgba", "yuva420p", "pal8"}
         /\ classify(f) # "Image" => check_rate(f, target) = ok("FPS")
<1> DEFINE M == Measured(f, target, o)
<1>1. \A code, needs : auto(code, needs) \in M => "re_encode" \notin needs
  BY DEF auto, Finding
<1>2. \A code, needs : decide(code, needs) \in M => "re_encode" \notin needs
  BY DEF decide, Finding
<1>3. check_geometry(f, target, o) \subseteq M /\ check_pixels(f, o.tonemap) \subseteq M
  BY DEF Measured, check_image, check_video
<1>4. f.rotation = 0 /\ display_dims(f)[1] = f.dims[1]
  BY <1>1, <1>3 DEF check_geometry
<1>5. display_dims(f) = f.dims
  <2>1. f.dims \in Nat \X Nat
    BY DEF File
  <2>2. display_dims(f) = <<display_dims(f)[1], f.dims[2]>>
    BY <1>4 DEF display_dims
  <2> QED BY <1>4, <2>1, <2>2
<1>6. f.pix \notin {"rgba", "yuva420p", "pal8"}
  BY <1>2, <1>3 DEF check_pixels
<1>7. ASSUME classify(f) # "Image"
      PROVE  check_rate(f, target) = ok("FPS")
  <2>1. check_rate(f, target) \in M
    BY <1>7 DEF Measured, check_video
  <2> QED BY <1>1, <2>1 DEF check_rate
<1> QED
  BY <1>5, <1>6, <1>7

\* The limit of size has been checked, and is none of zero.
LEMMA NotTooLarge ==
  ASSUME NEW f \in File, NEW target, NEW o, \A x \in Measured(f, target, o) : x.severity # "Fatal"
  PROVE  f.size \in Nat /\ f.size > 0 /\ f.size <= MaxSource
<1>1. check_size(f) \subseteq Measured(f, target, o)
  BY DEF Measured
<1>2. \A code : fatal(code) \notin Measured(f, target, o)
  BY DEF fatal, Finding
<1>3. check_size(f) = {}
  BY <1>1, <1>2 DEF check_size
<1> QED
  BY <1>3, MediaConstants DEF check_size, File

\* The name that a plan has for the display.
LEMMA PlanName ==
  ASSUME Decided
  PROVE  /\ plan.name = [stem |-> plan.name.stem, ext |-> plan.name.ext] /\ Tidy(plan.name.stem)
         /\ classify(file) # "Image" => plan.name.ext = "mp4"
         /\ classify(file) = "Image" => plan.name.ext \in {"png", "jpg"}
         /\ classify(file) = "Image" /\ plan.action = "Encode" => plan.name.ext = "png"
<1> DEFINE path == job.source.path
           kind == classify(file)
           passthrough == kind # None /\ {"re_encode", "remux"} \cap report.needs = {}
           ext == extension_of(path, kind, passthrough)
           stem == stem_of(path, asked.name, ext)
<1>1. report.name = [stem |-> sanitize_stem(stem), ext |-> ext]
  <2>1. report = check(path, file, job.target, asked)
    BY DEF Decided, report
  <2>2. report.needs = UNION {x.needs : x \in Measured(file, job.target, asked)}
    BY <2>1, Reported
  <2> DEFINE found == check(path, file, job.target, asked)
             needs == UNION {x.needs : x \in Measured(file, job.target, asked)}
             its == extension_of(path, kind, kind # None /\ {"re_encode", "remux"} \cap needs = {})
  <2>3. found.name = [stem |-> sanitize_stem(stem_of(path, asked.name, its)), ext |-> its]
    BY DEF check, Measured
  <2>4. its = ext
    BY <2>2
  <2> HIDE DEF its, ext, found
  <2> QED BY <2>1, <2>3, <2>4 DEF found
<1>2. plan.name = report.name
  <2>1. plan = from_report(report, job.target, asked)
    BY Accepted
  <2> QED BY <2>1 DEF from_report
<1>3. stem \in Seq(Chars)
  <2>1. job.source \in Sources
    BY DEF Decided
  <2>2. path.stem \in Seq(Chars)
    BY <2>1, SourcesAssumption
  <2>3. asked.name \in {None} \cup [stem : Seq(Chars), ext : {None} \cup STRING]
    BY <2>1, SourcesAssumption DEF asked
  <2> DEFINE name == asked.name
  <2>4. name # None => name.stem \in Seq(Chars) /\ name.stem \o <<".", "a">> \in Seq(Chars)
    <3>1. <<".", "a">> \in Seq(Chars)
      BY DEF Chars
    <3>2. name # None => name.stem \in Seq(Chars)
      BY <2>3
    <3> HIDE DEF name
    <3> QED BY <3>1, <3>2, ConcatProperties
  <2> HIDE DEF path, ext, name
  <2>5. stem_of(path, name, ext) \in Seq(Chars)
    BY <2>2, <2>4 DEF stem_of
  <2> QED BY <2>5 DEF name
<1> HIDE DEF stem
<1>4. Tidy(sanitize_stem(stem))
  BY <1>3, NameSettles
<1>5. plan.action = "Encode" => ~passthrough
  BY PlanFacts
<1>6. /\ kind # "Image" => ext = "mp4"
      /\ kind = "Image" => ext \in {"png", "jpg"}
      /\ kind = "Image" /\ ~passthrough => ext = "png"
  <2> HIDE DEF passthrough, kind, path
  <2> QED BY DEF extension_of
<1> HIDE DEF ext, passthrough
<1>7. plan.name.stem = sanitize_stem(stem) /\ plan.name.ext = ext /\ plan.name = [stem |-> plan.name.stem, ext |-> plan.name.ext]
  BY <1>1, <1>2
<1> QED
  BY <1>4, <1>5, <1>6, <1>7

\* A file that passes as it is, is ready.
LEMMA PassedIsReady ==
  ASSUME Decided, plan.action = "Passthrough", ~file.hdr
  PROVE  Ready(file)
<1>1. file \in File /\ classify(file) # None
  BY Accepted
<1>2. \A x \in Findings : x.severity # "Fatal" /\ "re_encode" \notin x.needs /\ "remux" \notin x.needs
  BY Accepted, PlanFacts
<1>3. /\ job.target = LEGACY_PANORAMA
      /\ file.video /\ file.rotation = 0 /\ file.dims = job.target.dims
      /\ classify(file) = "Image" => file.codec \in {"png", "mjpeg"}
      /\ classify(file) # "Image" => compliant_codec(file) /\ file.pix = "yuv420p" /\ ~file.bframes
  BY AsItIs
<1>4. /\ display_dims(file) = file.dims
      /\ file.pix \notin {"rgba", "yuva420p", "pal8"}
      /\ classify(file) # "Image" => check_rate(file, job.target) = ok("FPS")
  <2>1. job.target \in Targets
    BY Accepted
  <2> QED BY <1>1, <1>2, <2>1, CompliantToo DEF Findings
<1>5. classify(file) # "Image" => file.container = "mp4" /\ ~file.audio
  <2>1. \A x \in Measured(file, LEGACY_PANORAMA, asked) : "remux" \notin x.needs
    BY <1>2, <1>3 DEF Findings
  <2> QED BY <1>1, <2>1, Contained
<1>6. file.size \in Nat /\ file.size > 0 /\ file.size <= MaxSource
  BY <1>1, <1>2, NotTooLarge DEF Findings
<1> QED
  BY <1>3, <1>4, <1>5, <1>6 DEF Ready

\* So is one that was rewrapped and verified.
LEMMA RewrappedIsReady ==
  ASSUME Decided, plan.action = "Remux", out = Rewrapped(file), verify(out), ~out.hdr
  PROVE  Ready(out) /\ classify(out) = "Video" /\ classify(file) # "Image"
<1>1. file \in File /\ classify(file) # None
  BY Accepted
<1>2. \A x \in Findings : x.severity # "Fatal" /\ "re_encode" \notin x.needs
  BY Accepted, PlanFacts
<1>3. classify(file) # "Image"
  <2>1. PICK x \in Findings : "remux" \in x.needs
    BY Accepted, PlanFacts
  <2> QED BY <2>1, StillsAreNotRewrapped DEF Findings
<1>4. /\ job.target = LEGACY_PANORAMA
      /\ file.video /\ file.rotation = 0 /\ file.dims = job.target.dims
      /\ compliant_codec(file) /\ file.pix = "yuv420p" /\ ~file.bframes
  BY <1>3, AsItIs
<1>5. /\ display_dims(file) = file.dims
      /\ check_rate(file, job.target) = ok("FPS")
  <2>1. job.target \in Targets
    BY Accepted
  <2> QED BY <1>1, <1>2, <1>3, <2>1, CompliantToo DEF Findings
<1>6. file.size \in Nat /\ file.size > 0 /\ file.size <= MaxSource
  BY <1>1, <1>2, NotTooLarge DEF Findings
<1>7. Mapped(file) = "video"
  <2>1. out.codec = "h264"
    BY DEF verify
  <2>2. Mapped(file) # "video" => out.codec = "mjpeg"
    BY <1>1, RewrappedFacts
  <2> QED BY <2>1, <2>2
<1>8. out = [file EXCEPT !.container = "mp4", !.audio = FALSE, !.cover = "none"]
  BY <1>7 DEF Rewrapped
<1>9. /\ out.container = "mp4" /\ ~out.audio /\ out.size = file.size /\ out.video = file.video
      /\ out.dims = file.dims /\ out.rotation = file.rotation /\ out.sar = file.sar /\ out.pix = file.pix
      /\ out.rate = file.rate /\ out.average = file.average /\ out.bframes = file.bframes
      /\ out.codec = file.codec /\ out.profile = file.profile /\ out.level = file.level
  BY <1>1, <1>8 DEF File
<1>10. classify(out) = "Video"
  BY <1>4, <1>9 DEF classify, HasVideo, IMAGE_CONTAINERS
<1>11. compliant_codec(out) /\ check_rate(out, LEGACY_PANORAMA) = ok("FPS") /\ display_dims(out) = out.dims
  <2>1. compliant_codec(out)
    BY <1>4, <1>9 DEF compliant_codec
  <2>2. check_rate(out, LEGACY_PANORAMA) = check_rate(file, LEGACY_PANORAMA)
    BY <1>9 DEF check_rate
  <2>3. display_dims(out) = display_dims(file)
    BY <1>9 DEF display_dims
  <2> QED BY <1>4, <1>5, <1>9, <2>1, <2>2, <2>3
<1> QED
  BY <1>3, <1>4, <1>6, <1>9, <1>10, <1>11 DEF Ready

\* And one that was encoded.
LEMMA EncodedIsReady ==
  ASSUME Decided, plan.action = "Encode", job.target.format = "Mp4",
         out = Encoded(file, job.target, plan), verify(out), ~out.hdr
  PROVE  /\ Ready(out)
         /\ IF classify(file) = "Image" THEN classify(out) = "Image" ELSE classify(out) = "Video"
<1> DEFINE target == job.target
           n == Frames(file, target, plan)
<1>1. target = LEGACY_PANORAMA /\ target.fps = 30 /\ target.dims = <<1920, 960>>
  BY Accepted DEF Targets, LEGACY_PANORAMA, KANALI_PANORAMA, KANALI_TURRIS
<1>2. plan.kind = classify(file) /\ plan.codec = IF plan.kind = "Image" THEN "png" ELSE "h264"
  BY PlanFacts
<1>3. MaxSource \in Nat /\ MaxSource >= 1
  <2>1. file.size \in Nat /\ file.size > 0 /\ file.size <= MaxSource
    BY Accepted, NotTooLarge DEF Findings
  <2> QED BY <2>1, MediaConstants
<1>4. out.video /\ HasVideo(out)
  BY DEF verify, HasVideo
<1>5. /\ out.codec = plan.codec /\ out.dims = target.dims /\ out.rotation = 0 /\ out.sar = <<1, 1>>
      /\ out.rate = 1000 * target.fps /\ out.average = 1000 * target.fps /\ out.size = 1
      /\ ~out.bframes /\ out.audio = FALSE /\ out.frames = n
  <2>1. out.codec = plan.codec /\ out.dims = target.dims /\ out.rotation = 0 /\ out.sar = <<1, 1>>
    BY DEF Encoded
  <2>2. out.rate = 1000 * target.fps /\ out.average = 1000 * target.fps
    BY DEF Encoded
  <2>3. out.size = 1
    BY DEF Encoded
  <2>5. out.bframes = (target.format = "RawH264")
    BY DEF Encoded
  <2>4. out.audio = FALSE /\ out.frames = n
    BY DEF Encoded
  <2>6. ~out.bframes
    BY <2>5
  <2> QED BY <2>1, <2>2, <2>3, <2>4, <2>6
<1>6. plan.codec = "png" => out.pix = "rgb24" /\ out.container = "png_pipe"
  BY DEF Encoded
<1>7. plan.codec = "h264" => /\ out.pix = "yuv420p" /\ out.container = "mp4"
                             /\ out.profile = "High" /\ out.level = 41
  <2> SUFFICES ASSUME plan.codec = "h264"
               PROVE  out.pix = "yuv420p" /\ out.container = "mp4" /\ out.profile = "High" /\ out.level = 41
    OBVIOUS
  <2>1. out.pix = "yuv420p" /\ out.container = "mp4"
    BY DEF Encoded
  <2>2. out.profile = "High"
    BY DEF Encoded
  <2>3. out.level = 41
    BY DEF Encoded
  <2> QED BY <2>1, <2>2, <2>3
<1>8. plan.kind = "Image" => n = 1
  BY DEF Frames
<1>9. display_dims(out) = out.dims
  BY <1>1, <1>5 DEF display_dims
<1>10. CASE plan.kind = "Image"
  <2>1. out.codec = "png" /\ out.container = "png_pipe" /\ out.pix = "rgb24" /\ out.frames = 1
    BY <1>2, <1>5, <1>6, <1>8, <1>10
  <2>2. classify(out) = "Image"
    BY <1>4, <2>1 DEF classify, IMAGE_CONTAINERS
  <2> QED BY <1>1, <1>2, <1>3, <1>4, <1>5, <1>9, <1>10, <2>1, <2>2 DEF Ready
<1>11. CASE plan.kind # "Image"
  <2>1. /\ out.codec = "h264" /\ out.container = "mp4" /\ out.pix = "yuv420p"
        /\ out.profile = "High" /\ out.level = 41
    BY <1>2, <1>5, <1>7, <1>11
  <2>2. classify(out) = "Video"
    BY <1>4, <2>1 DEF classify, IMAGE_CONTAINERS
  <2>3. compliant_codec(out)
    BY <2>1 DEF compliant_codec
  <2>4. check_rate(out, LEGACY_PANORAMA) = ok("FPS")
    <3>1. out.rate = 30000 /\ out.average = 30000 /\ LEGACY_PANORAMA.fps = 30
      BY <1>1, <1>5
    <3>2. Distance(30000, 30000) = 0 /\ Distance(30000, 1000 * 30) = 0
      BY DEF Distance
    <3>3. out.rate # None
      BY <3>1, MediaConstants
    <3> QED BY <3>1, <3>2, <3>3 DEF check_rate
  <2> QED BY <1>1, <1>2, <1>3, <1>4, <1>5, <1>9, <1>11, <2>1, <2>2, <2>3, <2>4 DEF Ready
<1> QED
  BY <1>10, <1>11

\* What a cm01 display gets, whichever way it was made.
LEMMA SettledAsMade ==
  ASSUME Decided, Made, verify(out), job.target.format = "Mp4", ~out.hdr
  PROVE  LET again == check(plan.name, out, job.target, DefaultOptions)
         IN  acceptable(again, TRUE) /\ again.needs = {} /\ again.name = plan.name
<1> DEFINE name == plan.name
           Right(f) == name.ext = IF classify(f) # "Image" THEN "mp4"
                                  ELSE IF name.ext \in {"png", "jpg"} THEN name.ext ELSE "png"
<1>1. job.target = LEGACY_PANORAMA
  BY Accepted DEF Targets, LEGACY_PANORAMA, KANALI_PANORAMA, KANALI_TURRIS
<1>2. /\ name = [stem |-> name.stem, ext |-> name.ext] /\ Tidy(name.stem)
      /\ classify(file) # "Image" => name.ext = "mp4"
      /\ classify(file) = "Image" => name.ext \in {"png", "jpg"}
      /\ classify(file) = "Image" /\ plan.action = "Encode" => name.ext = "png"
  BY PlanName
<1>3. Ready(out) /\ Right(out)
  <2>1. CASE plan.action = "Passthrough"
    <3>1. out = file
      <4>1. out.size > 0
        BY DEF verify
      <4> QED BY <2>1, <4>1 DEF Made
    <3>2. Ready(file)
      BY <2>1, <3>1, PassedIsReady
    <3> QED BY <1>2, <3>1, <3>2
  <2>2. CASE plan.action = "Remux"
    <3>1. Ready(out) /\ classify(out) = "Video" /\ classify(file) # "Image"
      BY <2>2, RewrappedIsReady DEF Made
    <3> QED BY <1>2, <3>1
  <2>3. CASE plan.action = "Encode"
    <3>1. Ready(out) /\ IF classify(file) = "Image" THEN classify(out) = "Image" ELSE classify(out) = "Video"
      BY <2>3, EncodedIsReady DEF Made
    <3> QED BY <1>2, <2>3, <3>1
  <2> QED BY <2>1, <2>2, <2>3, PlanFacts
<1> HIDE DEF name
<1>4. LET again == check(name, out, LEGACY_PANORAMA, DefaultOptions)
      IN  acceptable(again, TRUE) /\ again.needs = {} /\ again.name = name
  BY <1>2, <1>3, ReadySettles
<1> QED
  BY <1>1, <1>4 DEF name

-----------------------------------------------------------------------------
(* The inductive invariant: what is in hand at every stage.                *)

\* What is handed over.
Sent ==
  /\ Plays(job.target, out) /\ out.size \in Nat
  /\ plan.action = "Passthrough" => out = file
  /\ job.target.format = "Mp4" => Made /\ verify(out)

\* A file from which nothing can be made.
Hopeless == Mapped(file) = "cover" \/ Frames(file, job.target, plan) = 0

Inv ==
  /\ stage \in Stages
  /\ job.source \in Sources /\ job.target \in Targets /\ validate(asked.transform)
  /\ stage \in {"asked", "planned"} => out = None /\ source = file
  /\ stage \notin {"asked", "refused"} => Decided
  /\ stage = "run" => Made
  /\ stage = "done" => Sent
  /\ stage = "failed" /\ ~Aliased => Hopeless

\* Nothing but analyse touches the job or what is known of it.
LEMMA Unchanging ==
  ASSUME UNCHANGED <<job, analysis>>
  PROVE  /\ file' = file /\ asked' = asked /\ plan' = plan /\ report' = report
         /\ Decided' <=> Decided
         /\ Aliased' <=> Aliased
         /\ Hopeless' <=> Hopeless
<1>1. file' = file /\ asked' = asked /\ plan' = plan /\ report' = report
  BY DEF file, asked, plan, report
<1>2. Decided' <=> Decided
  BY <1>1 DEF Decided
<1>3. Aliased' <=> Aliased
  BY <1>1 DEF Aliased
<1> QED
  BY <1>1, <1>2, <1>3 DEF Hopeless

\* As long as the output stays, so does what is known of it.
LEMMA UnchangingOutput ==
  ASSUME UNCHANGED <<job, analysis, out>>
  PROVE  (Made' <=> Made) /\ (verify(out)' <=> verify(out))
<1>1. /\ file' = file /\ plan' = plan /\ job' = job /\ out' = out
      /\ Aliased' <=> Aliased
  BY Unchanging
<1>2. Made' <=> Made
  BY <1>1 DEF Made
<1>3. verify(out)' <=> verify(out)
  BY <1>1 DEF verify
<1> QED
  BY <1>2, <1>3

LEMMA MadeSize ==
  ASSUME Decided, Made
  PROVE  out.size \in Nat
<1>1. CASE plan.action = "Passthrough"
  <2>1. file.size \in Nat
    BY Accepted DEF File
  <2> QED
    BY <1>1, <2>1 DEF Made
<1>2. CASE plan.action = "Encode"
  BY <1>2, EncodedVerifies DEF Made
<1>3. CASE plan.action = "Remux"
  BY <1>3, RewrappedPlays DEF Made
<1> QED
  BY <1>1, <1>2, <1>3, PlanFacts

\* What verify lets through is played, header and all.
LEMMA VerifiedIsSent ==
  ASSUME Decided, Made, verify(out),
         job.target.format = "Mxhd" /\ plan.action # "Passthrough" /\ plan.kind = "Image" => out.frames = 1
  PROVE  LET sent == IF job.target.format = "Mxhd" /\ plan.action # "Passthrough" THEN Wrapped ELSE out
         IN  /\ Plays(job.target, sent) /\ sent.size \in Nat
             /\ plan.action = "Passthrough" => sent = file
<1>1. CASE plan.action = "Passthrough"
  <2>1. ~Aliased
    <3>1. out.size > 0
      BY DEF verify
    <3> QED
      BY <1>1, <3>1 DEF Made
  <2>2. out = file
    BY <1>1, <2>1 DEF Made
  <2> QED
    BY <1>1, <2>2, PassedPlays, MadeSize
<1>2. CASE plan.action = "Encode"
  <2>1. out = Encoded(file, job.target, plan)
    BY <1>2 DEF Made
  <2>2. Plays(job.target, IF job.target.format = "Mxhd" THEN Wrapped ELSE out)
    BY <1>2, <2>1, EncodedPlays
  <2>3. Wrapped.size = out.size /\ out.size \in Nat
    BY <2>1, WrappedFacts, MadeSize
  <2> QED
    BY <1>2, <2>2, <2>3
<1>3. CASE plan.action = "Remux"
  <2>1. out = Rewrapped(file)
    BY <1>3 DEF Made
  <2> QED
    BY <1>3, <2>1, RewrappedPlays
<1> QED
  BY <1>1, <1>2, <1>3, PlanFacts

\* What verify refuses is hopeless, or was copied onto itself.
LEMMA RefusedIsHopeless ==
  ASSUME Decided, Made, ~Aliased,
         ~verify(out) \/ (job.target.format = "Mxhd" /\ plan.action # "Passthrough" /\ plan.kind = "Image"
                          /\ out.frames # 1)
  PROVE  Hopeless
<1>1. CASE plan.action = "Passthrough"
  <2>1. out = file
    BY <1>1 DEF Made
  <2>2. verify(out)
    BY <1>1, <2>1, PassedPlays DEF verify
  <2> QED
    BY <1>1, <2>2
<1>2. CASE plan.action = "Encode"
  BY <1>2, EncodedVerifies DEF Made, Hopeless
<1>3. CASE plan.action = "Remux"
  <2>1. job.target.format = "Mp4"
    BY <1>3, RewrappedPlays
  <2>2. Mapped(file) = "video" => verify(out)
    BY <1>3, RewrappedPlays DEF Made
  <2>3. Mapped(file) \in {"video", "cover"}
    BY DEF Mapped
  <2> QED
    BY <2>1, <2>2, <2>3 DEF Hopeless
<1> QED
  BY <1>1, <1>2, <1>3, PlanFacts

LEMMA InitInv ==
  ASSUME Init
  PROVE  Inv
<1>1. PICK c \in Commands, t \in Targets, s \in Sources :
        /\ validate(s.options.transform)
        /\ job = [command |-> c.command, strict |-> c.strict, here |-> c.here, target |-> t, source |-> s]
  BY DEF Init
<1>2. job.source = s /\ job.target = t
  BY <1>1
<1>3. stage = "asked" /\ out = None /\ source = file
  BY DEF Init
<1>4. validate(asked.transform)
  BY <1>1, <1>2 DEF asked
<1> QED
  BY <1>2, <1>3, <1>4 DEF Inv, Stages

LEMMA NextInv ==
  ASSUME Inv, [Next]_vars
  PROVE  Inv'
<1>0. /\ stage \in Stages
      /\ job.source \in Sources /\ job.target \in Targets /\ validate(asked.transform)
  BY DEF Inv
<1>1. CASE analyse
  <2> DEFINE found == check(job.source.path, file, job.target, asked)
  <2>1. /\ stage = "asked" /\ job' = job /\ source' = source /\ out' = out
        /\ analysis' = [report |-> found,
                        plan |-> IF found.kind = None THEN None ELSE from_report(found, job.target, asked)]
        /\ stage' = IF acceptable(found, job.strict) THEN "planned" ELSE "refused"
    BY <1>1 DEF analyse
  <2>2. file' = file /\ asked' = asked
    BY <2>1 DEF file, asked
  <2>3. out = None /\ source = file
    BY <2>1 DEF Inv
  <2>4. acceptable(found, job.strict) => Decided'
    BY <1>0, <2>1, <2>2 DEF Decided
  <2> HIDE DEF found
  <2> QED
    BY <1>0, <2>1, <2>2, <2>3, <2>4 DEF Inv, Stages
<1>2. CASE Send
  <2>1. /\ stage = "planned" /\ plan.action = "Passthrough" /\ out' = source /\ stage' = "done"
        /\ UNCHANGED <<job, analysis, source>>
    BY <1>2 DEF Send
  <2>2. Decided /\ source = file
    BY <2>1 DEF Inv
  <2>3. file' = file /\ asked' = asked /\ plan' = plan /\ Decided' /\ job' = job
    BY <2>1, <2>2, Unchanging
  <2>4. Plays(job.target, file) /\ file.size \in Nat
    BY <2>1, <2>2, PassedPlays, Accepted DEF File
  <2>5. Made' /\ verify(out)'
    <3>1. job.command = "upload" /\ out' = file
      BY <1>2, <2>1, <2>2 DEF Send
    <3>2. ~Aliased'
      BY <2>3, <3>1 DEF Aliased
    <3>3. Made'
      BY <2>1, <2>3, <3>1, <3>2 DEF Made
    <3>4. file.size > 0 /\ HasVideo(file)
      BY <2>1, <2>2, PassedPlays
    <3> QED
      BY <2>1, <2>3, <3>1, <3>3, <3>4 DEF verify
  <2>6. Sent'
    BY <2>1, <2>2, <2>3, <2>4, <2>5 DEF Sent
  <2> QED
    BY <1>0, <2>1, <2>3, <2>6 DEF Inv, Stages
<1>3. CASE Copy
  <2>1. /\ stage = "planned" /\ plan.action = "Passthrough" /\ stage' = "run" /\ UNCHANGED <<job, analysis>>
        /\ source' = IF Aliased THEN [source EXCEPT !.video = FALSE, !.size = 0] ELSE source
        /\ out' = source'
    BY <1>3 DEF Copy
  <2>2. Decided /\ source = file
    BY <2>1 DEF Inv
  <2>3. /\ file' = file /\ asked' = asked /\ plan' = plan /\ Decided' /\ job' = job
        /\ Aliased' <=> Aliased
    BY <2>1, <2>2, Unchanging
  <2>4. "size" \in DOMAIN file
    BY <2>2, Accepted DEF File
  <2>5. Aliased => out'.size = 0
    BY <2>1, <2>2, <2>4
  <2>6. Made'
    BY <2>1, <2>2, <2>3, <2>5 DEF Made
  <2> QED
    BY <1>0, <2>1, <2>3, <2>6 DEF Inv, Stages
<1>4. CASE Run
  <2>1. /\ stage = "planned" /\ plan.action # "Passthrough" /\ ~Aliased /\ stage' = "run"
        /\ out' = IF plan.action = "Encode" THEN Encoded(source, job.target, plan) ELSE Rewrapped(source)
        /\ UNCHANGED <<job, analysis, source>>
    BY <1>4 DEF Run
  <2>2. Decided /\ source = file
    BY <2>1 DEF Inv
  <2>3. /\ file' = file /\ asked' = asked /\ plan' = plan /\ Decided' /\ job' = job
        /\ Aliased' <=> Aliased
    BY <2>1, <2>2, Unchanging
  <2>4. Made'
    BY <2>1, <2>2, <2>3, PlanFacts DEF Made
  <2> QED
    BY <1>0, <2>1, <2>3, <2>4 DEF Inv, Stages
<1>5. CASE RunFails
  <2>1. stage = "planned" /\ stage' = "broken" /\ UNCHANGED <<job, analysis, source>>
    BY <1>5 DEF RunFails
  <2>2. Decided
    BY <2>1 DEF Inv
  <2>3. asked' = asked /\ Decided' /\ job' = job
    BY <2>1, <2>2, Unchanging
  <2> QED
    BY <1>0, <2>1, <2>3 DEF Inv, Stages
<1>6. CASE finish_stage
  <2> DEFINE wraps == job.target.format = "Mxhd" /\ plan.action # "Passthrough"
             one == wraps /\ plan.kind = "Image" => out.frames = 1
  <2>1. /\ stage = "run" /\ UNCHANGED <<job, analysis, source>>
        /\ stage' = IF verify(out) /\ one THEN "done" ELSE "failed"
        /\ verify(out) /\ one => out' = IF wraps THEN Wrapped ELSE out
    BY <1>6 DEF finish_stage
  <2>2. Decided /\ Made
    BY <2>1 DEF Inv
  <2>3. /\ file' = file /\ asked' = asked /\ plan' = plan /\ Decided' /\ job' = job
        /\ Aliased' <=> Aliased /\ (Hopeless' <=> Hopeless)
    BY <2>1, <2>2, Unchanging
  <2>4. ASSUME verify(out), one
        PROVE  Sent'
    <3>1. LET sent == IF wraps THEN Wrapped ELSE out
          IN  /\ Plays(job.target, sent) /\ sent.size \in Nat
              /\ plan.action = "Passthrough" => sent = file
      BY <2>2, <2>4, VerifiedIsSent
    <3>2. job.target.format = "Mp4" => Made' /\ verify(out)'
      <4>1. ASSUME job.target.format = "Mp4" PROVE UNCHANGED <<job, analysis, out>>
        BY <2>1, <2>4, <4>1
      <4> QED
        BY <2>2, <2>4, <4>1, UnchangingOutput
    <3> QED
      BY <2>1, <2>3, <2>4, <3>1, <3>2 DEF Sent
  <2>5. ASSUME ~(verify(out) /\ one), ~Aliased
        PROVE  Hopeless
    BY <2>2, <2>5, RefusedIsHopeless
  <2>6. CASE verify(out) /\ one
    BY <1>0, <2>1, <2>3, <2>4, <2>6 DEF Inv, Stages
  <2>7. CASE ~(verify(out) /\ one)
    <3>1. stage' = "failed"
      BY <2>1, <2>7
    <3>2. ~Aliased => Hopeless
      BY <2>5, <2>7
    <3>3. (Aliased' <=> Aliased) /\ (Hopeless' <=> Hopeless)
      BY <2>1, <2>2, Unchanging
    <3>4. ~Aliased' => Hopeless'
      BY <3>2, <3>3
    <3> QED
      BY <1>0, <2>3, <3>1, <3>4 DEF Inv, Stages
  <2> QED
    BY <2>6, <2>7
<1>7. CASE UNCHANGED vars
  <2>1. /\ UNCHANGED <<job, analysis>> /\ stage' = stage /\ out' = out /\ source' = source
    BY <1>7 DEF vars
  <2>2. /\ file' = file /\ asked' = asked /\ plan' = plan /\ job' = job
        /\ Decided' <=> Decided
        /\ Aliased' <=> Aliased
        /\ Hopeless' <=> Hopeless
    BY <2>1, Unchanging
  <2>3. (Made' <=> Made) /\ (verify(out)' <=> verify(out))
    BY <2>1, UnchangingOutput
  <2>4. Sent' <=> Sent
    BY <2>1, <2>2, <2>3 DEF Sent
  <2> QED
    BY <1>0, <2>1, <2>2, <2>3, <2>4 DEF Inv
<1> QED
  BY <1>1, <1>2, <1>3, <1>4, <1>5, <1>6, <1>7 DEF Next

\* At every stage there is in hand what the next one relies on.
THEOREM Invariance == Spec => []Inv
<1>1. Init => Inv
  BY InitInv
<1>2. Inv /\ [Next]_vars => Inv'
  BY NextInv
<1> QED
  BY <1>1, <1>2, PTL DEF Spec

\* Type correctness: a plan and an output exist where a later step reads them.
THEOREM TypeCorrect == Spec => []TypeOK
<1>1. ASSUME Inv
      PROVE  TypeOK
  <2>1. stage \notin {"asked", "refused"} => plan.action \in {"Passthrough", "Remux", "Encode"}
    BY <1>1, PlanFacts DEF Inv
  <2>2. stage = "run" => out.size \in Nat
    BY <1>1, MadeSize DEF Inv
  <2>3. stage = "done" => out.size \in Nat
    BY <1>1 DEF Inv, Sent
  <2> QED
    BY <1>1, <2>1, <2>2, <2>3 DEF Inv, TypeOK
<1> QED
  BY <1>1, Invariance, PTL

\* Whatever way a file takes through check, plan, ffmpeg and verify, what comes
\* out is something the display plays.
THEOREM Playable == Spec => []SentIsPlayable
<1>1. Inv => SentIsPlayable
  BY DEF Inv, Sent, SentIsPlayable
<1> QED
  BY <1>1, Invariance, PTL

\* A file prepared for a cm01 display is compliant when it is checked again, and
\* keeps its name (check and sanitize_stem, check.rs): whether it went as it was,
\* was rewrapped or was encoded, a second run finds nothing to do.
THEOREM FixedPoint == Spec => []Settled
<1>1. ASSUME Inv, stage = "done", job.target.format = "Mp4", ~out.hdr
      PROVE  LET again == check(plan.name, out, job.target, DefaultOptions)
             IN  acceptable(again, TRUE) /\ again.needs = {} /\ again.name = plan.name
  <2>1. Decided /\ Made /\ verify(out)
    BY <1>1 DEF Inv, Sent
  <2> QED
    BY <1>1, <2>1, SettledAsMade
<1>2. Inv => Settled
  BY <1>1 DEF Settled
<1> QED
  BY <1>2, Invariance, PTL

\* --strict changes nothing but what was asked for (Report::acceptable): every
\* check that asks for work says so.
THEOREM StrictKeeps == Spec => []StrictIsUntouched
<1>1. ASSUME Inv, stage = "done", job.strict, check_transform(asked) = {}
      PROVE  out = file
  <2>1. Decided /\ Sent
    BY <1>1 DEF Inv
  <2>2. \A x \in Findings : x.needs = {}
    BY <1>1, <2>1, Accepted, OkNeedsNothing DEF Findings
  <2>3. report.needs = {}
    BY <2>1, <2>2, Accepted
  <2>4. plan.action = "Passthrough"
    BY <2>1, <2>3, PlanFacts
  <2> QED
    BY <2>1, <2>4 DEF Sent
<1>2. Inv => StrictIsUntouched
  BY <1>1 DEF StrictIsUntouched
<1> QED
  BY <1>2, Invariance, PTL

\* verify asks for what the plan told ffmpeg (from_report, verify), and the
\* graph of a valid transform has the pixels it asks for (cover_viewport).
THEOREM AsPlanned == Spec => []VerifiesWhatItPlans
<1>1. ASSUME Inv
      PROVE  VerifiesWhatItPlans
  <2>1. stage = "planned" => geometry_filter(file, job.target, asked.transform)
    <3> SUFFICES ASSUME stage = "planned" PROVE geometry_filter(file, job.target, asked.transform)
      OBVIOUS
    <3>1. Decided
      BY <1>1 DEF Inv
    <3>2. \A x \in Measured(file, job.target, asked) : x.severity # "Fatal"
      BY <3>1, Accepted DEF Findings
    <3> QED
      BY <3>1, <3>2, Accepted, GraphRuns
  <2> QED
    BY <1>1, <2>1 DEF Inv, Hopeless, VerifiesWhatItPlans
<1> QED
  BY <1>1, Invariance, PTL

=============================================================================
