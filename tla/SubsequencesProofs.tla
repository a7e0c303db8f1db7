------------------------- MODULE SubsequencesProofs -------------------------
(***************************************************************************)
(* What Kept promises, for every sequence and every set of positions: the  *)
(* elements at these positions, all of them, once and in their order.      *)
(* Kept is a recursive function; what it computes follows by induction,    *)
(* which is stated here for a set of numbers.                              *)
(***************************************************************************)
EXTENDS Subsequences, FiniteSets, FiniteSetTheorems, TLAPS

\* Every non-empty set of natural numbers has a least element.  The library
\* states this for relations given by an operator; here it follows from the
\* well-foundedness of strict inclusion among the intervals that start at 0.
LEMMA LeastNat ==
  ASSUME NEW T \in SUBSET Nat, T # {}
  PROVE  \E x \in T : \A y \in T : x <= y
<1> DEFINE U == {0 .. x : x \in T}
<1> DEFINE S == FiniteSubsetsOf(Nat)
<1> DEFINE R == StrictSubsetOrdering(Nat)
<1>1. U \subseteq S
  <2>1. \A x \in T : 0 .. x \in SUBSET Nat /\ IsFiniteSet(0 .. x)
    BY FS_Interval
  <2> QED
    BY <2>1 DEF FiniteSubsetsOf
<1>2. U # {}
  OBVIOUS
<1>3. IsWellFoundedOn(R, S)
  BY FS_StrictSubsetOrderingWellFounded
<1> HIDE DEF U, S, R
<1>4. PICK m \in U : \A y \in U : <<y, m>> \notin R
  BY <1>1, <1>2, <1>3, WFMin
<1>5. PICK x \in T : m = 0 .. x
  BY DEF U
<1>6. ASSUME NEW y \in T, y < x PROVE FALSE
  <2>1. 0 .. y \in U /\ 0 .. y \in S /\ m \in S
    BY <1>1 DEF U
  <2>2. (0 .. y) \subseteq m /\ (0 .. y) # m
    BY <1>5, <1>6
  <2>3. <<0 .. y, m>> \in R
    BY <2>1, <2>2 DEF R, StrictSubsetOrdering, S, FiniteSubsetsOf
  <2> QED
    BY <2>1, <2>3, <1>4
<1> QED
  BY <1>6

\* Induction, for a property that is given as the set of its numbers.
LEMMA Induction ==
  ASSUME NEW T, 0 \in T, \A n \in Nat : n \in T => n + 1 \in T
  PROVE  Nat \subseteq T
<1> SUFFICES ASSUME Nat \ T # {} PROVE FALSE
  OBVIOUS
<1>1. PICK x \in Nat \ T : \A y \in Nat \ T : x <= y
  BY LeastNat
<1>2. x # 0 /\ x - 1 \in Nat
  BY <1>1
<1>3. x - 1 \in T
  BY <1>1, <1>2
<1> QED
  BY <1>1, <1>2, <1>3

\* One step of the recursion of Kept.
KeptStep(f, s, I, n) ==
  IF n = 0 THEN <<>> ELSE IF n \in I THEN Append(f[n - 1], s[n]) ELSE f[n - 1]

\* The recursion of Kept defines a function.
LEMMA KeptExists ==
  ASSUME NEW S, NEW s \in Seq(S), NEW I \in SUBSET Nat
  PROVE  \E f \in [0 .. Len(s) -> Seq(S)] : \A n \in 0 .. Len(s) : f[n] = KeptStep(f, s, I, n)
<1> DEFINE Good(f, N) == f \in [0 .. N -> Seq(S)] /\ \A n \in 0 .. N : f[n] = KeptStep(f, s, I, n)
           T == {N \in Nat : N <= Len(s) => \E f : Good(f, N)}
<1>1. \E f : Good(f, 0)
  <2> DEFINE f == [n \in 0 .. 0 |-> <<>>]
  <2>1. Good(f, 0)
    BY DEF KeptStep
  <2> HIDE DEF f, Good
  <2> QED
    BY <2>1
<1>2. ASSUME NEW N \in Nat, N + 1 <= Len(s), NEW f, Good(f, N)
      PROVE  \E g : Good(g, N + 1)
  <2> DEFINE g == [n \in 0 .. N + 1 |-> IF n <= N THEN f[n]
                                        ELSE IF n \in I THEN Append(f[N], s[n]) ELSE f[N]]
  <2>1. s[N + 1] \in S
    BY <1>2
  <2>2. g \in [0 .. N + 1 -> Seq(S)]
    <3>1. ASSUME NEW n \in 0 .. N + 1 PROVE g[n] \in Seq(S)
      <4>1. CASE n <= N
        BY <1>2, <4>1
      <4>2. CASE n = N + 1
        BY <1>2, <2>1, <4>2
      <4> QED
        BY <4>1, <4>2
    <3> QED
      BY <3>1
  <2>3. ASSUME NEW n \in 0 .. N + 1 PROVE g[n] = KeptStep(g, s, I, n)
    <3>1. CASE n <= N
      <4>1. g[n] = KeptStep(f, s, I, n)
        BY <1>2, <3>1
      <4>2. n # 0 => g[n - 1] = f[n - 1]
        BY <3>1
      <4> QED
        BY <4>1, <4>2 DEF KeptStep
    <3>2. CASE n = N + 1
      BY <1>2, <3>2 DEF KeptStep
    <3> QED
      BY <3>1, <3>2
  <2> HIDE DEF g
  <2> QED
    BY <2>2, <2>3
<1> HIDE DEF Good
<1>3. 0 \in T
  BY <1>1
<1>4. ASSUME NEW N \in Nat, N \in T PROVE N + 1 \in T
  BY <1>2, <1>4
<1> HIDE DEF T
<1>5. Nat \subseteq T
  BY <1>3, <1>4, Induction
<1>6. Len(s) \in Nat
  OBVIOUS
<1>7. PICK f : Good(f, Len(s))
  BY <1>5, <1>6 DEF T
<1> QED
  BY <1>7 DEF Good

\* Kept is its value at the end of the list.
LEMMA KeptUnfolds ==
  ASSUME NEW S, NEW s \in Seq(S), NEW I \in SUBSET Nat
  PROVE  \E f \in [0 .. Len(s) -> Seq(S)] :
           Kept(s, I) = f[Len(s)] /\ \A n \in 0 .. Len(s) : f[n] = KeptStep(f, s, I, n)
<1>1. PICK f \in [0 .. Len(s) -> Seq(S)] : \A n \in 0 .. Len(s) : f[n] = KeptStep(f, s, I, n)
  BY KeptExists
<1> DEFINE h == CHOOSE g : g = [n \in 0 .. Len(s) |->
        IF n = 0 THEN <<>> ELSE IF n \in I THEN Append(g[n - 1], s[n]) ELSE g[n - 1]]
<1>2. h = [n \in 0 .. Len(s) |->
        IF n = 0 THEN <<>> ELSE IF n \in I THEN Append(h[n - 1], s[n]) ELSE h[n - 1]]
  <2>1. f = [n \in 0 .. Len(s) |->
        IF n = 0 THEN <<>> ELSE IF n \in I THEN Append(f[n - 1], s[n]) ELSE f[n - 1]]
    BY <1>1 DEF KeptStep
  <2> QED
    BY <2>1
<1>3. Kept(s, I) = h[Len(s)]
  BY DEF Kept
<1> HIDE DEF h
<1>4. \A n \in 0 .. Len(s) : h[n] = KeptStep(h, s, I, n)
  BY <1>2 DEF KeptStep
<1>5. \A n \in 0 .. Len(s) : h[n] \in Seq(S)
  <2> DEFINE T == {n \in Nat : n <= Len(s) => h[n] \in Seq(S)}
  <2>1. h[0] \in Seq(S)
    <3>1. h[0] = <<>>
      BY <1>4 DEF KeptStep
    <3> QED
      BY <3>1
  <2>2. ASSUME NEW n \in Nat, n + 1 <= Len(s), h[n] \in Seq(S)
        PROVE  h[n + 1] \in Seq(S)
    <3>1. s[n + 1] \in S
      BY <2>2
    <3>2. h[n + 1] = KeptStep(h, s, I, n + 1)
      BY <1>4, <2>2
    <3> QED
      BY <2>2, <3>1, <3>2 DEF KeptStep
  <2>3. 0 \in T
    BY <2>1
  <2>4. ASSUME NEW n \in Nat, n \in T PROVE n + 1 \in T
    BY <2>2, <2>4
  <2> HIDE DEF T
  <2>5. Nat \subseteq T
    BY <2>3, <2>4, Induction
  <2> QED
    BY <2>5 DEF T
<1>6. h \in [0 .. Len(s) -> Seq(S)]
  BY <1>2, <1>5
<1> QED
  BY <1>3, <1>4, <1>6

\* Where the elements of Kept come from: the positions in I, all of them, in
\* ascending order.
Places(h, r, s, I, n) ==
  /\ h \in [1 .. Len(r) -> I \cap 1 .. n]
  /\ \A j, k \in 1 .. Len(r) : j < k => h[j] < h[k]
  /\ \A k \in 1 .. Len(r) : r[k] = s[h[k]]
  /\ \A i \in I \cap 1 .. n : \E k \in 1 .. Len(r) : h[k] = i

\* The kept sequence is s along an increasing function onto the positions in I.
LEMMA KeptPlaces ==
  ASSUME NEW S, NEW s \in Seq(S), NEW I \in SUBSET Nat
  PROVE  /\ Kept(s, I) \in Seq(S)
         /\ \E h : Places(h, Kept(s, I), s, I, Len(s))
<1>1. PICK f \in [0 .. Len(s) -> Seq(S)] :
          Kept(s, I) = f[Len(s)] /\ \A n \in 0 .. Len(s) : f[n] = KeptStep(f, s, I, n)
  BY KeptUnfolds
<1>2. Len(s) \in Nat /\ 0 \in 0 .. Len(s)
  OBVIOUS
<1> DEFINE T == {n \in Nat : n <= Len(s) => \E h : Places(h, f[n], s, I, n)}
<1>3. \E h : Places(h, f[0], s, I, 0)
  <2>1. f[0] = <<>>
    BY <1>1, <1>2 DEF KeptStep
  <2> DEFINE h == [k \in 1 .. 0 |-> 0]
  <2>2. Places(h, <<>>, s, I, 0)
    BY DEF Places
  <2> HIDE DEF h
  <2> QED
    BY <2>1, <2>2
<1>4. ASSUME NEW n \in Nat, n + 1 <= Len(s), NEW h, Places(h, f[n], s, I, n)
      PROVE  \E g : Places(g, f[n + 1], s, I, n + 1)
  <2>1. f[n] \in Seq(S) /\ s[n + 1] \in S
    BY <1>1, <1>4
  <2>2. f[n + 1] = IF n + 1 \in I THEN Append(f[n], s[n + 1]) ELSE f[n]
    <3>1. f[n + 1] = KeptStep(f, s, I, n + 1)
      BY <1>1, <1>4
    <3>2. n + 1 # 0 /\ (n + 1) - 1 = n
      OBVIOUS
    <3> QED
      BY <3>1, <3>2 DEF KeptStep
  <2>3. CASE n + 1 \notin I
    <3>1. Places(h, f[n], s, I, n + 1)
      <4>1. I \cap 1 .. n + 1 = I \cap 1 .. n
        BY <2>3
      <4> QED
        BY <1>4, <4>1 DEF Places
    <3> QED
      BY <2>2, <2>3, <3>1
  <2>4. CASE n + 1 \in I
    <3> DEFINE r == f[n]
               q == Append(r, s[n + 1])
               g == [k \in 1 .. Len(r) + 1 |-> IF k = Len(r) + 1 THEN n + 1 ELSE h[k]]
    <3>1. /\ Len(r) \in Nat /\ Len(q) = Len(r) + 1
          /\ \A k \in 1 .. Len(r) : q[k] = r[k]
          /\ q[Len(r) + 1] = s[n + 1]
      BY <2>1
    <3>2. q = f[n + 1]
      BY <2>2, <2>4
    <3> HIDE DEF q, r
    <3>3. Places(h, r, s, I, n)
      BY <1>4 DEF r
    <3>4. \A k \in 1 .. Len(r) : h[k] \in I /\ h[k] \in 1 .. n
      BY <3>3 DEF Places
    <3>5. g \in [1 .. Len(q) -> I \cap 1 .. n + 1]
      BY <2>4, <3>1, <3>4
    <3>6. ASSUME NEW j \in 1 .. Len(q), NEW k \in 1 .. Len(q), j < k PROVE g[j] < g[k]
      <4>1. CASE k = Len(r) + 1
        BY <3>1, <3>4, <3>6, <4>1
      <4>2. CASE k \in 1 .. Len(r)
        <5>1. j \in 1 .. Len(r) /\ h[j] < h[k]
          BY <3>1, <3>3, <3>6, <4>2 DEF Places
        <5> QED
          BY <3>1, <4>2, <5>1
      <4> QED
        BY <3>1, <4>1, <4>2
    <3>7. ASSUME NEW k \in 1 .. Len(q) PROVE q[k] = s[g[k]]
      <4>1. CASE k = Len(r) + 1
        BY <3>1, <4>1
      <4>2. CASE k \in 1 .. Len(r)
        BY <3>1, <3>3, <4>2 DEF Places
      <4> QED
        BY <3>1, <4>1, <4>2
    <3>8. ASSUME NEW i \in I \cap 1 .. n + 1 PROVE \E k \in 1 .. Len(q) : g[k] = i
      <4>1. CASE i = n + 1
        BY <3>1, <4>1
      <4>2. CASE i \in 1 .. n
        <5>1. PICK k \in 1 .. Len(r) : h[k] = i
          BY <3>3, <4>2 DEF Places
        <5> QED
          BY <3>1, <5>1
      <4> QED
        BY <4>1, <4>2
    <3> HIDE DEF g
    <3>9. Places(g, q, s, I, n + 1)
      BY <3>5, <3>6, <3>7, <3>8 DEF Places
    <3> QED
      BY <3>2, <3>9
  <2> QED
    BY <2>3, <2>4
<1>5. 0 \in T
  BY <1>3
<1>6. ASSUME NEW n \in Nat, n \in T PROVE n + 1 \in T
  <2>1. ASSUME n + 1 <= Len(s) PROVE \E h : Places(h, f[n + 1], s, I, n + 1)
    <3>1. PICK h : Places(h, f[n], s, I, n)
      BY <1>6, <2>1
    <3> QED
      BY <1>4, <2>1, <3>1
  <2> QED
    BY <2>1
<1> HIDE DEF T
<1>7. Nat \subseteq T
  BY <1>5, <1>6, Induction
<1>8. \E h : Places(h, f[Len(s)], s, I, Len(s))
  BY <1>2, <1>7 DEF T
<1> QED
  BY <1>1, <1>2, <1>8

\* A filter that drops nothing leaves the sequence as it is.
LEMMA KeptAll ==
  ASSUME NEW S, NEW s \in Seq(S), NEW I \in SUBSET Nat, 1 .. Len(s) \subseteq I
  PROVE  Kept(s, I) = s
<1>1. PICK f \in [0 .. Len(s) -> Seq(S)] :
          Kept(s, I) = f[Len(s)] /\ \A n \in 0 .. Len(s) : f[n] = KeptStep(f, s, I, n)
  BY KeptUnfolds
<1> DEFINE T == {n \in Nat : n <= Len(s) => Len(f[n]) = n /\ \A k \in 1 .. n : f[n][k] = s[k]}
<1>2. 0 \in T
  <2>1. f[0] = <<>>
    BY <1>1 DEF KeptStep
  <2> QED
    BY <2>1
<1>3. ASSUME NEW n \in Nat, n \in T PROVE n + 1 \in T
  <2> SUFFICES ASSUME n + 1 <= Len(s)
               PROVE  Len(f[n + 1]) = n + 1 /\ \A k \in 1 .. n + 1 : f[n + 1][k] = s[k]
    OBVIOUS
  <2>1. f[n] \in Seq(S) /\ Len(f[n]) = n /\ \A k \in 1 .. n : f[n][k] = s[k]
    BY <1>1, <1>3
  <2>2. n + 1 \in I /\ s[n + 1] \in S
    OBVIOUS
  <2>3. f[n + 1] = Append(f[n], s[n + 1])
    BY <1>1, <2>2 DEF KeptStep
  <2> QED
    BY <2>1, <2>2, <2>3
<1> HIDE DEF T
<1>4. Nat \subseteq T
  BY <1>2, <1>3, Induction
<1>5. Len(s) \in Nat
  OBVIOUS
<1>6. Len(f[Len(s)]) = Len(s) /\ \A k \in 1 .. Len(s) : f[Len(s)][k] = s[k]
  BY <1>4, <1>5 DEF T
<1> QED
  BY <1>1, <1>5, <1>6
=============================================================================
