--------------------------- MODULE NaturalLemmas ---------------------------
(***************************************************************************)
(* Facts that the proofs of several components cite: least and greatest    *)
(* elements, induction over a set of naturals, sequences made by repeated  *)
(* choice, images and places of finite sets.  The library states induction *)
(* for an operator; here it is stated for a set, from the fact that < is   *)
(* well-founded.                                                           *)
(***************************************************************************)
EXTENDS Integers, FiniteSetTheorems, WellFoundedInduction, TLAPS

\* Every nonempty set of naturals has a least element.
LEMMA LeastNatural ==
  ASSUME NEW S \in SUBSET Nat, S # {}
  PROVE  \E n \in S : \A m \in S : n <= m
<1> DEFINE R == {ss \in Nat \X Nat : ss[1] < ss[2]}
<1>1. R = OpToRel(<, Nat)
  BY DEF OpToRel
<1>2. IsWellFoundedOn(R, Nat)
  BY <1>1, NatLessThanWellFounded
<1>3. PICK n \in S : \A m \in S : <<m, n>> \notin R
  <2> HIDE DEF R
  <2> QED
    BY <1>2, WFMin
<1>4. ASSUME NEW m \in S
      PROVE  n <= m
  <2>1. m \in Nat /\ n \in Nat /\ <<m, n>> \in Nat \X Nat
    OBVIOUS
  <2>2. <<m, n>>[1] = m /\ <<m, n>>[2] = n
    OBVIOUS
  <2>3. ~(m < n)
    BY <1>3, <2>1, <2>2
  <2> QED
    BY <2>1, <2>3
<1> QED
  BY <1>4

\* Every nonempty set of naturals below a bound has a greatest element.
LEMMA GreatestNatural ==
  ASSUME NEW S \in SUBSET Nat, S # {}, NEW b \in Nat, \A m \in S : m <= b
  PROVE  \E n \in S : \A m \in S : m <= n
<1> DEFINE U == {n \in Nat : \A m \in S : m <= n}
<1>1. PICK n \in U : \A u \in U : n <= u
  <2>1. U \in SUBSET Nat /\ b \in U
    OBVIOUS
  <2> HIDE DEF U
  <2> QED
    BY <2>1, LeastNatural
<1>2. n \in S
  <2>1. SUFFICES ASSUME n \notin S
                 PROVE  FALSE
    OBVIOUS
  <2>2. PICK m \in S : TRUE
    OBVIOUS
  <2>3. \A x \in S : x \in Nat /\ x < n
    BY <1>1, <2>1
  <2>4. n - 1 \in Nat /\ \A x \in S : x <= n - 1
    BY <1>1, <2>2, <2>3
  <2> QED
    BY <1>1, <2>4
<1> QED
  BY <1>1, <1>2

\* A set of naturals with 0 and, with n, also n + 1 has them all.
LEMMA Induction ==
  ASSUME NEW S, 0 \in S, \A n \in Nat : n \in S => n + 1 \in S
  PROVE  Nat \subseteq S
<1> SUFFICES ASSUME ~(Nat \subseteq S)
             PROVE  FALSE
  OBVIOUS
<1> DEFINE T == Nat \ S
<1>1. PICK n \in T : \A m \in T : n <= m
  <2>1. T \in SUBSET Nat /\ T # {}
    OBVIOUS
  <2> HIDE DEF T
  <2> QED
    BY <2>1, LeastNatural
<1>2. n \in Nat /\ n # 0
  OBVIOUS
<1>3. n - 1 \in Nat /\ n - 1 \notin T
  BY <1>1, <1>2
<1>4. n - 1 + 1 \in S
  BY <1>3
<1>5. n - 1 + 1 = n
  BY <1>2
<1> QED
  BY <1>4, <1>5

\* From a value of B, with a next one after each by R, there are N steps.
LEMMA Recursion ==
  ASSUME NEW T, NEW N \in Nat, NEW B, \E t \in T : t \in B,
         NEW R, \A n \in 1 .. N : \A t \in T : \E u \in T : <<n, t, u>> \in R
  PROVE  \E f \in [0 .. N -> T] :
           f[0] \in B /\ \A n \in 1 .. N : <<n, f[n - 1], f[n]>> \in R
<1> DEFINE Starts == {m \in Nat : m <= N =>
                        \E f \in [0 .. m -> T] :
                          f[0] \in B /\ \A n \in 1 .. m : <<n, f[n - 1], f[n]>> \in R}
<1>1. 0 \in Starts
  <2>1. PICK t \in T : t \in B
    OBVIOUS
  <2> DEFINE f == [n \in 0 .. 0 |-> t]
  <2>2. /\ f \in [0 .. 0 -> T] /\ f[0] \in B
        /\ \A n \in 1 .. 0 : <<n, f[n - 1], f[n]>> \in R
    BY <2>1
  <2> HIDE DEF f
  <2> QED
    BY <2>2
<1>2. ASSUME NEW m \in Nat, m \in Starts
      PROVE  m + 1 \in Starts
  <2> SUFFICES ASSUME m + 1 <= N
               PROVE  \E f \in [0 .. (m + 1) -> T] :
                        f[0] \in B /\ \A n \in 1 .. (m + 1) : <<n, f[n - 1], f[n]>> \in R
    OBVIOUS
  <2>1. PICK g \in [0 .. m -> T] : g[0] \in B /\ \A n \in 1 .. m : <<n, g[n - 1], g[n]>> \in R
    BY <1>2
  <2>2. PICK u \in T : <<m + 1, g[m], u>> \in R
    <3>1. m + 1 \in 1 .. N /\ g[m] \in T
      BY <2>1
    <3> QED
      BY <3>1
  <2> DEFINE f == [n \in 0 .. (m + 1) |-> IF n = m + 1 THEN u ELSE g[n]]
  <2>3. f \in [0 .. (m + 1) -> T] /\ f[m + 1] = u /\ \A n \in 0 .. m : f[n] = g[n]
    BY <2>1, <2>2
  <2> HIDE DEF f
  <2>4. ASSUME NEW n \in 1 .. (m + 1)
        PROVE  <<n, f[n - 1], f[n]>> \in R
    <3>1. CASE n \in 1 .. m
      <4>1. n - 1 \in 0 .. m /\ n \in 0 .. m
        BY <3>1
      <4>2. f[n] = g[n] /\ f[n - 1] = g[n - 1] /\ <<n, g[n - 1], g[n]>> \in R
        BY <2>1, <2>3, <3>1, <4>1
      <4> QED
        BY <4>2
    <3>2. CASE n = m + 1
      <4>1. n - 1 = m /\ m \in 0 .. m
        BY <3>2
      <4>2. f[n] = u /\ f[n - 1] = g[m]
        BY <2>3, <3>2, <4>1
      <4> QED
        BY <2>2, <3>2, <4>2
    <3> QED
      BY <3>1, <3>2
  <2>5. f[0] \in B
    BY <2>1, <2>3
  <2> QED
    BY <2>3, <2>4, <2>5
<1> HIDE DEF Starts
<1>3. Nat \subseteq Starts
  BY <1>1, <1>2, Induction
<1> QED
  BY <1>3 DEF Starts

-----------------------------------------------------------------------------
(* Finite sets *)

\* The image of a finite set is finite.
LEMMA ImageFinite ==
  ASSUME NEW S, IsFiniteSet(S), NEW f
  PROVE  IsFiniteSet({f[x] : x \in S})
<1> DEFINE T == {f[x] : x \in S}
<1>1. PICK n \in Nat : ExistsSurjection(1 .. n, S)
  BY FS_NatSurjection
<1>2. PICK g \in [1 .. n -> S] : \A x \in S : \E k \in 1 .. n : g[k] = x
  BY <1>1 DEF ExistsSurjection, Surjection
<1> DEFINE h == [k \in 1 .. n |-> f[g[k]]]
<1>3. h \in [1 .. n -> T] /\ \A t \in T : \E k \in 1 .. n : h[k] = t
  BY <1>2
<1> HIDE DEF T, h
<1>4. ExistsSurjection(1 .. n, T)
  BY <1>3 DEF ExistsSurjection, Surjection
<1> QED
  BY <1>1, <1>4, FS_NatSurjection DEF T

\* In a finite set with a strict total order, the number of elements before one
\* is its place: no place is taken twice and none is free.
LEMMA Places ==
  ASSUME NEW S, IsFiniteSet(S), NEW R,
         \A x, y \in S : x # y => <<x, y>> \in R \/ <<y, x>> \in R,
         \A x \in S : <<x, x>> \notin R,
         \A x, y, z \in S : <<x, y>> \in R /\ <<y, z>> \in R => <<x, z>> \in R,
         NEW count, \A x \in S : count[x] = Cardinality({y \in S : <<y, x>> \in R})
  PROVE  /\ Cardinality(S) \in Nat
         /\ \A x \in S : count[x] \in 0 .. (Cardinality(S) - 1)
         /\ \A x, y \in S : <<x, y>> \in R <=> count[x] < count[y]
         /\ \A n \in 1 .. Cardinality(S) : \E x \in S : count[x] = n - 1
<1> DEFINE N == Cardinality(S)
           Below(x) == {y \in S : <<y, x>> \in R}
<1>1. N \in Nat
  BY FS_CardinalityType
<1>2. ASSUME NEW x \in S
      PROVE  /\ IsFiniteSet(Below(x)) /\ Cardinality(Below(x)) \in Nat
             /\ count[x] = Cardinality(Below(x)) /\ count[x] < N
  <2>1. Below(x) \in SUBSET S /\ x \notin Below(x) /\ x \in S
    OBVIOUS
  <2>2. IsFiniteSet(Below(x)) /\ Cardinality(Below(x)) <= N /\ (N = Cardinality(Below(x)) => S = Below(x))
    BY <2>1, FS_Subset
  <2>3. Cardinality(Below(x)) \in Nat
    BY <2>2, FS_CardinalityType
  <2>4. N # Cardinality(Below(x))
    BY <2>1, <2>2
  <2>5. count[x] = Cardinality(Below(x))
    OBVIOUS
  <2> HIDE DEF N, Below
  <2> QED
    BY <1>1, <2>2, <2>3, <2>4, <2>5
<1>3. ASSUME NEW x \in S, NEW y \in S, <<x, y>> \in R
      PROVE  count[x] < count[y]
  <2>1. Below(x) \in SUBSET Below(y) /\ x \in Below(y) /\ x \notin Below(x)
    BY <1>3
  <2>2. Cardinality(Below(x)) <= Cardinality(Below(y)) /\ Cardinality(Below(x)) # Cardinality(Below(y))
    BY <1>2, <2>1, FS_Subset
  <2> HIDE DEF Below
  <2> QED
    BY <1>2, <2>2
<1>4. ASSUME NEW x \in S, NEW y \in S, count[x] < count[y]
      PROVE  <<x, y>> \in R
  <2>1. count[x] \in Nat /\ count[y] \in Nat
    BY <1>2
  <2>2. x # y /\ <<y, x>> \notin R
    BY <1>3, <1>4, <2>1
  <2> QED
    BY <2>2
<1> DEFINE places == 0 .. (N - 1)
           g == [x \in S |-> count[x]]
<1>5. g \in [S -> places]
  <2> HIDE DEF N, Below
  <2> QED
    BY <1>1, <1>2
<1>6. ASSUME NEW x \in S, NEW y \in S, g[x] = g[y]
      PROVE  x = y
  <2>1. count[x] = count[y] /\ count[x] \in Nat
    BY <1>2, <1>6
  <2>2. ~(<<x, y>> \in R) /\ ~(<<y, x>> \in R)
    BY <1>3, <2>1
  <2> QED
    BY <2>2
<1>7. IsFiniteSet(places) /\ Cardinality(places) = N
  <2> HIDE DEF N
  <2> QED
    BY <1>1, FS_Interval
<1>8. g \in Injection(S, places)
  BY <1>5, <1>6 DEF Injection, IsInjective
<1> HIDE DEF places
<1>9. g \in Surjection(S, places)
  BY <1>7, <1>8, FS_Injection
<1>10. ASSUME NEW n \in 1 .. N
       PROVE  \E x \in S : count[x] = n - 1
  <2>1. n - 1 \in places
    BY <1>1 DEF places
  <2> QED
    BY <1>9, <2>1 DEF Surjection
<1> HIDE DEF N, Below
<1>11. ASSUME NEW x \in S
       PROVE  count[x] \in 0 .. (N - 1)
  BY <1>1, <1>2
<1> QED
  BY <1>1, <1>3, <1>4, <1>10, <1>11 DEF N

\* A finite nonempty set of integers has a least element.
LEMMA LeastInteger ==
  ASSUME NEW S \in SUBSET Int, IsFiniteSet(S), S # {}
  PROVE  \E x \in S : \A y \in S : x <= y
<1> DEFINE R == {r \in Int \X Int : r[1] < r[2]}
           count == [x \in S |-> Cardinality({y \in S : <<y, x>> \in R})]
<1>1. \A x, y \in Int : <<x, y>> \in R <=> x < y
  OBVIOUS
<1>2. \A x \in S : count[x] = Cardinality({y \in S : <<y, x>> \in R})
  OBVIOUS
<1> HIDE DEF R, count
<1>3. /\ \A x, y \in S : x # y => <<x, y>> \in R \/ <<y, x>> \in R
      /\ \A x \in S : <<x, x>> \notin R
      /\ \A x, y, z \in S : <<x, y>> \in R /\ <<y, z>> \in R => <<x, z>> \in R
  BY <1>1
<1>4. /\ Cardinality(S) \in Nat
      /\ \A x \in S : count[x] \in 0 .. (Cardinality(S) - 1)
      /\ \A x, y \in S : <<x, y>> \in R <=> count[x] < count[y]
      /\ \A n \in 1 .. Cardinality(S) : \E x \in S : count[x] = n - 1
  BY <1>2, <1>3, Places
<1>5. Cardinality(S) # 0
  BY FS_EmptySet
<1>6. PICK x \in S : count[x] = 1 - 1
  BY <1>4, <1>5
<1>7. ASSUME NEW y \in S
      PROVE  x <= y
  <2>1. count[y] \in Nat /\ ~(count[y] < count[x])
    BY <1>4, <1>6
  <2>2. ~(y < x)
    BY <1>1, <1>4, <2>1
  <2> QED
    BY <2>2
<1> QED
  BY <1>7

\* ... and a greatest one.
LEMMA GreatestInteger ==
  ASSUME NEW S \in SUBSET Int, IsFiniteSet(S), S # {}
  PROVE  \E x \in S : \A y \in S : y <= x
<1> DEFINE f == [x \in Int |-> -x]
           T == {f[x] : x \in S}
<1>1. \A x \in Int : f[x] = -x /\ f[x] \in Int
  OBVIOUS
<1> HIDE DEF f
<1>2. IsFiniteSet(T)
  BY ImageFinite
<1>3. T \in SUBSET Int /\ T # {}
  BY <1>1
<1>4. PICK t \in T : \A u \in T : t <= u
  BY <1>2, <1>3, LeastInteger
<1>5. PICK x \in S : t = f[x]
  BY <1>4
<1>6. ASSUME NEW y \in S
      PROVE  y <= x
  <2>1. f[y] \in T
    OBVIOUS
  <2>2. -x <= -y
    BY <1>1, <1>4, <1>5, <2>1
  <2> QED
    BY <2>2
<1> QED
  BY <1>6

=============================================================================
