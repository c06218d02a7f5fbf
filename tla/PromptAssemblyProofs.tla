------------------------- MODULE PromptAssemblyProofs -------------------------
(***************************************************************************)
(* Theorems about PromptAssembly for any capabilities, configurations,     *)
(* requests, candidates and sources.                                       *)
(*                                                                         *)
(* The first half says what the pure operators do: that sorting by keys    *)
(* that differ lists everything once and in order, that a sum grows by     *)
(* what is added, that cutting a text leaves a beginning of it, that an    *)
(* author's entry scores above a comparable extracted one, and that what   *)
(* is collected and ordered are blocks of the prompt.  The second half is  *)
(* the inductive invariant, one lemma for each action, and the properties  *)
(* it implies.                                                             *)
(***************************************************************************)
EXTENDS PromptAssembly, NaturalLemmas, SequenceTheorems

-----------------------------------------------------------------------------
(* Keys *)

\* Keys of one length are compared by a strict total order.
LEMMA EarlierOrder ==
  ASSUME NEW k \in Nat
  PROVE  /\ \A p, q \in [1 .. k -> Int] : p # q => Earlier(p, q) \/ Earlier(q, p)
         /\ \A p \in [1 .. k -> Int] : ~Earlier(p, p)
         /\ \A p, q, r \in [1 .. k -> Int] :
              Earlier(p, q) /\ Earlier(q, r) => Earlier(p, r)
<1>1. ASSUME NEW p \in [1 .. k -> Int], NEW q \in [1 .. k -> Int], p # q
      PROVE  Earlier(p, q) \/ Earlier(q, p)
  <2> DEFINE D == {n \in 1 .. k : p[n] # q[n]}
  <2>1. D \in SUBSET Nat /\ D # {}
    BY <1>1
  <2> HIDE DEF D
  <2>2. PICK n \in D : \A m \in D : n <= m
    BY <2>1, LeastNatural
  <2>3. n \in 1 .. k /\ p[n] \in Int /\ q[n] \in Int /\ p[n] # q[n]
    BY DEF D
  <2>4. \A m \in 1 .. (n - 1) : p[m] = q[m]
    BY <2>2, <2>3 DEF D
  <2> QED
    BY <2>3, <2>4 DEF Earlier
<1>2. ASSUME NEW p \in [1 .. k -> Int]
      PROVE  ~Earlier(p, p)
  BY DEF Earlier
<1>3. ASSUME NEW p \in [1 .. k -> Int], NEW q \in [1 .. k -> Int],
             NEW r \in [1 .. k -> Int], Earlier(p, q), Earlier(q, r)
      PROVE  Earlier(p, r)
  <2>1. PICK m \in 1 .. k : p[m] < q[m] /\ \A i \in 1 .. (m - 1) : p[i] = q[i]
    BY <1>3 DEF Earlier
  <2>2. PICK n \in 1 .. k : q[n] < r[n] /\ \A i \in 1 .. (n - 1) : q[i] = r[i]
    BY <1>3 DEF Earlier
  <2>3. \A i \in 1 .. k : p[i] \in Int /\ q[i] \in Int /\ r[i] \in Int
    OBVIOUS
  <2>4. CASE m <= n
    <3>1. p[m] < r[m]
      <4>1. CASE m = n
        BY <2>1, <2>2, <2>3, <4>1
      <4>2. CASE m # n
        <5>1. m \in 1 .. (n - 1)
          BY <2>4, <4>2
        <5> QED
          BY <2>1, <2>2, <5>1
      <4> QED
        BY <4>1, <4>2
    <3>2. ASSUME NEW i \in 1 .. (m - 1)
          PROVE  p[i] = r[i]
      <4>1. i \in 1 .. (n - 1)
        BY <2>4
      <4> QED
        BY <2>1, <2>2, <4>1
    <3> QED
      BY <3>1, <3>2 DEF Earlier
  <2>5. CASE n < m
    <3>1. n \in 1 .. (m - 1)
      BY <2>5
    <3>2. p[n] < r[n]
      BY <2>1, <2>2, <3>1
    <3>3. ASSUME NEW i \in 1 .. (n - 1)
          PROVE  p[i] = r[i]
      <4>1. i \in 1 .. (m - 1)
        BY <2>5
      <4> QED
        BY <2>1, <2>2, <4>1
    <3> QED
      BY <3>2, <3>3 DEF Earlier
  <2> QED
    BY <2>4, <2>5
<1> QED
  BY <1>1, <1>2, <1>3

\* Pairs whose keys are of one length and differ: sorting lists each of them once,
\* the earlier keys first.
LEMMA SortedIs ==
  ASSUME NEW pairs, IsFiniteSet(pairs), NEW k \in Nat,
         \A p \in pairs : p[1] \in [1 .. k -> Int],
         \A p, q \in pairs : p[1] = q[1] => p = q
  PROVE  /\ Cardinality(pairs) \in Nat
         /\ \E at \in [1 .. Cardinality(pairs) -> pairs] :
              /\ Sorted(pairs) = [n \in 1 .. Cardinality(pairs) |-> at[n][2]]
              /\ \A m, n \in 1 .. Cardinality(pairs) : m < n => Earlier(at[m][1], at[n][1])
              /\ \A p \in pairs : \E n \in 1 .. Cardinality(pairs) : at[n] = p
<1> DEFINE N == Cardinality(pairs)
           R == {r \in pairs \X pairs : Earlier(r[1][1], r[2][1])}
           Below(p) == {q \in pairs : Earlier(q[1], p[1])}
           count == [p \in pairs |-> Cardinality(Below(p))]
           at == [n \in 1 .. N |-> CHOOSE p \in pairs : Cardinality(Below(p)) = n - 1]
<1>1. \A p, q \in pairs : <<p, q>> \in R <=> Earlier(p[1], q[1])
  OBVIOUS
<1>2. \A p \in pairs : count[p] = Cardinality({q \in pairs : <<q, p>> \in R})
  <2>1. ASSUME NEW p \in pairs
        PROVE  Below(p) = {q \in pairs : <<q, p>> \in R}
    OBVIOUS
  <2> HIDE DEF R, Below
  <2> QED
    BY <2>1
<1>3. Sorted(pairs) = [n \in 1 .. N |-> at[n][2]]
  BY DEF Sorted
<1>4. \A p \in pairs : count[p] = Cardinality(Below(p))
  OBVIOUS
<1> HIDE DEF R, count, Below
<1>5. /\ \A x, y \in pairs : x # y => <<x, y>> \in R \/ <<y, x>> \in R
      /\ \A x \in pairs : <<x, x>> \notin R
      /\ \A x, y, z \in pairs : <<x, y>> \in R /\ <<y, z>> \in R => <<x, z>> \in R
  <2>1. ASSUME NEW x \in pairs, NEW y \in pairs, x # y
        PROVE  <<x, y>> \in R \/ <<y, x>> \in R
    BY <1>1, <2>1, EarlierOrder
  <2>2. ASSUME NEW x \in pairs
        PROVE  <<x, x>> \notin R
    BY <1>1, EarlierOrder
  <2>3. ASSUME NEW x \in pairs, NEW y \in pairs, NEW z \in pairs,
               <<x, y>> \in R, <<y, z>> \in R
        PROVE  <<x, z>> \in R
    <3>1. Earlier(x[1], y[1]) /\ Earlier(y[1], z[1])
      BY <1>1, <2>3
    <3>2. x[1] \in [1 .. k -> Int] /\ y[1] \in [1 .. k -> Int] /\ z[1] \in [1 .. k -> Int]
      OBVIOUS
    <3>3. Earlier(x[1], z[1])
      BY <3>1, <3>2, EarlierOrder
    <3> QED
      BY <1>1, <3>3
  <2> QED
    BY <2>1, <2>2, <2>3
<1>6. /\ N \in Nat
      /\ \A x \in pairs : count[x] \in 0 .. (N - 1)
      /\ \A x, y \in pairs : <<x, y>> \in R <=> count[x] < count[y]
      /\ \A n \in 1 .. N : \E x \in pairs : count[x] = n - 1
  BY <1>2, <1>5, Places
<1>7. ASSUME NEW n \in 1 .. N
      PROVE  at[n] \in pairs /\ count[at[n]] = n - 1
  <2>1. at[n] = CHOOSE p \in pairs : Cardinality(Below(p)) = n - 1
    OBVIOUS
  <2>2. \E p \in pairs : Cardinality(Below(p)) = n - 1
    BY <1>4, <1>6
  <2>3. at[n] \in pairs /\ Cardinality(Below(at[n])) = n - 1
    BY <2>1, <2>2
  <2> QED
    BY <1>4, <2>3
<1>8. at \in [1 .. N -> pairs]
  BY <1>7
<1> HIDE DEF at, N
<1>9. ASSUME NEW m \in 1 .. N, NEW n \in 1 .. N, m < n
      PROVE  Earlier(at[m][1], at[n][1])
  <2>1. count[at[m]] < count[at[n]]
    BY <1>6, <1>7, <1>9
  <2> QED
    BY <1>1, <1>6, <1>7, <2>1
<1>10. ASSUME NEW p \in pairs
       PROVE  \E n \in 1 .. N : at[n] = p
  <2> DEFINE n == count[p] + 1
  <2>1. n \in 1 .. N /\ n - 1 = count[p]
    BY <1>6
  <2> HIDE DEF n
  <2>2. at[n] \in pairs /\ count[at[n]] = count[p]
    BY <1>7, <2>1
  <2>3. ~(count[p] < count[p])
    BY <1>6
  <2>4. <<at[n], p>> \notin R /\ <<p, at[n]>> \notin R
    BY <1>6, <2>2, <2>3
  <2>5. at[n] = p
    BY <1>5, <2>2, <2>4
  <2> QED
    BY <2>1, <2>5
<1> QED
  BY <1>3, <1>6, <1>8, <1>9, <1>10 DEF N

-----------------------------------------------------------------------------
(* Sums *)

\* An initial interval has as many elements as its last says.
LEMMA IntervalFinite ==
  ASSUME NEW n \in Nat
  PROVE  IsFiniteSet(1 .. n) /\ Cardinality(1 .. n) = n
<1>1. 1 \in Int /\ n \in Int
  OBVIOUS
<1>2. IsFiniteSet(1 .. n) /\ Cardinality(1 .. n) = IF 1 > n THEN 0 ELSE n - 1 + 1
  BY <1>1, FS_Interval
<1> QED
  BY <1>2

\* A sum over a finite set is a natural number.
LEMMA TotalType ==
  ASSUME NEW S, IsFiniteSet(S), NEW counts, \A n \in S : counts[n] \in Nat
  PROVE  /\ Total(counts, S) \in Nat
         /\ IsFiniteSet(UNION {{n} \X (1 .. counts[n]) : n \in S})
<1> DEFINE f == [n \in S |-> {n} \X (1 .. counts[n])]
           Parts == {f[n] : n \in S}
<1>1. ASSUME NEW n \in S
      PROVE  IsFiniteSet(f[n])
  <2>1. IsFiniteSet({n}) /\ IsFiniteSet(1 .. counts[n])
    BY FS_Singleton, IntervalFinite
  <2>2. IsFiniteSet({n} \X (1 .. counts[n]))
    BY <2>1, FS_Product
  <2> QED
    BY <2>2
<1>2. UNION Parts = UNION {{n} \X (1 .. counts[n]) : n \in S}
  OBVIOUS
<1> HIDE DEF f
<1>3. IsFiniteSet(Parts)
  BY ImageFinite
<1>4. \A T \in Parts : IsFiniteSet(T)
  BY <1>1
<1> HIDE DEF Parts
<1>5. IsFiniteSet(UNION Parts)
  BY <1>3, <1>4, FS_UNION
<1> QED
  BY <1>2, <1>5, FS_CardinalityType DEF Total

\* A sum over one more place has one more summand.
LEMMA TotalAdd ==
  ASSUME NEW S, IsFiniteSet(S), NEW n, n \notin S, NEW counts,
         \A m \in S \cup {n} : counts[m] \in Nat
  PROVE  Total(counts, S \cup {n}) = Total(counts, S) + counts[n]
<1> DEFINE A == UNION {{m} \X (1 .. counts[m]) : m \in S}
           B == {n} \X (1 .. counts[n])
<1>1. UNION {{m} \X (1 .. counts[m]) : m \in S \cup {n}} = A \cup B
  OBVIOUS
<1>2. A \cap B = {}
  OBVIOUS
<1>3. IsFiniteSet(A)
  BY TotalType
<1>4. IsFiniteSet(B) /\ Cardinality(B) = counts[n]
  <2>1. IsFiniteSet({n}) /\ Cardinality({n}) = 1
    BY FS_Singleton
  <2>2. counts[n] \in Nat
    OBVIOUS
  <2>3. IsFiniteSet(1 .. counts[n]) /\ Cardinality(1 .. counts[n]) = counts[n]
    BY <2>2, IntervalFinite
  <2>4. IsFiniteSet(B) /\ Cardinality(B) = 1 * counts[n]
    BY <2>1, <2>3, FS_Product
  <2> QED
    BY <2>2, <2>4
<1>5. Total(counts, S) = Cardinality(A) /\ Total(counts, S \cup {n}) = Cardinality(A \cup B)
  BY <1>1 DEF Total
<1>6. Cardinality(A) \in Nat /\ counts[n] \in Nat /\ Cardinality({}) = 0
  BY <1>3, FS_CardinalityType, FS_EmptySet
<1> HIDE DEF A, B
<1>7. Cardinality(A \cup B) = Cardinality(A) + Cardinality(B) - Cardinality(A \cap B)
  BY <1>3, <1>4, FS_Union
<1>8. Cardinality(A \cap B) = 0
  BY <1>2, <1>6
<1>9. Cardinality(A \cup B) = Cardinality(A) + counts[n] - 0
  BY <1>4, <1>7, <1>8
<1> QED
  BY <1>5, <1>6, <1>9

\* The sum of nothing is zero.
LEMMA TotalEmpty ==
  ASSUME NEW counts
  PROVE  Total(counts, {}) = 0
<1>1. UNION {{n} \X (1 .. counts[n]) : n \in {}} = {}
  OBVIOUS
<1> QED
  BY <1>1, FS_EmptySet DEF Total

\* Only the summands matter.
LEMMA TotalSame ==
  ASSUME NEW S, NEW c, NEW d, \A n \in S : c[n] = d[n]
  PROVE  Total(c, S) = Total(d, S)
<1>1. UNION {{n} \X (1 .. c[n]) : n \in S} = UNION {{n} \X (1 .. d[n]) : n \in S}
  OBVIOUS
<1> QED
  BY <1>1 DEF Total

-----------------------------------------------------------------------------
(* Texts *)

\* No more characters are wide than there are.
LEMMA WideType ==
  ASSUME NEW text \in Text
  PROVE  Len(text) \in Nat /\ Wide(text) \in 0 .. Len(text)
<1>1. Len(text) \in Nat /\ DOMAIN text = 1 .. Len(text)
  BY LenProperties DEF Text
<1> DEFINE W == {n \in DOMAIN text : text[n] = "K"}
           D == 1 .. Len(text)
<1>2. W \in SUBSET D
  BY <1>1
<1>3. IsFiniteSet(D) /\ Cardinality(D) = Len(text)
  BY <1>1, IntervalFinite
<1>4. Wide(text) = Cardinality(W)
  BY DEF Wide
<1> HIDE DEF W, D
<1>5. IsFiniteSet(W) /\ Cardinality(W) <= Len(text)
  BY <1>2, <1>3, FS_Subset
<1>6. Cardinality(W) \in Nat
  BY <1>5, FS_CardinalityType
<1> QED
  BY <1>1, <1>4, <1>5, <1>6

\* Every text but the empty one has at least one token.
LEMMA CountType ==
  ASSUME NEW text \in Text
  PROVE  /\ Count(text) \in Nat
         /\ Count(<<>>) = 0
         /\ text # <<>> => Count(text) > 0
<1>1. CharsPerToken \in Nat /\ CharsPerToken > 0
  BY TokenAssumption
<1>2. Len(text) \in Nat /\ Wide(text) \in Nat /\ Len(text) - Wide(text) \in Nat
  BY WideType
<1>3. (Len(text) - Wide(text)) \div CharsPerToken \in Nat
  BY <1>1, <1>2
<1> DEFINE c == Wide(text) + ((Len(text) - Wide(text)) \div CharsPerToken) + 1
<1>4. c \in Nat
  BY <1>2, <1>3
<1> HIDE DEF c
<1>5. Larger(1, c) \in Nat /\ Larger(1, c) > 0
  BY <1>4 DEF Larger
<1>6. text # <<>> => Count(text) = Larger(1, c)
  BY DEF Count, c
<1>7. Count(<<>>) = 0
  BY DEF Count
<1> QED
  BY <1>5, <1>6, <1>7

\* Rendering an entry gives a text.
LEMMA RenderedType ==
  ASSUME NEW e \in Candidate
  PROVE  Rendered(e) \in Text
<1>1. e.text \in Text /\ Heading \in Text
  BY TokenAssumption DEF Candidate
<1> QED
  BY <1>1, ConcatProperties DEF Rendered, Text

\* A share of a is at most a.
LEMMA Share ==
  ASSUME NEW a \in Nat, NEW b \in Nat, NEW c \in Nat \ {0}, b <= c
  PROVE  (a * b) \div c \in 0 .. a
<1> DEFINE q == (a * b) \div c
<1>1. a * b \in Nat /\ a * c \in Nat /\ a * b <= a * c
  OBVIOUS
<1>2. q \in Nat /\ c * q <= a * b
  BY <1>1
<1> HIDE DEF q
<1>3. ASSUME q > a
      PROVE  FALSE
  <2>1. q >= a + 1
    BY <1>2, <1>3
  <2>2. c * q >= c * (a + 1)
    BY <1>2, <2>1
  <2>3. c * (a + 1) = a * c + c
    OBVIOUS
  <2> QED
    BY <1>1, <1>2, <2>2, <2>3
<1> QED
  BY <1>2, <1>3 DEF q

\* A beginning of a beginning of a text is one of the text.
LEMMA PrefixOfPrefix ==
  ASSUME NEW text \in Text, NEW whole \in Text, Prefix(text, whole), NEW k \in 0 .. Len(text)
  PROVE  SubSeq(text, 1, k) \in Text /\ Prefix(SubSeq(text, 1, k), whole)
<1> DEFINE Chars == {"K", "x", "_"}
<1>1. text \in Seq(Chars) /\ whole \in Seq(Chars) /\ Text = Seq(Chars)
  BY DEF Text
<1> HIDE DEF Chars
<1>2. /\ Len(text) \in Nat /\ Len(whole) \in Nat /\ Len(text) <= Len(whole)
      /\ k \in Nat /\ k <= Len(text)
  <2>1. Len(text) \in Nat /\ Len(whole) \in Nat
    BY <1>1, LenProperties
  <2>2. Len(text) <= Len(whole)
    BY DEF Prefix
  <2> QED
    BY <2>1, <2>2
<1>3. \A i \in 1 .. Len(text) : text[i] \in Chars
  BY <1>1, ElementOfSeq
<1>4. \A i \in 1 .. Len(whole) : whole[i] \in Chars
  BY <1>1, ElementOfSeq
<1>5. \A i \in 1 .. Len(text) : text[i] = whole[i]
  <2>1. text = SubSeq(whole, 1, Len(text))
    BY DEF Prefix
  <2>2. \A i \in 1 .. (Len(text) - 1 + 1) : SubSeq(whole, 1, Len(text))[i] = whole[1 + i - 1]
    BY <1>2, <1>4, SubSeqProperties
  <2> QED
    BY <1>2, <2>1, <2>2
<1>6. /\ SubSeq(text, 1, k) \in Seq(Chars) /\ Len(SubSeq(text, 1, k)) = k
      /\ \A i \in 1 .. k : SubSeq(text, 1, k)[i] = text[i]
  <2>1. /\ SubSeq(text, 1, k) \in Seq(Chars)
        /\ Len(SubSeq(text, 1, k)) = IF 1 <= k THEN k - 1 + 1 ELSE 0
        /\ \A i \in 1 .. (k - 1 + 1) : SubSeq(text, 1, k)[i] = text[1 + i - 1]
    BY <1>2, <1>3, SubSeqProperties
  <2> QED
    BY <1>2, <2>1
<1>7. /\ SubSeq(whole, 1, k) \in Seq(Chars) /\ Len(SubSeq(whole, 1, k)) = k
      /\ \A i \in 1 .. k : SubSeq(whole, 1, k)[i] = whole[i]
  <2>1. /\ SubSeq(whole, 1, k) \in Seq(Chars)
        /\ Len(SubSeq(whole, 1, k)) = IF 1 <= k THEN k - 1 + 1 ELSE 0
        /\ \A i \in 1 .. (k - 1 + 1) : SubSeq(whole, 1, k)[i] = whole[1 + i - 1]
    BY <1>2, <1>4, SubSeqProperties
  <2> QED
    BY <1>2, <2>1
<1>8. \A i \in 1 .. k : SubSeq(text, 1, k)[i] = SubSeq(whole, 1, k)[i]
  BY <1>2, <1>5, <1>6, <1>7
<1>9. SubSeq(text, 1, k) = SubSeq(whole, 1, k)
  BY <1>6, <1>7, <1>8, SeqEqual
<1> QED
  BY <1>1, <1>2, <1>6, <1>9 DEF Prefix

\* _trim_to() leaves a beginning of a text it has to shorten.
LEMMA TrimToPrefix ==
  ASSUME NEW text \in Text, NEW whole \in Text, Prefix(text, whole), NEW tokens \in Nat
  PROVE  TrimTo(text, tokens) \in Text /\ Prefix(TrimTo(text, tokens), whole)
<1> SUFFICES ASSUME ~(Count(text) <= tokens)
             PROVE  TrimTo(text, tokens) \in Text /\ Prefix(TrimTo(text, tokens), whole)
  BY DEF TrimTo
<1>1. Count(text) \in Nat \ {0} /\ tokens <= Count(text) /\ text # <<>>
  BY CountType
<1>2. Len(text) \in Nat /\ Len(text) >= 1
  <2>1. Len(text) \in Nat \ {0}
    BY <1>1, EmptySeq DEF Text
  <2> QED
    BY <2>1
<1> DEFINE cut == Larger(1, (Len(text) * tokens) \div Count(text))
           spaces == {n \in 1 .. cut : text[n] = "_"}
           end == IF spaces = {} THEN cut
                  ELSE (CHOOSE n \in spaces : \A m \in spaces : m <= n) - 1
<1>3. cut \in 1 .. Len(text)
  <2>1. (Len(text) * tokens) \div Count(text) \in 0 .. Len(text)
    BY <1>1, <1>2, Share
  <2> QED
    BY <1>2, <2>1 DEF Larger
<1>4. TrimTo(text, tokens) = SubSeq(text, 1, end)
  BY DEF TrimTo
<1>5. spaces \in SUBSET (1 .. cut)
  OBVIOUS
<1> HIDE DEF cut, spaces
<1>6. end \in 0 .. Len(text)
  <2>1. CASE spaces = {}
    BY <1>2, <1>3, <2>1
  <2>2. CASE spaces # {}
    <3>1. spaces \in SUBSET Nat /\ cut \in Nat /\ \A m \in spaces : m <= cut
      BY <1>3, <1>5
    <3>2. \E n \in spaces : \A m \in spaces : m <= n
      BY <2>2, <3>1, GreatestNatural
    <3>3. PICK n \in spaces : end = n - 1
      BY <2>2, <3>2
    <3> QED
      BY <1>2, <1>3, <1>5, <3>3
  <2> QED
    BY <2>1, <2>2
<1> HIDE DEF end
<1> QED
  BY <1>4, <1>6, PrefixOfPrefix

\* The separator of texts is a text.
LEMMA SpaceType ==
  <<"_">> \in Text
<1> DEFINE Chars == {"K", "x", "_"}
<1>1. "_" \in Chars /\ Text = Seq(Chars)
  BY DEF Text
<1>2. ASSUME NEW S, NEW c \in S
      PROVE  <<c>> \in Seq(S)
  OBVIOUS
<1> HIDE DEF Chars
<1> QED
  BY <1>1, <1>2

\* assemble_continue(): the system text with the cast is a text.
LEMMA BodyType ==
  ASSUME sources \in Source
  PROVE  Body \in Text
<1> DEFINE N == Len(sources.cast)
           Joined(t, n) == t \o <<"_">> \o sources.cast[n]
<1>1. N \in Nat /\ \A n \in 1 .. N : sources.cast[n] \in Text
  <2>1. sources.cast \in Seq(Text)
    BY DEF Source
  <2> QED
    BY <2>1, LenProperties, ElementOfSeq
<1>2. ASSUME NEW t \in Text, NEW n \in 1 .. N
      PROVE  Joined(t, n) \in Text
  <2>1. <<"_">> \in Text
    BY SpaceType
  <2>2. t \o <<"_">> \in Text
    BY <2>1, ConcatProperties DEF Text
  <2> QED
    BY <1>1, <2>2, ConcatProperties DEF Text
<1>3. SystemText \in Text
  BY PromptAssumption
<1> DEFINE lines == CHOOSE lines : lines = [n \in 0 .. N |-> IF n = 0 THEN SystemText
                                                            ELSE Joined(lines[n - 1], n)]
<1>4. Body = lines[N]
  BY DEF Body
<1> HIDE DEF N, Joined, lines
<1> DEFINE B == {SystemText}
           R == {r \in (1 .. N) \X Text \X Text : r[3] = Joined(r[2], r[1])}
<1>5. \A n \in 1 .. N : \A t, u \in Text : <<n, t, u>> \in R <=> u = Joined(t, n)
  OBVIOUS
<1> HIDE DEF R
<1>6. /\ \E t \in Text : t \in B
      /\ \A n \in 1 .. N : \A t \in Text : \E u \in Text : <<n, t, u>> \in R
  BY <1>2, <1>3, <1>5
<1> HIDE DEF B
<1>7. PICK f \in [0 .. N -> Text] : f[0] = SystemText /\ \A n \in 1 .. N : f[n] = Joined(f[n - 1], n)
  <2>1. N \in Nat
    BY <1>1
  <2>2. PICK f \in [0 .. N -> Text] :
          f[0] \in B /\ \A n \in 1 .. N : <<n, f[n - 1], f[n]>> \in R
    BY <1>6, <2>1, Recursion, Zenon
  <2>3. f[0] = SystemText
    BY <2>2 DEF B
  <2>4. ASSUME NEW n \in 1 .. N
        PROVE  f[n] = Joined(f[n - 1], n)
    <3>1. f[n - 1] \in Text /\ f[n] \in Text
      BY <2>1, <2>2
    <3> QED
      BY <1>5, <2>2, <3>1
  <2> QED
    BY <2>2, <2>3, <2>4, Zenon
<1>8. f = [n \in 0 .. N |-> IF n = 0 THEN SystemText ELSE Joined(f[n - 1], n)]
  <2>1. ASSUME NEW n \in 0 .. N
        PROVE  f[n] = IF n = 0 THEN SystemText ELSE Joined(f[n - 1], n)
    <3>1. CASE n = 0
      BY <1>7, <3>1
    <3>2. CASE n \in 1 .. N
      BY <1>1, <1>7, <3>2
    <3> QED
      BY <1>1, <3>1, <3>2
  <2> QED
    BY <1>7, <2>1
<1>9. lines = [n \in 0 .. N |-> IF n = 0 THEN SystemText ELSE Joined(lines[n - 1], n)]
  BY <1>8 DEF lines
<1> DEFINE Fine == {m \in Nat : m <= N => lines[m] \in Text}
<1>10. 0 \in Fine
  <2>1. lines[0] = SystemText
    <3>1. 0 \in 0 .. N
      BY <1>1
    <3> QED
      BY <1>9, <3>1
  <2> QED
    BY <1>3, <2>1
<1>11. ASSUME NEW m \in Nat, m \in Fine
       PROVE  m + 1 \in Fine
  <2> SUFFICES ASSUME m + 1 <= N
               PROVE  lines[m + 1] \in Text
    OBVIOUS
  <2>1. lines[m] \in Text /\ m + 1 \in 1 .. N
    BY <1>1, <1>11
  <2>2. lines[m + 1] = Joined(lines[m], m + 1)
    <3>1. m + 1 \in 0 .. N /\ m + 1 # 0 /\ m + 1 - 1 = m
      BY <1>1
    <3>2. \A n \in 0 .. N : lines[n] = IF n = 0 THEN SystemText ELSE Joined(lines[n - 1], n)
      BY <1>9, Zenon
    <3> QED
      BY <3>1, <3>2
  <2> QED
    BY <1>2, <2>1, <2>2
<1> HIDE DEF Fine
<1>12. Nat \subseteq Fine
  BY <1>10, <1>11, Induction
<1> QED
  BY <1>1, <1>4, <1>12 DEF Fine

-----------------------------------------------------------------------------
(* Scores and ranking *)

\* What the ranking is given: rows of the store, each with an id of its own, and
\* a request with finitely many terms.
Rankable(rows, asked) ==
    /\ IsFiniteSet(rows) /\ rows \subseteq Candidate
    /\ \A d, e \in rows : d.id = e.id => d = e
    /\ IsFiniteSet(asked.terms) /\ IsFiniteSet(asked.cast)

\* The recency of an entry is a number, also when all candidates have one time.
LEMMA RecencyType ==
  ASSUME NEW rows, NEW asked, Rankable(rows, asked), NEW e \in rows
  PROVE  RecencyFactor(e, rows) \in Int
<1> DEFINE dated == {d \in rows : d.at = 0}
           f == [c \in dated |-> c.updated]
           times == {c.updated : c \in dated}
           oldest == Min(times)
           newest == Max(times)
<1>1. RecencyFactor(e, rows) =
        IF e.at > 0 \/ oldest = newest THEN 0
        ELSE ((Million \div 2) * (e.updated - oldest)) \div (newest - oldest)
  BY DEF RecencyFactor
<1>2. e \in Candidate /\ e.at \in Nat /\ e.updated \in Int
  BY DEF Rankable, Candidate
<1>3. times = {f[c] : c \in dated} /\ times \in SUBSET Int
  <2>1. \A c \in dated : f[c] = c.updated /\ c.updated \in Int
    BY DEF Rankable, Candidate
  <2> QED
    BY <2>1
<1>4. IsFiniteSet(times)
  <2>1. IsFiniteSet(dated)
    BY FS_Subset DEF Rankable
  <2> HIDE DEF f, dated, times
  <2> QED
    BY <1>3, <2>1, ImageFinite
<1>5. e.at = 0 => e.updated \in times
  OBVIOUS
<1> SUFFICES ASSUME e.at = 0, oldest # newest
             PROVE  RecencyFactor(e, rows) \in Int
  BY <1>1, <1>2
<1> HIDE DEF times
<1>6. oldest \in Int /\ newest \in Int /\ newest > oldest
  <2>1. times # {}
    BY <1>5
  <2>2. oldest \in times /\ \A y \in times : oldest <= y
    BY <1>3, <1>4, <2>1, LeastInteger DEF Min
  <2>3. newest \in times /\ \A y \in times : newest >= y
    <3>1. \E x \in times : \A y \in times : x >= y
      BY <1>3, <1>4, <2>1, GreatestInteger
    <3> QED
      BY <3>1 DEF Max
  <2> HIDE DEF oldest, newest
  <2> QED
    BY <1>3, <2>2, <2>3
<1> HIDE DEF oldest, newest
<1>7. newest - oldest \in Nat \ {0} /\ (Million \div 2) * (e.updated - oldest) \in Int
  BY <1>2, <1>6 DEF Million
<1> QED
  BY <1>1, <1>2, <1>6, <1>7

\* The other factors of a score are numbers.
LEMMA FactorTypes ==
  ASSUME NEW rows, NEW asked, Rankable(rows, asked), NEW e \in rows
  PROVE  /\ KeywordFactor(e, asked) \in Int /\ IdentityFactor(e, asked) \in Int
         /\ TypeWeight(e.type) \in Int /\ TaskBoost(e.type, asked.task) \in Int
         /\ StatusWeight(e.status) \in Int
         /\ ConfidenceFactor(e) \in Int /\ AuthorityFactor(e) \in Int
         /\ ExemplarFactor(e, asked) \in Int
<1>1. /\ e.confidence \in Int
      /\ e.confidence # None => e.confidence \in 0 .. 100
  BY DEF Rankable, Candidate, None
<1>2. KeywordFactor(e, asked) \in Int
  <2>1. CASE asked.terms = {}
    BY <2>1 DEF KeywordFactor
  <2>2. CASE asked.terms # {}
    <3>1. Cardinality(asked.terms) \in Nat \ {0}
      BY <2>2, FS_CardinalityType, FS_EmptySet DEF Rankable
    <3>2. Cardinality(e.words \cap asked.terms) \in Nat
      BY FS_Intersection, FS_CardinalityType DEF Rankable
    <3> QED
      BY <2>2, <3>1, <3>2 DEF KeywordFactor, Million
  <2> QED
    BY <2>1, <2>2
<1>3. IdentityFactor(e, asked) \in Int
  <2>1. Cardinality(e.cast \cap asked.cast) \in Nat
    BY FS_Intersection, FS_CardinalityType DEF Rankable
  <2> QED
    BY <2>1 DEF IdentityFactor, Smaller, Million
<1>4. TypeWeight(e.type) \in Int
  BY DEF TypeWeight
<1>5. TaskBoost(e.type, asked.task) \in Int
  BY DEF TaskBoost
<1>6. StatusWeight(e.status) \in Int
  BY DEF StatusWeight
<1>7. ConfidenceFactor(e) \in Int /\ AuthorityFactor(e) \in Int /\ ExemplarFactor(e, asked) \in Int
  BY <1>1 DEF ConfidenceFactor, AuthorityFactor, ExemplarFactor, Million
<1> QED
  BY <1>2, <1>3, <1>4, <1>5, <1>6, <1>7

\* A score is a number.
LEMMA ScoreType ==
  ASSUME NEW rows, NEW asked, Rankable(rows, asked), NEW e \in rows
  PROVE  Score(e, asked, rows) \in Int
<1>1. e.priority \in Int
  BY DEF Rankable, Candidate
<1> QED
  BY <1>1, FactorTypes, RecencyType DEF Score

\* Authority outweighs any confidence.
LEMMA AuthorScoresMore ==
  ASSUME NEW rows, NEW asked, Rankable(rows, asked), NEW a \in rows, NEW b \in rows,
         a.capture \in {"human-authored", "human-edited"}, b.capture = "ai-extracted",
         Comparable(a, b)
  PROVE  Score(b, asked, rows) < Score(a, asked, rows)
<1>1. /\ a.type = b.type /\ a.status = b.status /\ a.priority = b.priority
      /\ a.updated = b.updated /\ a.words = b.words /\ a.cast = b.cast /\ a.at = b.at
  BY DEF Comparable
<1>2. /\ KeywordFactor(a, asked) = KeywordFactor(b, asked)
      /\ IdentityFactor(a, asked) = IdentityFactor(b, asked)
      /\ ExemplarFactor(a, asked) = ExemplarFactor(b, asked)
  BY <1>1 DEF KeywordFactor, IdentityFactor, ExemplarFactor
<1>3. RecencyFactor(a, rows) = RecencyFactor(b, rows)
  BY <1>1, Zenon DEF RecencyFactor
<1>4. ConfidenceFactor(a) = 0 /\ AuthorityFactor(a) = 310000 /\ AuthorityFactor(b) = 0
  BY DEF ConfidenceFactor, AuthorityFactor
<1>5. ConfidenceFactor(b) <= 300000
  <2>1. b.confidence = None \/ b.confidence \in 0 .. 100
    BY DEF Rankable, Candidate
  <2> QED
    BY <2>1 DEF ConfidenceFactor
<1>6. b.priority \in Int
  BY DEF Rankable, Candidate
<1> DEFINE same == KeywordFactor(b, asked) + IdentityFactor(b, asked)
                     + TypeWeight(b.type) + TaskBoost(b.type, asked.task)
                     + StatusWeight(b.status) + RecencyFactor(b, rows) + 10000 * b.priority
<1>7. /\ Score(b, asked, rows)
           = same + ConfidenceFactor(b) + AuthorityFactor(b) + ExemplarFactor(b, asked)
      /\ Score(a, asked, rows)
           = same + ConfidenceFactor(a) + AuthorityFactor(a) + ExemplarFactor(b, asked)
  BY <1>1, <1>2, <1>3 DEF Score
<1>8. same \in Int /\ ConfidenceFactor(b) \in Int /\ ExemplarFactor(b, asked) \in Int
  BY <1>6, FactorTypes, RecencyType
<1> HIDE DEF same
<1> QED
  BY <1>4, <1>5, <1>7, <1>8

\* The sort key of an entry has five parts, the last of which is its id.
LEMMA SortKeyType ==
  ASSUME NEW rows, NEW asked, Rankable(rows, asked), NEW e \in rows
  PROVE  SortKey(e, asked, rows) \in [1 .. 5 -> Int] /\ SortKey(e, asked, rows)[5] = e.id
<1>1. /\ e.id \in Int /\ e.priority \in Int /\ e.at \in Int /\ e.updated \in Int
      /\ e.confidence \in Int
  BY DEF Rankable, Candidate, None
<1>2. Applicable(e) \in Int /\ Chronology(e) \in Int /\ Score(e, asked, rows) \in Int
  BY <1>1, ScoreType DEF Applicable, Chronology
<1> QED
  BY <1>1, <1>2 DEF SortKey

\* rank_entries() lists every candidate, the best first.
LEMMA RankIs ==
  ASSUME NEW rows, NEW asked, Rankable(rows, asked)
  PROVE  /\ Rank(rows, asked) \in Seq(rows) /\ Range(Rank(rows, asked)) = rows
         /\ \A m, n \in DOMAIN Rank(rows, asked) : m < n =>
              Earlier(SortKey(Rank(rows, asked)[m], asked, rows),
                      SortKey(Rank(rows, asked)[n], asked, rows))
<1> DEFINE Pair(e) == <<SortKey(e, asked, rows), e>>
           f == [e \in rows |-> Pair(e)]
           pairs == {Pair(e) : e \in rows}
           q == Rank(rows, asked)
           N == Cardinality(pairs)
<1>1. IsFiniteSet(pairs)
  <2>1. pairs = {f[e] : e \in rows}
    OBVIOUS
  <2>2. IsFiniteSet(rows)
    BY DEF Rankable
  <2> HIDE DEF f, pairs
  <2> QED
    BY <2>1, <2>2, ImageFinite
<1>2. \A p \in pairs : /\ p[2] \in rows /\ p[1] = SortKey(p[2], asked, rows) /\ p = Pair(p[2])
                       /\ p[1] \in [1 .. 5 -> Int] /\ p[1][5] = p[2].id
  BY SortKeyType
<1>3. \A e \in rows : Pair(e) \in pairs /\ Pair(e)[2] = e
  OBVIOUS
<1>4. q = Sorted(pairs)
  BY DEF Rank
<1> HIDE DEF Pair, f, pairs
<1>5. \A p, r \in pairs : p[1] = r[1] => p = r
  <2> SUFFICES ASSUME NEW p \in pairs, NEW r \in pairs, p[1] = r[1]
               PROVE  p = r
    OBVIOUS
  <2>1. p[2].id = r[2].id /\ p[2] \in rows /\ r[2] \in rows
    BY <1>2
  <2>2. p[2] = r[2]
    BY <2>1 DEF Rankable
  <2> QED
    BY <1>2, <2>2
<1>6. /\ N \in Nat
      /\ \E at \in [1 .. N -> pairs] :
           /\ Sorted(pairs) = [n \in 1 .. N |-> at[n][2]]
           /\ \A m, n \in 1 .. N : m < n => Earlier(at[m][1], at[n][1])
           /\ \A p \in pairs : \E n \in 1 .. N : at[n] = p
  <2>1. \A p \in pairs : p[1] \in [1 .. 5 -> Int]
    BY <1>2
  <2>2. 5 \in Nat
    OBVIOUS
  <2> QED
    BY <1>1, <1>5, <2>1, <2>2, SortedIs
<1>7. PICK at \in [1 .. N -> pairs] :
        /\ Sorted(pairs) = [n \in 1 .. N |-> at[n][2]]
        /\ \A m, n \in 1 .. N : m < n => Earlier(at[m][1], at[n][1])
        /\ \A p \in pairs : \E n \in 1 .. N : at[n] = p
  BY <1>6
<1> HIDE DEF q, N
<1>8. q \in [1 .. N -> rows] /\ DOMAIN q = 1 .. N /\ \A n \in 1 .. N : q[n] = at[n][2]
  <2>1. \A n \in 1 .. N : at[n][2] \in rows
    BY <1>2, <1>7
  <2> QED
    BY <1>4, <1>7, <2>1
<1>9. q \in Seq(rows)
  BY <1>6, <1>8
<1>10. ASSUME NEW e \in rows
       PROVE  \E n \in 1 .. N : q[n] = e
  <2>1. PICK n \in 1 .. N : at[n] = Pair(e)
    BY <1>3, <1>7
  <2> QED
    BY <1>3, <1>8, <2>1
<1>11. Range(q) = rows
  BY <1>8, <1>10 DEF Range
<1>12. ASSUME NEW m \in 1 .. N, NEW n \in 1 .. N, m < n
       PROVE  Earlier(SortKey(q[m], asked, rows), SortKey(q[n], asked, rows))
  <2>1. Earlier(at[m][1], at[n][1])
    BY <1>7, <1>12
  <2>2. at[m] \in pairs /\ at[n] \in pairs /\ q[m] = at[m][2] /\ q[n] = at[n][2]
    BY <1>7, <1>8
  <2>3. at[m][1] = SortKey(q[m], asked, rows) /\ at[n][1] = SortKey(q[n], asked, rows)
    BY <1>2, <2>2
  <2> QED
    BY <2>1, <2>3
<1> QED
  BY <1>8, <1>9, <1>11, <1>12 DEF q

\* order_selected_story_summaries() loses no item and adds none.
LEMMA OrderSummariesIs ==
  ASSUME NEW rows \in SUBSET Candidate, NEW items \in Seq(rows)
  PROVE  /\ OrderSummaries(items) \in Seq(rows)
         /\ Range(OrderSummaries(items)) = Range(items)
<1> DEFINE D == DOMAIN items
           slots == {n \in D : items[n].type = "story.summary"}
           Pair(n) == <<<<items[n].at, n>>, items[n]>>
           f == [n \in slots |-> Pair(n)]
           pairs == {Pair(n) : n \in slots}
           inOrder == Sorted(pairs)
           Slot(n) == Cardinality({m \in slots : m <= n})
           N == Cardinality(pairs)
           new == OrderSummaries(items)
<1>1. /\ Len(items) \in Nat /\ D = 1 .. Len(items)
      /\ \A n \in D : items[n] \in rows /\ items[n].at \in Int
  BY LenProperties, ElementOfSeq DEF Candidate
<1>2. new = [n \in D |-> IF n \in slots THEN inOrder[Slot(n)] ELSE items[n]]
  BY DEF OrderSummaries
<1>3. slots \in SUBSET D /\ slots \in SUBSET Nat
  BY <1>1
<1>4. IsFiniteSet(slots)
  <2>1. IsFiniteSet(D)
    BY <1>1, IntervalFinite
  <2> QED
    BY <1>3, <2>1, FS_Subset
<1>5. pairs = {f[n] : n \in slots} /\ \A n \in slots : f[n] = Pair(n)
  OBVIOUS
<1>6. \A n \in slots : /\ Pair(n) \in pairs /\ Pair(n)[2] = items[n]
                       /\ Pair(n)[1] \in [1 .. 2 -> Int] /\ Pair(n)[1][2] = n
  BY <1>1
<1>7. \A p \in pairs : \E n \in slots : p = Pair(n)
  OBVIOUS
<1> HIDE DEF D, slots, Pair, f, pairs, new
<1>8. IsFiniteSet(pairs)
  BY <1>4, <1>5, ImageFinite
<1>9. \A p, r \in pairs : p[1] = r[1] => p = r
  <2> SUFFICES ASSUME NEW p \in pairs, NEW r \in pairs, p[1] = r[1]
               PROVE  p = r
    OBVIOUS
  <2>1. PICK m \in slots : p = Pair(m)
    BY <1>7
  <2>2. PICK n \in slots : r = Pair(n)
    BY <1>7
  <2>3. m = n
    BY <1>6, <2>1, <2>2
  <2> QED
    BY <2>1, <2>2, <2>3
<1>10. \A p \in pairs : p[1] \in [1 .. 2 -> Int]
  BY <1>6, <1>7
<1>11. /\ N \in Nat
       /\ \E at \in [1 .. N -> pairs] :
            /\ Sorted(pairs) = [n \in 1 .. N |-> at[n][2]]
            /\ \A m, n \in 1 .. N : m < n => Earlier(at[m][1], at[n][1])
            /\ \A p \in pairs : \E n \in 1 .. N : at[n] = p
  BY <1>8, <1>9, <1>10, SortedIs
<1>12. PICK at \in [1 .. N -> pairs] :
         /\ inOrder = [n \in 1 .. N |-> at[n][2]]
         /\ \A p \in pairs : \E n \in 1 .. N : at[n] = p
  BY <1>11
\* There are as many places in the order as there are slots.
<1>13. N = Cardinality(slots)
  <2>1. f \in [slots -> pairs]
    BY <1>5, <1>6 DEF f
  <2>2. \A p \in pairs : \E n \in slots : f[n] = p
    BY <1>5, <1>7
  <2>3. \A m, n \in slots : f[m] = f[n] => m = n
    BY <1>5, <1>6
  <2>4. f \in Bijection(slots, pairs)
    BY <2>1, <2>2, <2>3 DEF Bijection, Injection, IsInjective, Surjection
  <2>5. ExistsBijection(slots, pairs)
    BY <2>4 DEF ExistsBijection
  <2> QED
    BY <1>4, <2>5, FS_Bijection
<1> DEFINE R == {r \in Nat \X Nat : r[1] < r[2]}
           before == [n \in slots |-> Cardinality({m \in slots : <<m, n>> \in R})]
<1>14. \A m, n \in Nat : <<m, n>> \in R <=> m < n
  OBVIOUS
<1>15. \A n \in slots : before[n] = Cardinality({m \in slots : <<m, n>> \in R})
  OBVIOUS
<1> HIDE DEF R, before, N, inOrder
<1>16. /\ \A x, y \in slots : x # y => <<x, y>> \in R \/ <<y, x>> \in R
       /\ \A x \in slots : <<x, x>> \notin R
       /\ \A x, y, z \in slots : <<x, y>> \in R /\ <<y, z>> \in R => <<x, z>> \in R
  BY <1>3, <1>14
<1>17. /\ \A n \in slots : before[n] \in 0 .. (N - 1)
       /\ \A k \in 1 .. N : \E n \in slots : before[n] = k - 1
  <2>1. /\ \A x \in slots : before[x] \in 0 .. (Cardinality(slots) - 1)
        /\ \A k \in 1 .. Cardinality(slots) : \E x \in slots : before[x] = k - 1
    BY <1>4, <1>15, <1>16, Places
  <2> QED
    BY <1>13, <2>1
<1>18. ASSUME NEW n \in slots
       PROVE  Slot(n) = before[n] + 1
  <2> DEFINE B == {m \in slots : <<m, n>> \in R}
  <2>1. {m \in slots : m <= n} = B \cup {n}
    <3>1. ASSUME NEW m \in slots
          PROVE  m <= n <=> <<m, n>> \in R \/ m = n
      BY <1>3, <1>14
    <3> QED
      BY <3>1
  <2>2. n \notin B
    BY <1>16
  <2>3. IsFiniteSet(B)
    <3>1. B \in SUBSET slots
      OBVIOUS
    <3> QED
      BY <1>4, <3>1, FS_Subset
  <2>4. before[n] = Cardinality(B)
    BY <1>15
  <2> HIDE DEF B
  <2>5. Cardinality(B \cup {n}) = Cardinality(B) + 1
    BY <2>2, <2>3, FS_AddElement
  <2> QED
    BY <2>1, <2>4, <2>5
<1> HIDE DEF Slot
<1>19. ASSUME NEW n \in slots
       PROVE  Slot(n) \in 1 .. N
  <2>1. N \in Nat /\ before[n] \in 0 .. (N - 1) /\ Slot(n) = before[n] + 1
    BY <1>11, <1>17, <1>18
  <2> QED
    BY <2>1
<1>20. ASSUME NEW k \in 1 .. N
       PROVE  \E n \in slots : inOrder[k] = items[n]
  <2>1. at[k] \in pairs /\ inOrder[k] = at[k][2]
    BY <1>12
  <2> QED
    BY <1>6, <1>7, <2>1
<1>21. ASSUME NEW n \in D
       PROVE  \E m \in D : new[n] = items[m]
  <2>1. CASE n \in slots
    BY <1>2, <1>3, <1>19, <1>20, <2>1
  <2>2. CASE n \notin slots
    BY <1>2, <2>2
  <2> QED
    BY <2>1, <2>2
<1>22. ASSUME NEW n \in D
       PROVE  \E m \in D : new[m] = items[n]
  <2>1. CASE n \in slots
    <3>1. PICK k \in 1 .. N : at[k] = Pair(n)
      BY <1>6, <1>12, <2>1
    <3>2. inOrder[k] = items[n]
      BY <1>6, <1>12, <2>1, <3>1
    <3>3. PICK m \in slots : before[m] = k - 1
      BY <1>17
    <3>4. Slot(m) = k
      BY <1>11, <1>18, <3>3
    <3> QED
      BY <1>2, <1>3, <3>2, <3>4
  <2>2. CASE n \notin slots
    BY <1>2, <2>2
  <2> QED
    BY <2>1, <2>2
<1>23. DOMAIN new = D /\ new \in [1 .. Len(items) -> rows]
  <2>1. DOMAIN new = D /\ new = [n \in D |-> new[n]]
    BY <1>2
  <2>2. \A n \in D : new[n] \in rows
    BY <1>1, <1>21
  <2>3. new \in [D -> rows]
    BY <2>1, <2>2
  <2> QED
    BY <1>1, <2>1, <2>3
<1>24. new \in Seq(rows)
  BY <1>1, <1>23
<1>25. Range(new) = Range(items)
  <2>1. ASSUME NEW x \in Range(new)
        PROVE  x \in Range(items)
    <3>1. PICK n \in D : x = new[n]
      BY <1>23 DEF Range
    <3>2. PICK m \in D : new[n] = items[m]
      BY <1>21
    <3> QED
      BY <3>1, <3>2 DEF Range, D
  <2>2. ASSUME NEW x \in Range(items)
        PROVE  x \in Range(new)
    <3>1. PICK n \in D : x = items[n]
      BY DEF Range, D
    <3>2. PICK m \in D : new[m] = items[n]
      BY <1>22
    <3> QED
      BY <1>23, <3>1, <3>2 DEF Range
  <2> QED
    BY <2>1, <2>2
<1> QED
  BY <1>24, <1>25 DEF new

-----------------------------------------------------------------------------
(* Blocks *)

\* A block of the prompt: canon and system text may not be cut, what may not be
\* cut is whole, and any other is a beginning of itself.
SoundBlock ==
    {b \in PromptBlock :
       /\ b.kind \in {"system", "entry"} => ~b.truncatable
       /\ ~b.truncatable => b.text = b.whole
       /\ Prefix(b.text, b.whole)}

\* A block as it was collected.
WholeBlock == {b \in SoundBlock : b.text = b.whole}

\* A text is a beginning of itself.
LEMMA PrefixSelf ==
  ASSUME NEW text \in Text
  PROVE  Prefix(text, text)
<1>1. Len(text) \in Nat
  BY LenProperties DEF Text
<1>2. text = SubSeq(text, 1, Len(text))
  BY SubSeqFull DEF Text
<1> QED
  BY <1>1, <1>2 DEF Prefix

\* A new block is whole, and sound if system text and canon may not be cut.
LEMMA BlockSound ==
  ASSUME NEW kind \in DOMAIN Layer, NEW priority \in Int, NEW text \in Text,
         NEW truncatable \in BOOLEAN, NEW at \in Nat,
         kind \in {"system", "entry"} => ~truncatable
  PROVE  Block(kind, priority, text, truncatable, at) \in WholeBlock
<1>1. Block(kind, priority, text, truncatable, at) \in PromptBlock
  BY DEF Block, PromptBlock
<1>2. Prefix(text, text)
  BY PrefixSelf
<1> QED
  BY <1>1, <1>2 DEF Block, SoundBlock, WholeBlock

\* The kinds of blocks and their layers.
LEMMA Kinds ==
  /\ DOMAIN Layer = {"system", "character", "persona", "world", "lore", "entry", "memory",
                     "chapter", "history", "user", "instruction"}
  /\ \A kind \in DOMAIN Layer : Layer[kind] \in Int
BY DEF Layer

\* The blocks the assembly makes.
LEMMA MadeBlocks ==
  ASSUME NEW priority \in Int, NEW text \in Text, NEW at \in Nat
  PROVE  /\ Block("system", priority, text, FALSE, 0) \in WholeBlock
         /\ Block("entry", priority, text, FALSE, at) \in WholeBlock
         /\ \A kind \in {"lore", "memory", "history", "user", "instruction"} :
              Block(kind, priority, text, TRUE, 0) \in WholeBlock
         /\ Block("chapter", priority, text, TRUE, at) \in WholeBlock
<1>1. TRUE \in BOOLEAN /\ FALSE \in BOOLEAN /\ 0 \in Nat
  OBVIOUS
<1>2. Block("system", priority, text, FALSE, 0) \in WholeBlock
  <2>1. "system" \in DOMAIN Layer
    BY Kinds
  <2> QED
    BY <1>1, <2>1, BlockSound, Zenon
<1>3. Block("entry", priority, text, FALSE, at) \in WholeBlock
  <2>1. "entry" \in DOMAIN Layer
    BY Kinds
  <2> QED
    BY <1>1, <2>1, BlockSound, Zenon
<1>4. ASSUME NEW kind \in {"lore", "memory", "history", "user", "instruction", "chapter"},
             NEW place \in Nat
      PROVE  Block(kind, priority, text, TRUE, place) \in WholeBlock
  <2>1. kind \in DOMAIN Layer /\ kind \notin {"system", "entry"}
    BY Kinds
  <2> QED
    BY <1>1, <2>1, BlockSound, Zenon
<1> QED
  BY <1>1, <1>2, <1>3, <1>4

\* Sorting keeps what the pairs hold.
LEMMA SortedType ==
  ASSUME NEW pairs, IsFiniteSet(pairs), NEW k \in Nat, NEW S,
         \A p \in pairs : p[1] \in [1 .. k -> Int] /\ p[2] \in S,
         \A p, q \in pairs : p[1] = q[1] => p = q
  PROVE  Sorted(pairs) \in Seq(S)
<1> DEFINE N == Cardinality(pairs)
           s == Sorted(pairs)
<1>1. /\ N \in Nat
      /\ \E at \in [1 .. N -> pairs] : s = [n \in 1 .. N |-> at[n][2]]
  <2>1. \A p \in pairs : p[1] \in [1 .. k -> Int]
    OBVIOUS
  <2> QED
    BY <2>1, SortedIs
<1> HIDE DEF N, s
<1>2. PICK at \in [1 .. N -> pairs] : s = [n \in 1 .. N |-> at[n][2]]
  BY <1>1
<1>3. s \in [1 .. N -> S]
  <2>1. \A n \in 1 .. N : at[n][2] \in S
    BY <1>2
  <2> QED
    BY <1>2, <2>1
<1>4. s \in Seq(S)
  BY <1>1, <1>3
<1> QED
  BY <1>4 DEF s

\* _order() keeps the blocks.
LEMMA OrderedType ==
  ASSUME NEW S \in SUBSET SoundBlock, NEW bs \in Seq(S)
  PROVE  Ordered(bs) \in Seq(S)
<1> DEFINE Pair(n) == <<Append(Position(bs[n]), n), bs[n]>>
           f == [n \in DOMAIN bs |-> Pair(n)]
           pairs == {Pair(n) : n \in DOMAIN bs}
<1>1. /\ Len(bs) \in Nat /\ DOMAIN bs = 1 .. Len(bs)
      /\ \A n \in DOMAIN bs : bs[n] \in S
  BY LenProperties, ElementOfSeq
<1>2. ASSUME NEW n \in DOMAIN bs
      PROVE  /\ Pair(n)[1] \in [1 .. 4 -> Int] /\ Pair(n)[1][4] = n /\ Pair(n)[2] \in S
  <2>1. bs[n].at \in Int /\ bs[n].priority \in Int /\ bs[n].kind \in DOMAIN Layer /\ n \in Int
    BY <1>1 DEF SoundBlock, PromptBlock
  <2>2. Layer[bs[n].kind] \in Int /\ Layer["chapter"] \in Int
    BY <2>1, Kinds
  <2>3. PICK i, j, k \in Int : Position(bs[n]) = <<i, j, k>>
    <3>1. CASE bs[n].at > 0
      BY <2>1, <2>2, <3>1 DEF Position
    <3>2. CASE ~(bs[n].at > 0)
      <4>1. Position(bs[n]) = <<Layer[bs[n].kind], 0, -bs[n].priority>>
        BY <3>2 DEF Position
      <4>2. -bs[n].priority \in Int /\ 0 \in Int
        BY <2>1
      <4> QED
        BY <2>2, <4>1, <4>2
    <3> QED
      BY <3>1, <3>2
  <2>4. <<i, j, k>> \in Seq(Int) /\ Len(<<i, j, k>>) = 3
    OBVIOUS
  <2> DEFINE key == Append(<<i, j, k>>, n)
  <2>5. key \in Seq(Int) /\ Len(key) = 4 /\ key[4] = n
    BY <2>1, <2>4, AppendProperties
  <2>6. key \in [1 .. 4 -> Int]
    BY <2>5, LenProperties
  <2>7. Pair(n)[1] = key /\ Pair(n)[2] = bs[n]
    BY <2>3
  <2> HIDE DEF key
  <2> QED
    BY <1>1, <2>5, <2>6, <2>7
<1>3. pairs = {f[n] : n \in DOMAIN bs} /\ \A p \in pairs : \E n \in DOMAIN bs : p = Pair(n)
  OBVIOUS
<1>4. Ordered(bs) = Sorted(pairs)
  BY DEF Ordered
<1> HIDE DEF Pair, f, pairs
<1>5. IsFiniteSet(pairs)
  <2>1. IsFiniteSet(DOMAIN bs)
    BY <1>1, IntervalFinite
  <2> QED
    BY <1>3, <2>1, ImageFinite
<1>6. ASSUME NEW p \in pairs
      PROVE  p[1] \in [1 .. 4 -> Int] /\ p[2] \in S
  BY <1>2, <1>3
<1>7. ASSUME NEW p \in pairs, NEW q \in pairs, p[1] = q[1]
      PROVE  p = q
  <2>1. PICK m \in DOMAIN bs : p = Pair(m)
    BY <1>3
  <2>2. PICK n \in DOMAIN bs : q = Pair(n)
    BY <1>3
  <2>3. m = n
    BY <1>2, <1>7, <2>1, <2>2
  <2> QED
    BY <2>1, <2>2, <2>3
<1> QED
  BY <1>4, <1>5, <1>6, <1>7, SortedType

\* A sequence made place by place from another is a sequence.
LEMMA MapType ==
  ASSUME NEW S, NEW s \in Seq(S), NEW T, NEW t, t = [n \in DOMAIN s |-> t[n]],
         \A n \in DOMAIN s : t[n] \in T
  PROVE  t \in Seq(T)
<1>1. Len(s) \in Nat /\ DOMAIN s = 1 .. Len(s)
  BY LenProperties
<1>2. t \in [1 .. Len(s) -> T]
  BY <1>1
<1> QED
  BY <1>1, <1>2

\* The cards are whole blocks.
LEMMA CardsType ==
  ASSUME sources \in Source
  PROVE  sources.cards \in Seq(WholeBlock)
<1> DEFINE Cards == {b \in PromptBlock : /\ b.kind \in {"character", "persona", "world"}
                                        /\ b.text = b.whole}
<1>1. sources.cards \in Seq(Cards)
  BY DEF Source
<1>2. ASSUME NEW b \in Cards
      PROVE  b \in WholeBlock
  <2>1. b \in PromptBlock /\ b.text \in Text /\ b.text = b.whole
    BY DEF PromptBlock
  <2>2. b.kind \notin {"system", "entry"}
    OBVIOUS
  <2>3. Prefix(b.text, b.whole)
    BY <2>1, PrefixSelf
  <2> QED
    BY <2>1, <2>2, <2>3 DEF SoundBlock, WholeBlock
<1> HIDE DEF Cards
<1>3. Cards \subseteq WholeBlock
  BY <1>2
<1> QED
  BY <1>1, <1>3, SeqMonotonic

\* Lore that matches gives whole blocks.
LEMMA LoreBlocksType ==
  ASSUME sources \in Source
  PROVE  LoreBlocks \in Seq(WholeBlock)
<1> DEFINE lore == sources.lore
           Lore == [keywords : SUBSET Text, priority : Int, text : Text]
           said == sources.user \o <<"_">> \o Instruction
           Occurs(word) == \E n \in 1 .. (Len(said) - Len(word) + 1) :
                             SubSeq(said, n, n + Len(word) - 1) = word
           matching == {n \in DOMAIN lore : \E w \in lore[n].keywords : Occurs(w)}
           Pair(n) == <<<<n>>, lore[n]>>
           f == [n \in matching |-> Pair(n)]
           pairs == {Pair(n) : n \in matching}
           matched == Sorted(pairs)
<1>1. LoreBlocks = [n \in DOMAIN matched |->
                      Block("lore", matched[n].priority, matched[n].text, TRUE, 0)]
  BY DEF LoreBlocks
<1>2. lore \in Seq(Lore)
  BY DEF Source
<1>3. Len(lore) \in Nat /\ DOMAIN lore = 1 .. Len(lore) /\ \A n \in DOMAIN lore : lore[n] \in Lore
  <2> HIDE DEF lore, Lore
  <2> QED
    BY <1>2, LenProperties, ElementOfSeq
<1>4. matching \in SUBSET DOMAIN lore
  OBVIOUS
<1>5. pairs = {f[n] : n \in matching} /\ \A p \in pairs : \E n \in matching : p = Pair(n)
  OBVIOUS
<1> HIDE DEF matching, f
<1>6. IsFiniteSet(pairs)
  <2>1. IsFiniteSet(DOMAIN lore)
    BY <1>3, IntervalFinite
  <2>2. IsFiniteSet(matching)
    BY <1>4, <2>1, FS_Subset
  <2> HIDE DEF pairs
  <2> QED
    BY <1>5, <2>2, ImageFinite
<1>7. ASSUME NEW p \in pairs
      PROVE  p[1] \in [1 .. 1 -> Int] /\ p[2] \in Lore
  <2>1. PICK n \in matching : p = Pair(n)
    BY <1>5
  <2>2. n \in Int /\ lore[n] \in Lore
    BY <1>3, <1>4
  <2> HIDE DEF Lore, lore, pairs
  <2> QED
    BY <2>1, <2>2
<1>8. ASSUME NEW p \in pairs, NEW q \in pairs, p[1] = q[1]
      PROVE  p = q
  <2>1. PICK m \in matching : p = Pair(m)
    BY <1>5
  <2>2. PICK n \in matching : q = Pair(n)
    BY <1>5
  <2>3. p[1][1] = m /\ q[1][1] = n
    BY <2>1, <2>2
  <2> QED
    BY <1>8, <2>1, <2>2, <2>3
<1> HIDE DEF pairs, Lore
<1>9. matched \in Seq(Lore)
  BY <1>6, <1>7, <1>8, SortedType
<1> HIDE DEF matched
<1>10. ASSUME NEW n \in DOMAIN matched
       PROVE  Block("lore", matched[n].priority, matched[n].text, TRUE, 0) \in WholeBlock
  <2>1. matched[n] \in Lore
    BY <1>9, LenProperties, ElementOfSeq
  <2>2. matched[n].priority \in Int /\ matched[n].text \in Text
    BY <2>1 DEF Lore
  <2> QED
    BY <2>2, MadeBlocks
<1>11. LoreBlocks = [n \in DOMAIN matched |-> LoreBlocks[n]]
       /\ \A n \in DOMAIN matched : LoreBlocks[n] \in WholeBlock
  BY <1>1, <1>10
<1> QED
  BY <1>9, <1>11, MapType

\* The memories that are chosen give whole blocks.
LEMMA MemoryBlocksType ==
  ASSUME sources \in Source, IsFiniteSet(request.terms)
  PROVE  MemoryBlocks \in Seq(WholeBlock)
<1> DEFINE memories == sources.memories
           Memory == [words : SUBSET STRING, recency : Int, weight : Int, text : Text]
           Pair(n) == <<<<-Worth(n), -Overlap(n), n>>, memories[n]>>
           f == [n \in FoundMemories |-> Pair(n)]
           sizes == [p \in RankedMemories |-> Count(p[2].text)]
           UpTo(p) == {q \in RankedMemories : ~Earlier(p[1], q[1])}
           fitting == {p \in RankedMemories : Total(sizes, UpTo(p)) <= MemoryHint}
           chosen == Sorted(fitting)
<1>1. MemoryBlocks = [n \in DOMAIN chosen |-> Block("memory", 60, chosen[n].text, TRUE, 0)]
  BY DEF MemoryBlocks
<1>2. memories \in Seq(Memory)
  BY DEF Source
<1>3. /\ Len(memories) \in Nat /\ DOMAIN memories = 1 .. Len(memories)
      /\ \A n \in DOMAIN memories : memories[n] \in Memory
  <2> HIDE DEF memories, Memory
  <2> QED
    BY <1>2, LenProperties, ElementOfSeq
<1>4. FoundMemories \in SUBSET DOMAIN memories
  BY DEF FoundMemories
<1>5. RankedMemories = {f[n] : n \in FoundMemories}
      /\ \A p \in RankedMemories : \E n \in FoundMemories : p = Pair(n)
  BY DEF RankedMemories
<1>6. fitting \in SUBSET RankedMemories
  OBVIOUS
<1> HIDE DEF f, fitting
<1>7. IsFiniteSet(fitting)
  <2>1. IsFiniteSet(DOMAIN memories)
    BY <1>3, IntervalFinite
  <2>2. IsFiniteSet(FoundMemories)
    BY <1>4, <2>1, FS_Subset
  <2>3. IsFiniteSet(RankedMemories)
    BY <1>5, <2>2, ImageFinite
  <2> QED
    BY <1>6, <2>3, FS_Subset
<1>8. ASSUME NEW n \in FoundMemories
      PROVE  Worth(n) \in Int /\ Overlap(n) \in Int /\ n \in Int /\ memories[n] \in Memory
  <2>1. n \in Int /\ memories[n] \in Memory
    BY <1>3, <1>4
  <2>2. Overlap(n) \in Nat
    <3>1. Cardinality(memories[n].words \cap request.terms) \in Nat
      BY FS_Intersection, FS_CardinalityType
    <3> QED
      BY <3>1 DEF Overlap
  <2>3. memories[n].recency \in Int /\ memories[n].weight \in Int
    BY <2>1
  <2>4. request.terms # {} => Cardinality(request.terms) \in Nat \ {0}
    BY FS_CardinalityType, FS_EmptySet
  <2>5. Worth(n) \in Int
    <3>1. CASE request.terms = {}
      BY <2>3, <3>1 DEF Worth
    <3>2. CASE request.terms # {}
      <4>1. (400 * Overlap(n)) \div Cardinality(request.terms) \in Int
        BY <2>2, <2>4, <3>2
      <4> QED
        BY <2>3, <3>2, <4>1 DEF Worth
    <3> QED
      BY <3>1, <3>2
  <2> QED
    BY <2>1, <2>2, <2>5
<1>9. ASSUME NEW p \in fitting
      PROVE  p[1] \in [1 .. 3 -> Int] /\ p[2] \in Memory
  <2>1. PICK n \in FoundMemories : p = Pair(n)
    BY <1>5, <1>6
  <2>2. -Worth(n) \in Int /\ -Overlap(n) \in Int /\ n \in Int /\ memories[n] \in Memory
    BY <1>8
  <2>3. p[1] = <<-Worth(n), -Overlap(n), n>> /\ p[2] = memories[n]
    BY <2>1
  <2>4. \A i, j, k \in Int : <<i, j, k>> \in [1 .. 3 -> Int]
    OBVIOUS
  <2> HIDE DEF Memory, memories
  <2> QED
    BY <2>2, <2>3, <2>4
<1>10. ASSUME NEW p \in fitting, NEW q \in fitting, p[1] = q[1]
      PROVE  p = q
  <2>1. PICK m \in FoundMemories : p = Pair(m)
    BY <1>5, <1>6
  <2>2. PICK n \in FoundMemories : q = Pair(n)
    BY <1>5, <1>6
  <2>3. p[1][3] = m /\ q[1][3] = n
    BY <2>1, <2>2
  <2> QED
    BY <1>10, <2>1, <2>2, <2>3
<1> HIDE DEF Memory
<1>11. chosen \in Seq(Memory)
  BY <1>7, <1>9, <1>10, SortedType
<1> HIDE DEF chosen
<1>12. ASSUME NEW n \in DOMAIN chosen
       PROVE  Block("memory", 60, chosen[n].text, TRUE, 0) \in WholeBlock
  <2>1. chosen[n] \in Memory
    BY <1>11, LenProperties, ElementOfSeq
  <2>2. chosen[n].text \in Text
    BY <2>1 DEF Memory
  <2>3. 60 \in Int /\ 0 \in Nat
    OBVIOUS
  <2> QED
    BY <2>2, <2>3, MadeBlocks, Zenon
<1>13. MemoryBlocks = [n \in DOMAIN chosen |-> MemoryBlocks[n]]
       /\ \A n \in DOMAIN chosen : MemoryBlocks[n] \in WholeBlock
  BY <1>1, <1>12
<1> QED
  BY <1>11, <1>13, MapType

\* The summaries of prior chapters give whole blocks.
LEMMA ChapterBlocksType ==
  ASSUME sources \in Source
  PROVE  ChapterBlocks \in Seq(WholeBlock)
<1> DEFINE summaries == sources.summaries
           Summary == [at : Nat, text : Text]
<1>1. ChapterBlocks = [n \in DOMAIN summaries |->
                         Block("chapter", 75, summaries[n].text, TRUE, summaries[n].at)]
  BY DEF ChapterBlocks
<1>2. summaries \in Seq(Summary)
  BY DEF Source
<1> HIDE DEF summaries, Summary
<1>3. ASSUME NEW n \in DOMAIN summaries
      PROVE  Block("chapter", 75, summaries[n].text, TRUE, summaries[n].at) \in WholeBlock
  <2>1. summaries[n] \in Summary
    BY <1>2, LenProperties, ElementOfSeq
  <2>2. summaries[n].text \in Text /\ summaries[n].at \in Nat
    BY <2>1 DEF Summary
  <2>3. 75 \in Int
    OBVIOUS
  <2> QED
    BY <2>2, <2>3, MadeBlocks, Zenon
<1>4. ChapterBlocks = [n \in DOMAIN summaries |-> ChapterBlocks[n]]
      /\ \A n \in DOMAIN summaries : ChapterBlocks[n] \in WholeBlock
  BY <1>1, <1>3
<1> QED
  BY <1>2, <1>4, MapType

\* The last messages give whole blocks.
LEMMA HistoryBlocksType ==
  ASSUME sources \in Source
  PROVE  HistoryBlocks \in Seq(WholeBlock)
<1> DEFINE first == Larger(1, Len(sources.messages) - ShortWindow + 1)
           last == SubSeq(sources.messages, first, Len(sources.messages))
<1>1. HistoryBlocks = [n \in DOMAIN last |-> Block("history", 29 + n, last[n], TRUE, 0)]
  BY DEF HistoryBlocks
<1>2. sources.messages \in Seq(Text) /\ Len(sources.messages) \in Nat
  BY LenProperties DEF Source
<1>3. last \in Seq(Text)
  <2>1. first \in Nat /\ first >= 1
    <3>1. ShortWindow \in Nat
      BY PromptAssumption
    <3> QED
      BY <1>2, <3>1 DEF Larger
  <2> HIDE DEF first
  <2>2. \A n \in first .. Len(sources.messages) : sources.messages[n] \in Text
    BY <1>2, <2>1, ElementOfSeq
  <2> QED
    BY <1>2, <2>1, <2>2, SubSeqProperties
<1> HIDE DEF last
<1>4. ASSUME NEW n \in DOMAIN last
      PROVE  Block("history", 29 + n, last[n], TRUE, 0) \in WholeBlock
  <2>1. last[n] \in Text /\ 29 + n \in Int
    BY <1>3, LenProperties, ElementOfSeq
  <2> QED
    BY <2>1, MadeBlocks
<1>5. HistoryBlocks = [n \in DOMAIN last |-> HistoryBlocks[n]]
      /\ \A n \in DOMAIN last : HistoryBlocks[n] \in WholeBlock
  BY <1>1, <1>4
<1> QED
  BY <1>3, <1>5, MapType

\* Rendered entries give whole blocks, which may not be cut.
LEMMA EntryBlocksType ==
  ASSUME NEW entries \in Seq(Candidate)
  PROVE  [n \in DOMAIN entries |-> EntryBlock(entries[n])] \in Seq(WholeBlock)
<1> DEFINE new == [n \in DOMAIN entries |-> EntryBlock(entries[n])]
<1>1. ASSUME NEW n \in DOMAIN entries
      PROVE  EntryBlock(entries[n]) \in WholeBlock
  <2>1. entries[n] \in Candidate
    BY LenProperties, ElementOfSeq
  <2>2. Rendered(entries[n]) \in Text /\ entries[n].at \in Nat
    BY <2>1, RenderedType DEF Candidate
  <2>3. 65 \in Int
    OBVIOUS
  <2>4. Block("entry", 65, Rendered(entries[n]), FALSE, entries[n].at) \in WholeBlock
    BY <2>2, <2>3, MadeBlocks, Zenon
  <2> QED
    BY <2>4 DEF EntryBlock
<1>2. new = [n \in DOMAIN entries |-> new[n]] /\ \A n \in DOMAIN entries : new[n] \in WholeBlock
  BY <1>1
<1> HIDE DEF new
<1>3. new \in Seq(WholeBlock)
  BY <1>2, MapType
<1> QED
  BY <1>3 DEF new

\* The instruction and its scene are a text.
LEMMA InstructionType ==
  ASSUME sources \in Source
  PROVE  Instruction \in Text
<1>1. sources.direction \in Text /\ sources.scene \in Text
  BY DEF Source
<1>2. <<>> \in Text
  BY EmptySeq DEF Text
<1>3. <<"_">> \o sources.scene \in Text
  BY <1>1, SpaceType, ConcatProperties DEF Text
<1> DEFINE more == IF sources.scene = <<>> THEN <<>> ELSE <<"_">> \o sources.scene
<1>4. more \in Text
  BY <1>2, <1>3
<1>5. Instruction = sources.direction \o more
  BY DEF Instruction
<1> HIDE DEF more
<1> QED
  BY <1>1, <1>4, <1>5, ConcatProperties DEF Text

\* Every block assemble() collects is sound.
LEMMA CollectedType ==
  ASSUME sources \in Source, IsFiniteSet(request.terms), NEW entries \in Seq(Candidate)
  PROVE  Collected(entries) \in Seq(WholeBlock)
<1> DEFINE B == Seq(WholeBlock)
           system == <<Block("system", 100, Body, FALSE, 0)>>
           rendered == [n \in DOMAIN entries |-> EntryBlock(entries[n])]
           user == IF sources.user = <<>> THEN <<>>
                   ELSE <<Block("user", 1000, sources.user, TRUE, 0)>>
           instruction == IF Instruction = <<>> THEN <<>>
                          ELSE <<Block("instruction", 1000, Instruction, TRUE, 0)>>
<1>1. /\ \A s, t \in B : s \o t \in B
      /\ <<>> \in B
      /\ \A b \in WholeBlock : <<b>> \in B
  <2>1. ASSUME NEW S, NEW b \in S
        PROVE  <<b>> \in Seq(S)
    OBVIOUS
  <2> QED
    BY <2>1, ConcatProperties, EmptySeq
<1>2. system \in B
  <2>1. Block("system", 100, Body, FALSE, 0) \in WholeBlock
    <3>1. Body \in Text /\ 100 \in Int /\ 0 \in Nat
      BY BodyType
    <3> QED
      BY <3>1, MadeBlocks, Zenon
  <2> QED
    BY <1>1, <2>1
<1>3. rendered \in B
  BY EntryBlocksType
<1>4. user \in B
  <2>1. sources.user \in Text /\ 0 \in Nat
    BY DEF Source
  <2> DEFINE b == Block("user", 1000, sources.user, TRUE, 0)
  <2>2. b \in WholeBlock
    <3>1. PICK p \in Int : p = 1000
      OBVIOUS
    <3>2. Block("user", p, sources.user, TRUE, 0) \in WholeBlock
      BY <2>1, MadeBlocks, Zenon
    <3> QED
      BY <3>1, <3>2, ZenonT(30)
  <2> HIDE DEF b
  <2>3. <<b>> \in B
    BY <1>1, <2>2
  <2> USE DEF b
  <2>4. CASE sources.user = <<>>
    BY <1>1, <2>4
  <2>5. CASE sources.user # <<>>
    BY <2>3, <2>5
  <2> QED
    BY <2>4, <2>5
<1>5. instruction \in B
  <2>1. Instruction \in Text /\ 0 \in Nat
    BY InstructionType
  <2> DEFINE b == Block("instruction", 1000, Instruction, TRUE, 0)
  <2>2. b \in WholeBlock
    <3>1. PICK p \in Int : p = 1000
      OBVIOUS
    <3>2. Block("instruction", p, Instruction, TRUE, 0) \in WholeBlock
      BY <2>1, MadeBlocks, Zenon
    <3> QED
      BY <3>1, <3>2, ZenonT(30)
  <2> HIDE DEF b
  <2>3. <<b>> \in B
    BY <1>1, <2>2
  <2> USE DEF b
  <2>4. CASE Instruction = <<>>
    BY <1>1, <2>4
  <2>5. CASE Instruction # <<>>
    BY <2>3, <2>5
  <2> QED
    BY <2>4, <2>5
<1>6. /\ sources.cards \in B /\ LoreBlocks \in B /\ MemoryBlocks \in B
      /\ ChapterBlocks \in B /\ HistoryBlocks \in B
  BY CardsType, LoreBlocksType, MemoryBlocksType, ChapterBlocksType, HistoryBlocksType
<1>7. Collected(entries) = system \o sources.cards \o LoreBlocks \o rendered \o MemoryBlocks
                             \o ChapterBlocks \o HistoryBlocks \o user \o instruction
  BY DEF Collected
<1> HIDE DEF B, system, rendered, user, instruction
<1>8. system \o sources.cards \o LoreBlocks \o rendered \in B
  BY <1>1, <1>2, <1>3, <1>6
<1>9. system \o sources.cards \o LoreBlocks \o rendered \o MemoryBlocks
        \o ChapterBlocks \o HistoryBlocks \in B
  BY <1>1, <1>6, <1>8
<1>10. Collected(entries) \in B
  BY <1>1, <1>4, <1>5, <1>7, <1>9
<1> QED
  BY <1>10 DEF B

-----------------------------------------------------------------------------
(* The inductive invariant *)

Nothing == [items |-> <<>>, used |-> 0, budget |-> <<>>, limit |-> <<>>,
            context |-> <<>>, rendered |-> 0]

TypeOK ==
    /\ pc \in {"resolve", "rank", "select", "render", "order", "protect", "fit", "done", "failed"}
    /\ model \in [config : Configs, capability : Capabilities]
    /\ limits \in [window : Nat, tokens : Nat]
    /\ request \in Requests /\ sources \in Sources
    /\ candidates \in CandidateSets[sources.task]
    /\ queue \in Seq(candidates)
    /\ retrieved \in [items : Seq(candidates), used : Nat, budget : Seq(candidates),
                       limit : Seq(candidates), context : Seq(candidates), rendered : Nat]
    /\ blocks \in Seq(SoundBlock)
    /\ todo \subseteq DOMAIN blocks /\ kept \subseteq DOMAIN blocks
    /\ available \in Nat

\* The limits of the request are within those of the row and of the model.
Resolved ==
    pc # "resolve" =>
      /\ model.config.window > 0 => limits.window <= model.config.window
      /\ model.capability.window > 0 => limits.window <= model.capability.window
      /\ model.capability.output > 0 => limits.tokens <= model.capability.output

Weighed == Range(retrieved.items) \cup Range(retrieved.budget) \cup Range(retrieved.limit)

Before(d, e) == Earlier(SortKey(d, request, candidates), SortKey(e, request, candidates))

\* An extracted entry is selected only after any comparable one of the author.
AuthorFirst ==
    \A a \in candidates, b \in Range(retrieved.items) :
      ( /\ a.capture \in {"human-authored", "human-edited"}
        /\ b.capture = "ai-extracted"
        /\ Comparable(a, b)
        /\ Count(a.text) <= Count(b.text) )
      => a \in Range(retrieved.items)

Selected ==
    /\ pc \in {"resolve", "rank"} => retrieved = Nothing
    /\ pc \in {"select", "render", "order"} =>
         /\ Len(retrieved.items) <= request.limit
         /\ retrieved.used = TextTokens(retrieved.items) /\ retrieved.used <= EntryBudget
         /\ retrieved.limit # <<>> => Len(retrieved.items) = request.limit
         /\ \A e \in Range(retrieved.budget) : retrieved.used + Count(e.text) > EntryBudget
         /\ AuthorFirst

\* What is weighed ranks before what is not, and nothing is lost.
Weighing ==
    pc = "select" =>
      /\ \A m, n \in DOMAIN queue : m < n => Before(queue[m], queue[n])
      /\ candidates \subseteq Weighed \cup Range(queue)
      /\ \A d \in Weighed, e \in Range(queue) : Before(d, e)

RenderedTexts == [n \in DOMAIN retrieved.context |-> [text |-> Rendered(retrieved.context[n])]]

Placed ==
    /\ pc = "select" => retrieved.context = <<>> /\ retrieved.rendered = 0
    /\ pc \in {"render", "order"} =>
         /\ retrieved.rendered = TextTokens(RenderedTexts) /\ retrieved.rendered <= EntryBudget
         /\ \A e \in Range(retrieved.items) :
              \/ e \in Range(queue) \/ e \in Range(retrieved.context)
              \/ retrieved.rendered + Count(Rendered(e)) > EntryBudget
    /\ pc = "order" => queue = <<>>

Seen == (DOMAIN blocks \ ProtectedBlocks) \ todo

\* Only protected blocks are cut before the fit.  It looks at the others in one
\* order, and takes nothing more when
\* something was cut or left out for want of room.
Fitting ==
    /\ pc = "order" => blocks \in Seq(WholeBlock)
    /\ pc = "protect" =>
         \A n \in DOMAIN blocks \ ProtectedBlocks : blocks[n].text = blocks[n].whole
    /\ pc \notin {"fit", "done", "failed"} => todo = {} /\ kept = {}
    /\ pc \in {"fit", "done"} =>
         /\ todo \cap ProtectedBlocks = {} /\ todo \cap kept = {}
         /\ \A n \in todo : blocks[n].text = blocks[n].whole
         /\ \A n \in Seen, m \in todo : Later(m, n)
    /\ pc = "fit" =>
         /\ kept \cap ProtectedBlocks = {}
         /\ \A n \in Seen :
              blocks[n].truncatable /\ (n \notin kept \/ blocks[n].text # blocks[n].whole)
              => available = 0
    /\ pc = "done" => ProtectedBlocks \subseteq kept /\ Tokens(kept) <= Budget

IInv ==
    /\ TypeOK /\ Resolved /\ Selected /\ Weighing /\ Placed /\ Fitting
    /\ LowerPriorityGivesWay

\* What the constants and the types give.
LEMMA Given ==
  ASSUME TypeOK
  PROVE  /\ sources \in Source /\ candidates \in SUBSET Candidate
         /\ Rankable(candidates, request)
         /\ IsFiniteSet(request.terms) /\ request.limit \in Nat
         /\ model.config \in [window : Nat, tokens : Nat]
         /\ model.capability \in [window : Nat, output : Nat, safety : Nat]
         /\ EntryBudget \in Nat /\ Budget \in Int
<1>1. sources \in Source /\ sources.task \in Tasks
  BY PromptAssumption DEF TypeOK, Source
<1>2. candidates \in SUBSET Candidate /\ IsFiniteSet(candidates)
      /\ \A d, e \in candidates : d.id = e.id => d = e
  <2>1. CandidateSets[sources.task] \in SUBSET SUBSET Candidate
    BY <1>1, PromptAssumption
  <2>2. \A rows \in CandidateSets[sources.task] :
          IsFiniteSet(rows) /\ \A d, e \in rows : d.id = e.id => d = e
    BY <1>1, PromptAssumption
  <2> QED
    BY <2>1, <2>2 DEF TypeOK
<1>3. IsFiniteSet(request.terms) /\ IsFiniteSet(request.cast) /\ request.limit \in Nat
  <2>1. request \in Requests
    BY DEF TypeOK
  <2>2. request \in [limit : Nat, task : Tasks, terms : SUBSET STRING, cast : SUBSET STRING]
    BY <2>1, PromptAssumption
  <2>3. IsFiniteSet(request.terms) /\ IsFiniteSet(request.cast)
    BY <2>1, PromptAssumption
  <2> QED
    BY <2>2, <2>3
<1>4. Rankable(candidates, request)
  BY <1>2, <1>3 DEF Rankable
<1>5. /\ model.config \in [window : Nat, tokens : Nat]
      /\ model.capability \in [window : Nat, output : Nat, safety : Nat]
  BY PromptAssumption DEF TypeOK
<1>6. limits.window \in Nat /\ limits.tokens \in Nat
  BY DEF TypeOK
<1>7. EntryBudget \in Nat
  <2>1. MinEntryBudget \in Nat /\ EntryPercent \in Nat
    BY PromptAssumption
  <2>2. (limits.window * EntryPercent) \div 100 \in Nat
    BY <1>6, <2>1
  <2> QED
    BY <2>1, <2>2 DEF EntryBudget, Larger
<1>8. Budget \in Int
  <2>1. model.capability.safety \in Nat
    BY <1>5
  <2>2. limits.window * model.capability.safety \in Nat
    BY <1>6, <2>1
  <2>3. (limits.window * model.capability.safety + 99) \div 100 \in Nat
    BY <2>2
  <2> QED
    BY <1>6, <2>3 DEF Budget
<1> QED
  BY <1>1, <1>2, <1>3, <1>4, <1>5, <1>7, <1>8

\* The blocks of an assembly and their fields.
LEMMA BlockFields ==
  ASSUME TypeOK
  PROVE  /\ Len(blocks) \in Nat /\ DOMAIN blocks = 1 .. Len(blocks)
         /\ \A n \in DOMAIN blocks :
              /\ blocks[n] \in SoundBlock /\ blocks[n].text \in Text /\ blocks[n].whole \in Text
              /\ blocks[n].priority \in Int /\ Count(blocks[n].text) \in Nat
              /\ Prefix(blocks[n].text, blocks[n].whole)
<1>1. Len(blocks) \in Nat /\ DOMAIN blocks = 1 .. Len(blocks)
      /\ \A n \in DOMAIN blocks : blocks[n] \in SoundBlock
  BY LenProperties, ElementOfSeq DEF TypeOK
<1>2. ASSUME NEW b \in SoundBlock
      PROVE  /\ b.text \in Text /\ b.whole \in Text /\ b.priority \in Int
             /\ Count(b.text) \in Nat /\ Prefix(b.text, b.whole)
  <2>1. b.text \in Text /\ b.whole \in Text /\ b.priority \in Int /\ Prefix(b.text, b.whole)
    BY DEF SoundBlock, PromptBlock
  <2> QED
    BY <2>1, CountType
<1> QED
  BY <1>1, <1>2

\* The tokens of some of the blocks are a natural number.
LEMMA TokensType ==
  ASSUME TypeOK, NEW S \in SUBSET DOMAIN blocks
  PROVE  Tokens(S) \in Nat
<1> DEFINE counts == [n \in DOMAIN blocks |-> Count(blocks[n].text)]
<1>1. IsFiniteSet(S)
  <2>1. IsFiniteSet(DOMAIN blocks)
    BY BlockFields, IntervalFinite
  <2> QED
    BY <2>1, FS_Subset
<1>2. \A n \in S : counts[n] \in Nat
  BY BlockFields
<1>3. Tokens(S) = Total(counts, S)
  BY DEF Tokens
<1> HIDE DEF counts
<1> QED
  BY <1>1, <1>2, <1>3, TotalType

\* The tokens of a list, with one item more.
LEMMA TextTokensAppend ==
  ASSUME NEW S, \A i \in S : i.text \in Text, NEW items \in Seq(S), NEW e \in S
  PROVE  /\ TextTokens(items) \in Nat
         /\ TextTokens(Append(items, e)) = TextTokens(items) + Count(e.text)
<1> DEFINE new == Append(items, e)
           D == DOMAIN items
           N == Len(items) + 1
           c == [n \in DOMAIN items |-> Count(items[n].text)]
           d == [n \in DOMAIN new |-> Count(new[n].text)]
<1>1. Len(items) \in Nat /\ D = 1 .. Len(items) /\ \A n \in D : items[n] \in S
  BY LenProperties, ElementOfSeq
<1>2. /\ DOMAIN new = D \cup {N} /\ new[N] = e /\ N \notin D
      /\ \A n \in D : new[n] = items[n]
  <2>1. /\ new \in Seq(S) /\ Len(new) = N /\ new[N] = e
        /\ \A n \in 1 .. Len(items) : new[n] = items[n]
    BY AppendProperties
  <2>2. DOMAIN new = 1 .. N
    BY <2>1, LenProperties
  <2> HIDE DEF new
  <2> QED
    BY <1>1, <2>1, <2>2
<1>3. TextTokens(items) = Total(c, D) /\ TextTokens(new) = Total(d, DOMAIN new)
  BY DEF TextTokens
<1> HIDE DEF new
<1>4. \A n \in D : c[n] = d[n] /\ c[n] \in Nat /\ d[n] \in Nat
  <2>1. ASSUME NEW n \in D
        PROVE  c[n] = Count(items[n].text) /\ d[n] = Count(items[n].text)
    BY <1>2
  <2>2. ASSUME NEW n \in D
        PROVE  Count(items[n].text) \in Nat
    BY <1>1, CountType
  <2> QED
    BY <2>1, <2>2
<1>5. d[N] = Count(e.text) /\ d[N] \in Nat
  BY <1>2, CountType
<1> HIDE DEF c, d, N
<1>6. IsFiniteSet(D)
  BY <1>1, IntervalFinite
<1> HIDE DEF D
<1>7. Total(c, D) = Total(d, D) /\ Total(c, D) \in Nat
  BY <1>4, <1>6, TotalSame, TotalType
<1>8. Total(d, D \cup {N}) = Total(d, D) + d[N]
  <2>1. \A m \in D \cup {N} : d[m] \in Nat
    BY <1>4, <1>5
  <2> QED
    BY <1>2, <1>6, <2>1, TotalAdd
<1> QED
  BY <1>2, <1>3, <1>5, <1>7, <1>8 DEF new

\* Nothing is selected at first.
LEMMA NoTokens ==
  TextTokens(<<>>) = 0 /\ Range(<<>>) = {}
<1>1. DOMAIN <<>> = {}
  OBVIOUS
<1> QED
  BY <1>1, TotalEmpty DEF TextTokens, Range

-----------------------------------------------------------------------------
(* The steps of resolution and selection *)

\* The request as it was made.
LEMMA Initially == Init => IInv
<1> SUFFICES ASSUME Init
             PROVE  IInv
  OBVIOUS
<1>1. /\ pc = "resolve" /\ queue = <<>> /\ retrieved = Nothing /\ blocks = <<>>
      /\ todo = {} /\ kept = {} /\ available = 0
  BY DEF Init, Nothing
<1>2. TypeOK
  <2>1. /\ model \in [config : Configs, capability : Capabilities]
        /\ limits \in [window : Nat, tokens : Nat]
        /\ request \in Requests /\ sources \in Sources
        /\ candidates \in CandidateSets[sources.task]
    BY DEF Init
  <2>2. <<>> \in Seq(candidates) /\ <<>> \in Seq(SoundBlock)
    BY EmptySeq
  <2>3. retrieved \in [items : Seq(candidates), used : Nat, budget : Seq(candidates),
                        limit : Seq(candidates), context : Seq(candidates), rendered : Nat]
    BY <1>1, <2>2 DEF Nothing
  <2> QED
    BY <1>1, <2>1, <2>2, <2>3 DEF TypeOK
<1>3. Resolved /\ Selected /\ Weighing /\ Placed /\ LowerPriorityGivesWay
  BY <1>1 DEF Resolved, Selected, Weighing, Placed, LowerPriorityGivesWay
<1>4. Fitting
  BY <1>1 DEF Fitting
<1> QED
  BY <1>2, <1>3, <1>4 DEF IInv

\* A step that leaves the blocks and the fit alone.
LEMMA FitUnchanged ==
  ASSUME Fitting, LowerPriorityGivesWay, UNCHANGED <<blocks, todo, kept, available>>,
         pc \notin {"fit", "done", "failed"}, pc' \notin {"order", "protect", "fit", "done"}
  PROVE  Fitting' /\ LowerPriorityGivesWay'
BY DEF Fitting, LowerPriorityGivesWay

\* Clamping keeps the limits within what row and model allow.
LEMMA ResolveKeeps == IInv /\ Resolve => IInv'
<1> SUFFICES ASSUME IInv, Resolve
             PROVE  IInv'
  OBVIOUS
<1> USE DEF IInv
<1> DEFINE asked == IF model.config.window = 0 THEN model.capability.window
                    ELSE model.config.window
           window == Clamped(asked, model.capability.window)
           tokens == Clamped(model.config.tokens, model.capability.output)
           most == WordsToTokens(sources.target)
           given2 == IF request.task = "chat" THEN tokens ELSE Smaller(tokens, most)
<1>1. /\ pc = "resolve" /\ pc' \in {"failed", "rank"}
      /\ limits' = [window |-> window, tokens |-> given2]
      /\ UNCHANGED <<model, request, sources, candidates, queue, retrieved, blocks, todo, kept,
                     available>>
  BY DEF Resolve
<1>2. /\ model.config.window \in Nat /\ model.config.tokens \in Nat
      /\ model.capability.window \in Nat /\ model.capability.output \in Nat
  BY Given
<1>3. most \in Nat
  <2>1. sources.target \in Nat /\ MinCompletion \in Nat
    BY Given, PromptAssumption DEF Source
  <2>2. (sources.target * 16) \div 10 \in Nat
    BY <2>1
  <2> QED
    BY <2>1, <2>2 DEF WordsToTokens, Larger
<1> HIDE DEF most
<1>4. /\ window \in Nat
      /\ model.config.window > 0 => window <= model.config.window
      /\ model.capability.window > 0 => window <= model.capability.window
  BY <1>2 DEF Clamped, Smaller
<1>5. tokens \in Nat /\ (model.capability.output > 0 => tokens <= model.capability.output)
  BY <1>2 DEF Clamped, Smaller
<1> HIDE DEF window, tokens
<1>6. given2 \in Nat /\ given2 <= tokens
  BY <1>3, <1>5 DEF Smaller
<1> HIDE DEF given2
<1>7. limits'.window = window /\ limits'.tokens = given2 /\ limits' \in [window : Nat, tokens : Nat]
  BY <1>1, <1>4, <1>6
<1>8. TypeOK'
  BY <1>1, <1>7 DEF TypeOK
<1>9. Resolved'
  BY <1>1, <1>2, <1>4, <1>5, <1>6, <1>7 DEF Resolved
<1>10. Selected' /\ Weighing' /\ Placed'
  BY <1>1 DEF Selected, Weighing, Placed
<1>11. Fitting' /\ LowerPriorityGivesWay'
  BY <1>1, FitUnchanged
<1> QED
  BY <1>8, <1>9, <1>10, <1>11

\* All candidates are in the queue, best first.
LEMMA RankCandidatesKeeps == IInv /\ RankCandidates => IInv'
<1> SUFFICES ASSUME IInv, RankCandidates
             PROVE  IInv'
  OBVIOUS
<1> USE DEF IInv
<1>1. /\ pc = "rank" /\ pc' = "select" /\ queue' = Rank(candidates, request)
      /\ UNCHANGED <<model, limits, request, sources, candidates, retrieved, blocks, todo, kept,
                     available>>
  BY DEF RankCandidates, given
<1>2. /\ queue' \in Seq(candidates) /\ Range(queue') = candidates
      /\ \A m, n \in DOMAIN queue' : m < n => Before(queue'[m], queue'[n])
  BY <1>1, Given, RankIs DEF Before
<1>3. retrieved = Nothing
  BY <1>1 DEF Selected
<1>4. TypeOK'
  BY <1>1, <1>2 DEF TypeOK
<1>5. Resolved'
  BY <1>1 DEF Resolved
<1>6. Selected'
  <2>1. request.limit \in Nat /\ EntryBudget \in Nat /\ EntryBudget' = EntryBudget
    BY <1>1, Given DEF EntryBudget
  <2>2. retrieved'.items = <<>> /\ retrieved'.used = 0 /\ retrieved'.budget = <<>> /\ retrieved'.limit = <<>>
    BY <1>1, <1>3 DEF Nothing
  <2>3. AuthorFirst'
    BY <2>2, NoTokens DEF AuthorFirst
  <2> QED
    BY <1>1, <2>1, <2>2, <2>3, NoTokens DEF Selected
<1>7. Weighing'
  <2>1. Weighed' = {}
    BY <1>1, <1>3, NoTokens DEF Weighed, Nothing
  <2>2. \A d, e : Before(d, e)' <=> Before(d, e)
    BY <1>1 DEF Before
  <2> QED
    BY <1>1, <1>2, <2>1, <2>2 DEF Weighing, Before
<1>8. Placed'
  BY <1>1, <1>3 DEF Placed, Nothing
<1>9. Fitting' /\ LowerPriorityGivesWay'
  BY <1>1, FitUnchanged
<1> QED
  BY <1>4, <1>5, <1>6, <1>7, <1>8, <1>9

\* A queue is its head and the rest, one place on.
LEMMA TailRange ==
  ASSUME NEW S, NEW q \in Seq(S), q # <<>>
  PROVE  /\ Head(q) \in S /\ Tail(q) \in Seq(S) /\ Range(q) = {Head(q)} \cup Range(Tail(q))
         /\ \A n \in DOMAIN Tail(q) : Tail(q)[n] = q[n + 1] /\ n + 1 \in DOMAIN q /\ n \in Nat
         /\ 1 \in DOMAIN q /\ Head(q) = q[1]
         /\ \A n \in DOMAIN q : n \in Nat
<1> DEFINE t == Tail(q)
<1>1. /\ Head(q) \in S /\ t \in Seq(S) /\ Len(t) = Len(q) - 1
      /\ \A n \in 1 .. Len(t) : t[n] = q[n + 1]
  BY HeadTailProperties
<1>2. Len(q) \in Nat /\ Len(q) > 0 /\ DOMAIN q = 1 .. Len(q)
  <2>1. Len(q) \in Nat \ {0}
    BY EmptySeq
  <2>2. DOMAIN q = 1 .. Len(q)
    BY LenProperties
  <2> QED
    BY <2>1, <2>2
<1>3. DOMAIN t = 1 .. Len(t)
  BY <1>1, LenProperties
<1>4. Head(q) = q[1]
  OBVIOUS
<1> HIDE DEF t
<1>5. /\ \A n \in DOMAIN t : t[n] = q[n + 1] /\ n + 1 \in DOMAIN q /\ n \in Nat
      /\ 1 \in DOMAIN q /\ \A n \in DOMAIN q : n \in Nat
  BY <1>1, <1>2, <1>3
<1>6. Range(q) = {Head(q)} \cup Range(t)
  <2>1. ASSUME NEW n \in DOMAIN q
        PROVE  q[n] = Head(q) \/ \E m \in DOMAIN t : t[m] = q[n]
    <3>1. CASE n = 1
      BY <1>4, <3>1
    <3>2. CASE n # 1
      <4>1. n - 1 \in 1 .. Len(t) /\ n - 1 + 1 = n
        BY <1>1, <1>2, <3>2
      <4> QED
        BY <1>1, <1>3, <4>1
    <3> QED
      BY <3>1, <3>2
  <2> QED
    BY <1>4, <1>5, <2>1 DEF Range
<1> QED
  BY <1>1, <1>4, <1>5, <1>6 DEF t

\* Appending adds one element behind all others.
LEMMA AppendRange ==
  ASSUME NEW S, NEW q \in Seq(S), NEW e \in S
  PROVE  /\ Append(q, e) \in Seq(S) /\ Range(Append(q, e)) = Range(q) \cup {e}
         /\ Len(Append(q, e)) = Len(q) + 1 /\ Append(q, e) # <<>>
<1> DEFINE t == Append(q, e)
<1>1. /\ t \in Seq(S) /\ t # <<>> /\ Len(t) = Len(q) + 1 /\ t[Len(q) + 1] = e
      /\ \A n \in 1 .. Len(q) : t[n] = q[n]
  BY AppendProperties
<1>2. Len(q) \in Nat /\ DOMAIN q = 1 .. Len(q) /\ DOMAIN t = 1 .. Len(t)
  BY <1>1, LenProperties
<1> HIDE DEF t
<1>3. Len(q) + 1 \in DOMAIN t /\ DOMAIN q \subseteq DOMAIN t
  BY <1>1, <1>2
<1>4. \A n \in DOMAIN t : n \in DOMAIN q \/ n = Len(q) + 1
  BY <1>1, <1>2
<1>5. Range(t) = Range(q) \cup {e}
  <2>1. ASSUME NEW x \in Range(t)
        PROVE  x \in Range(q) \cup {e}
    <3>1. PICK n \in DOMAIN t : x = t[n]
      BY DEF Range
    <3> QED
      BY <1>1, <1>2, <1>4, <3>1 DEF Range
  <2>2. ASSUME NEW x \in Range(q)
        PROVE  x \in Range(t)
    <3>1. PICK n \in DOMAIN q : x = q[n]
      BY DEF Range
    <3> QED
      BY <1>1, <1>2, <1>3, <3>1 DEF Range
  <2>3. e \in Range(t)
    BY <1>1, <1>3 DEF Range
  <2> QED
    BY <2>1, <2>2, <2>3
<1> QED
  BY <1>1, <1>5 DEF t

\* The order of the candidates is strict.
LEMMA BeforeOrder ==
  ASSUME TypeOK, NEW d \in candidates, NEW e \in candidates, Before(d, e)
  PROVE  ~Before(e, d)
<1>1. SortKey(d, request, candidates) \in [1 .. 5 -> Int]
      /\ SortKey(e, request, candidates) \in [1 .. 5 -> Int]
  BY Given, SortKeyType
<1> QED
  BY <1>1, EarlierOrder DEF Before

\* An entry of the author ranks before a comparable extracted one.
LEMMA AuthorBefore ==
  ASSUME TypeOK, NEW a \in candidates, NEW b \in candidates,
         a.capture \in {"human-authored", "human-edited"}, b.capture = "ai-extracted",
         Comparable(a, b)
  PROVE  Before(a, b)
<1> DEFINE p == SortKey(a, request, candidates)
           q == SortKey(b, request, candidates)
<1>1. Score(b, request, candidates) < Score(a, request, candidates)
  BY Given, AuthorScoresMore
<1>2. Score(a, request, candidates) \in Int /\ Score(b, request, candidates) \in Int
  BY Given, ScoreType
<1>3. p[1] = -Score(a, request, candidates) /\ q[1] = -Score(b, request, candidates)
      /\ 1 \in DOMAIN p
  BY DEF SortKey
<1> HIDE DEF p, q
<1>4. p[1] < q[1] /\ \A m \in 1 .. (1 - 1) : p[m] = q[m]
  BY <1>1, <1>2, <1>3
<1>5. Earlier(p, q)
  BY <1>3, <1>4 DEF Earlier
<1> QED
  BY <1>5 DEF Before, p, q

\* What weighing the head of the queue does.
LEMMA WeighsHead ==
  ASSUME TypeOK, queue # <<>>, NEW h \in candidates, h = Head(queue),
         pc = "select", Selected,
         retrieved' = Weigh(retrieved, h, request.limit, EntryBudget)
  PROVE  /\ retrieved' \in [items : Seq(candidates), used : Nat, budget : Seq(candidates),
                            limit : Seq(candidates), context : Seq(candidates), rendered : Nat]
         /\ retrieved'.context = retrieved.context /\ retrieved'.rendered = retrieved.rendered
         /\ \/ /\ Len(retrieved.items) = request.limit
               /\ Range(retrieved'.limit) = Range(retrieved.limit) \cup {h}
               /\ retrieved'.items = retrieved.items /\ retrieved'.used = retrieved.used
               /\ retrieved'.budget = retrieved.budget
            \/ /\ retrieved.used + Count(h.text) > EntryBudget
               /\ Range(retrieved'.budget) = Range(retrieved.budget) \cup {h}
               /\ retrieved'.items = retrieved.items /\ retrieved'.used = retrieved.used
               /\ retrieved'.limit = retrieved.limit
            \/ /\ retrieved.limit = <<>> /\ retrieved'.limit = <<>>
               /\ Len(retrieved'.items) <= request.limit
               /\ retrieved.used + Count(h.text) <= EntryBudget
               /\ Range(retrieved'.items) = Range(retrieved.items) \cup {h}
               /\ retrieved'.used = retrieved.used + Count(h.text)
               /\ retrieved'.used = TextTokens(retrieved'.items)
               /\ retrieved'.budget = retrieved.budget
<1> DEFINE r == retrieved
           limit == request.limit
           budget == EntryBudget
           Seqs == Seq(candidates)
           Lists == [items : Seqs, used : Nat, budget : Seqs, limit : Seqs, context : Seqs,
                     rendered : Nat]
<1>1. /\ r \in Lists /\ r.items \in Seqs /\ r.used \in Nat /\ r.budget \in Seqs /\ r.limit \in Seqs
      /\ r.context \in Seqs /\ r.rendered \in Nat
  BY DEF TypeOK
<1>2. limit \in Nat /\ budget \in Nat /\ candidates \in SUBSET Candidate
  BY Given
<1>3. /\ Len(r.items) \in Nat /\ Len(r.items) <= limit /\ r.used = TextTokens(r.items)
      /\ r.limit # <<>> => Len(r.items) = limit
  BY <1>1, LenProperties DEF Selected
<1>4. \A e \in candidates : e.text \in Text
  BY <1>2 DEF Candidate
<1>5. Count(h.text) \in Nat
  BY <1>4, CountType
<1>6. \A q \in Seqs : /\ Append(q, h) \in Seqs /\ Range(Append(q, h)) = Range(q) \cup {h}
                      /\ Len(Append(q, h)) = Len(q) + 1
  BY AppendRange
<1>7. TextTokens(Append(r.items, h)) = TextTokens(r.items) + Count(h.text)
  BY <1>1, <1>4, TextTokensAppend
<1>8. retrieved' = Weigh(r, h, limit, budget)
  OBVIOUS
<1> HIDE DEF limit, budget, Seqs
<1>9. CASE Len(r.items) >= limit
  <2>1. retrieved' = [r EXCEPT !.limit = Append(r.limit, h)]
    BY <1>8, <1>9 DEF Weigh
  <2>2. /\ retrieved' \in Lists /\ retrieved'.context = r.context /\ retrieved'.rendered = r.rendered
        /\ retrieved'.limit = Append(r.limit, h) /\ retrieved'.items = r.items
        /\ retrieved'.used = r.used /\ retrieved'.budget = r.budget
    BY <1>1, <1>6, <2>1
  <2>3. Len(r.items) = limit
    BY <1>2, <1>3, <1>9
  <2>4. Range(retrieved'.limit) = Range(r.limit) \cup {h}
    BY <1>1, <1>6, <2>2
  <2> QED
    BY <2>2, <2>3, <2>4 DEF limit, Seqs
<1>10. CASE ~(Len(r.items) >= limit) /\ r.used + Count(h.text) > budget
  <2>1. retrieved' = [r EXCEPT !.budget = Append(r.budget, h)]
    BY <1>8, <1>10 DEF Weigh
  <2>2. /\ retrieved' \in Lists /\ retrieved'.context = r.context /\ retrieved'.rendered = r.rendered
        /\ retrieved'.budget = Append(r.budget, h) /\ retrieved'.items = r.items
        /\ retrieved'.used = r.used /\ retrieved'.limit = r.limit
    BY <1>1, <1>6, <2>1
  <2>3. Range(retrieved'.budget) = Range(r.budget) \cup {h}
    BY <1>1, <1>6, <2>2
  <2> QED
    BY <1>10, <2>2, <2>3 DEF budget, Seqs
<1>11. CASE ~(Len(r.items) >= limit) /\ ~(r.used + Count(h.text) > budget)
  <2>1. retrieved' = [r EXCEPT !.items = Append(r.items, h), !.used = r.used + Count(h.text)]
    BY <1>8, <1>11 DEF Weigh
  <2>2. r.used + Count(h.text) \in Nat
    BY <1>1, <1>5
  <2>3. /\ retrieved' \in Lists /\ retrieved'.context = r.context /\ retrieved'.rendered = r.rendered
        /\ retrieved'.items = Append(r.items, h) /\ retrieved'.used = r.used + Count(h.text)
        /\ retrieved'.budget = r.budget /\ retrieved'.limit = r.limit
    BY <1>1, <1>6, <2>1, <2>2
  <2>4. Len(r.items) # limit /\ Len(r.items) + 1 <= limit
    BY <1>2, <1>3, <1>11
  <2>5. r.limit = <<>> /\ r.used + Count(h.text) <= budget
    BY <1>1, <1>2, <1>3, <1>5, <1>11, <2>4
  <2>6. Len(retrieved'.items) <= limit /\ Range(retrieved'.items) = Range(r.items) \cup {h}
    BY <1>1, <1>6, <2>3, <2>4
  <2>7. retrieved'.used = TextTokens(retrieved'.items)
    BY <1>3, <1>7, <2>3
  <2> QED
    BY <2>3, <2>5, <2>6, <2>7 DEF limit, budget, Seqs
<1> QED
  BY <1>9, <1>10, <1>11

\* One turn of select_entries().
LEMMA SelectEntryKeeps == IInv /\ SelectEntry => IInv'
<1> SUFFICES ASSUME IInv, SelectEntry
             PROVE  IInv'
  OBVIOUS
<1> USE DEF IInv
<1> DEFINE h == Head(queue)
           limited == /\ Len(retrieved.items) = request.limit
                      /\ Range(retrieved'.limit) = Range(retrieved.limit) \cup {h}
                      /\ retrieved'.items = retrieved.items /\ retrieved'.used = retrieved.used
                      /\ retrieved'.budget = retrieved.budget
           skipped == /\ retrieved.used + Count(h.text) > EntryBudget
                      /\ Range(retrieved'.budget) = Range(retrieved.budget) \cup {h}
                      /\ retrieved'.items = retrieved.items /\ retrieved'.used = retrieved.used
                      /\ retrieved'.limit = retrieved.limit
           chosen == /\ retrieved.limit = <<>> /\ retrieved'.limit = <<>>
                     /\ Len(retrieved'.items) <= request.limit
                     /\ retrieved.used + Count(h.text) <= EntryBudget
                     /\ Range(retrieved'.items) = Range(retrieved.items) \cup {h}
                     /\ retrieved'.used = retrieved.used + Count(h.text)
                     /\ retrieved'.used = TextTokens(retrieved'.items)
                     /\ retrieved'.budget = retrieved.budget
<1>1. /\ pc = "select" /\ pc' = "select" /\ queue # <<>> /\ queue' = Tail(queue)
      /\ retrieved' = Weigh(retrieved, h, request.limit, EntryBudget)
      /\ UNCHANGED <<model, limits, request, sources, candidates, blocks, todo, kept, available>>
  BY DEF SelectEntry, given
<1>2. /\ h \in candidates /\ queue' \in Seq(candidates) /\ Range(queue) = {h} \cup Range(queue')
      /\ \A n \in DOMAIN queue' : queue'[n] = queue[n + 1] /\ n + 1 \in DOMAIN queue /\ n \in Nat
      /\ 1 \in DOMAIN queue /\ h = queue[1]
      /\ \A n \in DOMAIN queue : n \in Nat
  BY <1>1, TailRange DEF TypeOK
<1>3. /\ retrieved' \in [items : Seq(candidates), used : Nat, budget : Seq(candidates),
                         limit : Seq(candidates), context : Seq(candidates), rendered : Nat]
      /\ retrieved'.context = retrieved.context /\ retrieved'.rendered = retrieved.rendered
      /\ limited \/ skipped \/ chosen
  BY <1>1, <1>2, WeighsHead
<1>4. /\ Weighed' = Weighed \cup {h} /\ Weighed \subseteq candidates
      /\ Range(retrieved.items) \subseteq Weighed
  <2>1. Weighed' = Weighed \cup {h}
    BY <1>3, NoTokens DEF Weighed
  <2>2. Weighed \subseteq candidates
    <3>1. retrieved.items \in Seq(candidates) /\ retrieved.budget \in Seq(candidates)
          /\ retrieved.limit \in Seq(candidates)
      BY DEF TypeOK
    <3>2. ASSUME NEW q \in Seq(candidates)
          PROVE  Range(q) \subseteq candidates
      BY LenProperties, ElementOfSeq DEF Range
    <3> QED
      BY <3>1, <3>2 DEF Weighed
  <2> QED
    BY <2>1, <2>2 DEF Weighed
<1>5. \A d, e : Before(d, e)' <=> Before(d, e)
  BY <1>1 DEF Before
<1>6. \A e \in Range(queue') : Before(h, e)
  <2> SUFFICES ASSUME NEW n \in DOMAIN queue'
               PROVE  Before(h, queue'[n])
    BY DEF Range
  <2>1. 1 < n + 1 /\ queue'[n] = queue[n + 1]
    BY <1>2
  <2> QED
    BY <1>1, <1>2, <2>1 DEF Weighing
<1>7. \A e \in candidates : Count(e.text) \in Nat
  BY Given, CountType DEF Candidate
<1> HIDE DEF h
<1>8. TypeOK'
  BY <1>1, <1>2, <1>3 DEF TypeOK
<1>9. Resolved'
  BY <1>1 DEF Resolved
<1>10. EntryBudget' = EntryBudget /\ EntryBudget \in Nat
  BY <1>1, Given DEF EntryBudget
<1>11. /\ Len(retrieved.items) <= request.limit
       /\ retrieved.used = TextTokens(retrieved.items) /\ retrieved.used <= EntryBudget
       /\ retrieved.limit # <<>> => Len(retrieved.items) = request.limit
       /\ \A e \in Range(retrieved.budget) : retrieved.used + Count(e.text) > EntryBudget
       /\ AuthorFirst /\ retrieved.used \in Nat
       /\ Range(retrieved.budget) \subseteq candidates
  BY <1>1, <1>4 DEF Selected, TypeOK, Weighed
\* No comparable entry of the author can be left behind by the one chosen.
<1>12. AuthorFirst'
  <2>1. CASE retrieved'.items = retrieved.items
    BY <1>1, <1>11, <2>1 DEF AuthorFirst
  <2>2. CASE chosen
    <3> SUFFICES ASSUME NEW a \in candidates, NEW b \in Range(retrieved'.items),
                        a.capture \in {"human-authored", "human-edited"},
                        b.capture = "ai-extracted", Comparable(a, b),
                        Count(a.text) <= Count(b.text)
                 PROVE  a \in Range(retrieved'.items)
      BY <1>1 DEF AuthorFirst
    <3>1. CASE b \in Range(retrieved.items)
      BY <1>11, <2>2, <3>1 DEF AuthorFirst
    <3>2. CASE b = h
      <4>1. Before(a, h)
        BY <1>2, <3>2, AuthorBefore
      <4>2. a # h /\ a \notin Range(queue')
        <5>1. a # h
          BY <3>2
        <5>2. ~Before(h, a)
          BY <1>2, <4>1, BeforeOrder
        <5> QED
          BY <1>6, <5>1, <5>2
      <4>3. a \in Weighed
        BY <1>1, <1>2, <4>2 DEF Weighing
      <4>4. a \notin Range(retrieved.limit)
        BY <2>2, NoTokens
      <4>5. a \notin Range(retrieved.budget)
        <5>1. SUFFICES ASSUME retrieved.used + Count(a.text) > EntryBudget
                       PROVE  FALSE
          BY <1>11
        <5>2. Count(a.text) \in Nat /\ Count(h.text) \in Nat /\ Count(a.text) <= Count(h.text)
          BY <1>2, <1>7, <3>2
        <5> QED
          BY <1>10, <1>11, <2>2, <5>1, <5>2
      <4> QED
        BY <2>2, <4>3, <4>4, <4>5 DEF Weighed
    <3> QED
      BY <2>2, <3>1, <3>2
  <2> QED
    BY <1>3, <2>1, <2>2
<1>13. Selected'
  <2>1. CASE limited
    BY <1>1, <1>10, <1>11, <1>12, <2>1 DEF Selected
  <2>2. CASE skipped
    BY <1>1, <1>10, <1>11, <1>12, <2>2 DEF Selected
  <2>3. CASE chosen
    <3>1. retrieved'.used <= EntryBudget
      BY <2>3
    <3>2. ASSUME NEW e \in Range(retrieved'.budget)
          PROVE  retrieved'.used + Count(e.text) > EntryBudget
      <4>1. retrieved.used + Count(e.text) > EntryBudget /\ Count(e.text) \in Nat
            /\ Count(h.text) \in Nat
        BY <1>2, <1>7, <1>11, <2>3, <3>2
      <4> QED
        BY <1>10, <1>11, <2>3, <4>1
    <3> QED
      BY <1>1, <1>10, <1>12, <2>3, <3>1, <3>2 DEF Selected
  <2> QED
    BY <1>3, <2>1, <2>2, <2>3
<1>14. Weighing'
  <2>1. ASSUME NEW m \in DOMAIN queue', NEW n \in DOMAIN queue', m < n
        PROVE  Before(queue'[m], queue'[n])
    <3>1. /\ m + 1 < n + 1 /\ queue'[m] = queue[m + 1] /\ queue'[n] = queue[n + 1]
          /\ m + 1 \in DOMAIN queue /\ n + 1 \in DOMAIN queue
      BY <1>2, <2>1
    <3> QED
      BY <1>1, <3>1 DEF Weighing
  <2>2. candidates \subseteq Weighed' \cup Range(queue')
    BY <1>1, <1>2, <1>4 DEF Weighing
  <2>3. ASSUME NEW d \in Weighed', NEW e \in Range(queue')
        PROVE  Before(d, e)
    BY <1>1, <1>2, <1>4, <1>6 DEF Weighing
  <2> QED
    BY <1>1, <1>5, <2>1, <2>2, <2>3 DEF Weighing
<1>15. Placed'
  BY <1>1, <1>3 DEF Placed
<1>16. Fitting' /\ LowerPriorityGivesWay'
  BY <1>1, FitUnchanged
<1> QED
  BY <1>8, <1>9, <1>13, <1>14, <1>15, <1>16

\* Reordering the summaries loses no selected entry.
LEMMA OrderStoryKeeps == IInv /\ OrderStory => IInv'
<1> SUFFICES ASSUME IInv, OrderStory
             PROVE  IInv'
  OBVIOUS
<1> USE DEF IInv
<1>1. /\ pc = "select" /\ pc' = "render" /\ queue' = OrderSummaries(retrieved.items)
      /\ UNCHANGED <<model, limits, request, sources, candidates, retrieved, blocks, todo, kept,
                     available>>
  BY DEF OrderStory, given
<1>2. queue' \in Seq(candidates) /\ Range(queue') = Range(retrieved.items)
  <2>1. retrieved.items \in Seq(candidates)
    BY DEF TypeOK
  <2> QED
    BY <1>1, <2>1, Given, OrderSummariesIs
<1>3. retrieved.context = <<>> /\ retrieved.rendered = 0
  BY <1>1 DEF Placed
<1>4. TypeOK'
  BY <1>1, <1>2 DEF TypeOK
<1>5. Resolved' /\ Weighing'
  BY <1>1 DEF Resolved, Weighing
<1>6. EntryBudget' = EntryBudget /\ EntryBudget \in Nat
  BY <1>1, Given DEF EntryBudget
<1>7. Selected'
  BY <1>1, <1>6 DEF Selected, AuthorFirst
<1>8. Placed'
  <2>1. RenderedTexts' = <<>>
    BY <1>1, <1>3 DEF RenderedTexts
  <2>2. retrieved'.rendered = TextTokens(RenderedTexts')
    BY <1>1, <1>3, <2>1, NoTokens
  <2>3. retrieved'.rendered <= EntryBudget'
    BY <1>1, <1>3, <1>6
  <2> QED
    BY <1>1, <1>2, <2>2, <2>3 DEF Placed
<1>9. Fitting' /\ LowerPriorityGivesWay'
  BY <1>1, FitUnchanged
<1> QED
  BY <1>4, <1>5, <1>7, <1>8, <1>9

\* One turn of assemble_entry_context().
LEMMA RenderEntryKeeps == IInv /\ RenderEntry => IInv'
<1> SUFFICES ASSUME IInv, RenderEntry
             PROVE  IInv'
  OBVIOUS
<1> USE DEF IInv
<1> DEFINE r == retrieved
           h == Head(queue)
           size == Count(Rendered(h))
           placed == ~(r.rendered + size > EntryBudget)
<1>1. /\ pc = "render" /\ pc' = "render" /\ queue # <<>> /\ queue' = Tail(queue)
      /\ retrieved' = Place(r, h, EntryBudget)
      /\ UNCHANGED <<model, limits, request, sources, candidates, blocks, todo, kept, available>>
  BY DEF RenderEntry, given
<1>2. h \in candidates /\ queue' \in Seq(candidates) /\ Range(queue) = {h} \cup Range(queue')
  BY <1>1, TailRange DEF TypeOK
<1>3. candidates \in SUBSET Candidate /\ \A e \in candidates : Rendered(e) \in Text
  BY Given, RenderedType
<1>4. size \in Nat /\ \A e \in candidates : Count(Rendered(e)) \in Nat
  BY <1>2, <1>3, CountType
<1>5. r.context \in Seq(candidates) /\ r.rendered \in Nat /\ r.items \in Seq(candidates)
  BY DEF TypeOK
<1>6. EntryBudget' = EntryBudget /\ EntryBudget \in Nat
  BY <1>1, Given DEF EntryBudget
<1>7. /\ Append(r.context, h) \in Seq(candidates)
      /\ Range(Append(r.context, h)) = Range(r.context) \cup {h}
  BY <1>2, <1>5, AppendRange
<1>8. Range(r.items) \subseteq candidates
  BY <1>5, LenProperties, ElementOfSeq DEF Range
<1>9. /\ r.rendered = TextTokens(RenderedTexts) /\ r.rendered <= EntryBudget
      /\ \A e \in Range(r.items) : \/ e \in Range(queue) \/ e \in Range(r.context)
                                   \/ r.rendered + Count(Rendered(e)) > EntryBudget
  BY <1>1 DEF Placed
<1> HIDE DEF h, size
<1>10. /\ retrieved'.items = r.items /\ retrieved'.used = r.used /\ retrieved'.budget = r.budget
       /\ retrieved'.limit = r.limit
       /\ retrieved' \in [items : Seq(candidates), used : Nat, budget : Seq(candidates),
                          limit : Seq(candidates), context : Seq(candidates), rendered : Nat]
       /\ placed => retrieved'.context = Append(r.context, h) /\ retrieved'.rendered = r.rendered + size
       /\ ~placed => retrieved' = r
  <2>1. r \in [items : Seq(candidates), used : Nat, budget : Seq(candidates),
               limit : Seq(candidates), context : Seq(candidates), rendered : Nat]
    BY DEF TypeOK
  <2>2. CASE placed
    <3>1. retrieved' = [r EXCEPT !.context = Append(r.context, h), !.rendered = r.rendered + size]
      BY <1>1, <2>2 DEF Place, size
    <3>2. r.rendered + size \in Nat
      BY <1>4, <1>5
    <3> QED
      BY <1>7, <2>1, <2>2, <3>1, <3>2
  <2>3. CASE ~placed
    <3>1. retrieved' = r
      BY <1>1, <2>3 DEF Place, size
    <3> QED
      BY <2>1, <2>3, <3>1
  <2> QED
    BY <2>2, <2>3
<1>11. TypeOK'
  BY <1>1, <1>2, <1>10 DEF TypeOK
<1>12. Resolved' /\ Weighing'
  BY <1>1 DEF Resolved, Weighing
<1>13. Selected'
  BY <1>1, <1>6, <1>10 DEF Selected, AuthorFirst
<1>14. Placed'
  <2>1. CASE placed
    <3> DEFINE Texts == [text : Text]
               line == [text |-> Rendered(h)]
    <3>1. RenderedTexts' = Append(RenderedTexts, line) /\ RenderedTexts \in Seq(Texts)
      <4> DEFINE long == Append(r.context, h)
      <4>1. /\ long \in Seq(candidates) /\ Len(long) = Len(r.context) + 1
            /\ \A n \in 1 .. Len(r.context) : long[n] = r.context[n]
            /\ long[Len(r.context) + 1] = h
        BY <1>2, <1>5, AppendProperties
      <4>2. /\ Len(r.context) \in Nat /\ DOMAIN r.context = 1 .. Len(r.context)
            /\ DOMAIN long = 1 .. Len(long) /\ \A n \in 1 .. Len(r.context) : r.context[n] \in candidates
        BY <1>5, <4>1, LenProperties, ElementOfSeq
      <4> HIDE DEF long
      <4>3. RenderedTexts \in Seq(Texts) /\ Len(RenderedTexts) = Len(r.context)
            /\ \A n \in 1 .. Len(r.context) : RenderedTexts[n] = [text |-> Rendered(r.context[n])]
        BY <1>3, <4>2 DEF RenderedTexts
      <4>4. RenderedTexts' = [n \in 1 .. (Len(r.context) + 1) |-> [text |-> Rendered(long[n])]]
        BY <1>10, <2>1, <4>1, <4>2 DEF RenderedTexts, long
      <4>5. line \in Texts
        BY <1>2, <1>3
      <4>6. Append(RenderedTexts, line)
              = [n \in 1 .. (Len(r.context) + 1) |-> [text |-> Rendered(long[n])]]
        <5> DEFINE t == Append(RenderedTexts, line)
        <5> HIDE DEF line
        <5>1. /\ t \in Seq(Texts) /\ Len(t) = Len(r.context) + 1 /\ t[Len(r.context) + 1] = line
              /\ \A n \in 1 .. Len(r.context) : t[n] = RenderedTexts[n]
          BY <4>3, <4>5, AppendProperties
        <5>2. t = [n \in 1 .. (Len(r.context) + 1) |-> t[n]]
          BY <5>1, LenProperties
        <5> HIDE DEF t
        <5>3. ASSUME NEW n \in 1 .. (Len(r.context) + 1)
              PROVE  t[n] = [text |-> Rendered(long[n])]
          <6>1. CASE n = Len(r.context) + 1
            BY <4>1, <5>1, <6>1 DEF line
          <6>2. CASE n # Len(r.context) + 1
            <7>1. n \in 1 .. Len(r.context)
              BY <4>2, <6>2
            <7> QED
              BY <4>1, <4>3, <5>1, <7>1
          <6> QED
            BY <6>1, <6>2
        <5> QED
          BY <5>2, <5>3 DEF t
      <4> QED
        BY <4>3, <4>4, <4>6
    <3>2. TextTokens(RenderedTexts') = TextTokens(RenderedTexts) + Count(Rendered(h))
      <4>1. line \in Texts /\ (\A i \in Texts : i.text \in Text) /\ line.text = Rendered(h)
        BY <1>2, <1>3
      <4> HIDE DEF line
      <4>2. TextTokens(Append(RenderedTexts, line)) = TextTokens(RenderedTexts) + Count(line.text)
        BY <3>1, <4>1, TextTokensAppend
      <4> QED
        BY <3>1, <4>1, <4>2
    <3>3. retrieved'.rendered = TextTokens(RenderedTexts') /\ retrieved'.rendered <= EntryBudget
      BY <1>4, <1>5, <1>6, <1>9, <1>10, <2>1, <3>2 DEF size
    <3>4. ASSUME NEW e \in Range(r.items)
          PROVE  \/ e \in Range(queue') \/ e \in Range(retrieved'.context)
                 \/ retrieved'.rendered + Count(Rendered(e)) > EntryBudget
      <4>1. Range(retrieved'.context) = Range(r.context) \cup {h}
        BY <1>7, <1>10, <2>1
      <4>2. CASE r.rendered + Count(Rendered(e)) > EntryBudget
        <5>1. Count(Rendered(e)) \in Nat /\ size \in Nat
          BY <1>4, <1>8
        <5>2. retrieved'.rendered = r.rendered + size
          BY <1>10, <2>1
        <5> QED
          BY <1>5, <1>6, <4>2, <5>1, <5>2
      <4> QED
        BY <1>2, <1>9, <4>1, <4>2
    <3> QED
      BY <1>1, <1>6, <1>10, <3>3, <3>4 DEF Placed
  <2>2. CASE ~placed
    <3>1. retrieved' = r /\ RenderedTexts' = RenderedTexts
      BY <1>10, <2>2 DEF RenderedTexts
    <3>2. ASSUME NEW e \in Range(r.items)
          PROVE  \/ e \in Range(queue') \/ e \in Range(r.context)
                 \/ r.rendered + Count(Rendered(e)) > EntryBudget
      BY <1>2, <1>9, <2>2 DEF size
    <3> QED
      BY <1>1, <1>6, <1>9, <3>1, <3>2 DEF Placed
  <2> QED
    BY <2>1, <2>2
<1>15. Fitting' /\ LowerPriorityGivesWay'
  BY <1>1, FitUnchanged
<1> QED
  BY <1>11, <1>12, <1>13, <1>14, <1>15

\* The blocks that are collected are whole.
LEMMA CollectKeeps == IInv /\ Collect => IInv'
<1> SUFFICES ASSUME IInv, Collect
             PROVE  IInv'
  OBVIOUS
<1> USE DEF IInv
<1>1. /\ pc = "render" /\ pc' \in {"failed", "order"} /\ queue = <<>>
      /\ blocks' = Collected(retrieved.context)
      /\ UNCHANGED <<model, limits, request, sources, candidates, queue, retrieved, todo, kept,
                     available>>
  BY DEF Collect, given
<1>2. todo = {} /\ kept = {}
  BY <1>1 DEF Fitting
<1>3. blocks' \in Seq(WholeBlock) /\ blocks' \in Seq(SoundBlock)
  <2>1. retrieved.context \in Seq(candidates) /\ candidates \in SUBSET Candidate
    BY Given DEF TypeOK
  <2>2. retrieved.context \in Seq(Candidate)
    BY <2>1
  <2>3. blocks' \in Seq(WholeBlock)
    BY <1>1, <2>2, Given, CollectedType
  <2>4. WholeBlock \subseteq SoundBlock
    BY DEF WholeBlock
  <2> QED
    BY <2>3, <2>4, SeqMonotonic
<1>4. TypeOK'
  BY <1>1, <1>2, <1>3 DEF TypeOK
<1>5. Resolved' /\ Weighing'
  BY <1>1 DEF Resolved, Weighing
<1>6. EntryBudget' = EntryBudget
  BY <1>1 DEF EntryBudget
<1>7. Selected'
  BY <1>1, <1>6 DEF Selected, AuthorFirst
<1>8. Placed'
  <2>1. RenderedTexts' = RenderedTexts
    BY <1>1 DEF RenderedTexts
  <2> QED
    BY <1>1, <1>6, <2>1 DEF Placed
<1>9. Fitting' /\ LowerPriorityGivesWay'
  BY <1>1, <1>2, <1>3 DEF Fitting, LowerPriorityGivesWay
<1> QED
  BY <1>4, <1>5, <1>7, <1>8, <1>9

\* Ordering keeps them whole.
LEMMA OrderKeeps == IInv /\ Order => IInv'
<1> SUFFICES ASSUME IInv, Order
             PROVE  IInv'
  OBVIOUS
<1> USE DEF IInv
<1>1. /\ pc = "order" /\ pc' \in {"failed", "protect"} /\ blocks' = Ordered(blocks)
      /\ UNCHANGED <<model, limits, request, sources, candidates, queue, retrieved, todo, kept,
                     available>>
  BY DEF Order, given
<1>2. todo = {} /\ kept = {}
  BY <1>1 DEF Fitting
<1>3. blocks' \in Seq(WholeBlock) /\ blocks' \in Seq(SoundBlock)
  <2>1. WholeBlock \subseteq SoundBlock
    BY DEF WholeBlock
  <2>2. blocks' \in Seq(WholeBlock)
    <3>1. blocks \in Seq(WholeBlock)
      BY <1>1 DEF Fitting
    <3> QED
      BY <1>1, <2>1, <3>1, OrderedType
  <2> QED
    BY <2>1, <2>2, SeqMonotonic
<1>4. TypeOK'
  BY <1>1, <1>2, <1>3 DEF TypeOK
<1>5. Resolved' /\ Weighing' /\ Selected' /\ Placed'
  BY <1>1 DEF Resolved, Weighing, Selected, Placed
<1>6. Fitting' /\ LowerPriorityGivesWay'
  <2>1. ASSUME NEW n \in DOMAIN blocks'
        PROVE  blocks'[n].text = blocks'[n].whole
    BY <1>3, LenProperties, ElementOfSeq DEF WholeBlock
  <2> QED
    BY <1>1, <1>2, <2>1 DEF Fitting, LowerPriorityGivesWay
<1> QED
  BY <1>4, <1>5, <1>6

-----------------------------------------------------------------------------
(* The steps of the fit *)

\* A block that may be cut is given a beginning of its text: all else about the
\* blocks stays.
LEMMA CutBlock ==
  ASSUME TypeOK, NEW n \in DOMAIN blocks, blocks[n].truncatable,
         NEW text \in Text, Prefix(text, blocks[n].whole),
         blocks' = [blocks EXCEPT ![n].text = text]
  PROVE  /\ blocks' \in Seq(SoundBlock) /\ DOMAIN blocks' = DOMAIN blocks
         /\ blocks'[n].text = text
         /\ \A m \in DOMAIN blocks : m # n => blocks'[m] = blocks[m]
         /\ \A m \in DOMAIN blocks :
              /\ blocks'[m].kind = blocks[m].kind /\ blocks'[m].priority = blocks[m].priority
              /\ blocks'[m].whole = blocks[m].whole
              /\ blocks'[m].truncatable = blocks[m].truncatable
<1> DEFINE b == blocks[n]
           c == [b EXCEPT !.text = text]
<1>1. b \in SoundBlock /\ b \in PromptBlock
  BY BlockFields DEF SoundBlock
<1>2. c \in PromptBlock /\ c.text = text /\ c.kind = b.kind /\ c.priority = b.priority
      /\ c.whole = b.whole /\ c.truncatable = b.truncatable
  BY <1>1 DEF PromptBlock
<1>3. c \in SoundBlock
  BY <1>1, <1>2 DEF SoundBlock
<1>4. blocks' = [blocks EXCEPT ![n] = c]
  OBVIOUS
<1> HIDE DEF c
<1>5. /\ blocks' \in Seq(SoundBlock) /\ DOMAIN blocks' = DOMAIN blocks /\ blocks'[n] = c
      /\ \A m \in DOMAIN blocks : m # n => blocks'[m] = blocks[m]
  <2>1. blocks \in [DOMAIN blocks -> SoundBlock]
    BY BlockFields DEF TypeOK
  <2>2. blocks' \in [DOMAIN blocks -> SoundBlock]
    BY <1>3, <1>4, <2>1
  <2>3. blocks \in Seq(SoundBlock)
    BY DEF TypeOK
  <2>4. blocks' \in Seq(SoundBlock)
    BY <2>2, <2>3, MapType
  <2> QED
    BY <1>4, <2>1, <2>2, <2>4
<1>6. ASSUME NEW m \in DOMAIN blocks
      PROVE  /\ blocks'[m].kind = blocks[m].kind /\ blocks'[m].priority = blocks[m].priority
             /\ blocks'[m].whole = blocks[m].whole
             /\ blocks'[m].truncatable = blocks[m].truncatable
  <2>1. CASE m = n
    BY <1>2, <1>5, <2>1
  <2>2. CASE m # n
    BY <1>5, <2>2
  <2> QED
    BY <2>1, <2>2
<1> QED
  BY <1>2, <1>5, <1>6

\* What is protected, and the order of the blocks, do not depend on their texts.
LEMMA SameOrder ==
  ASSUME DOMAIN blocks' = DOMAIN blocks,
         \A m \in DOMAIN blocks : /\ blocks'[m].kind = blocks[m].kind
                                  /\ blocks'[m].priority = blocks[m].priority
  PROVE  /\ ProtectedBlocks' = ProtectedBlocks
         /\ \A m, n \in DOMAIN blocks : Later(m, n)' <=> Later(m, n)
<1>1. \A m \in DOMAIN blocks : Protected(m)' <=> Protected(m)
  BY DEF Protected
<1>2. ProtectedBlocks' = ProtectedBlocks
  BY <1>1 DEF ProtectedBlocks
<1>3. ASSUME NEW m \in DOMAIN blocks, NEW n \in DOMAIN blocks
      PROVE  Later(m, n)' <=> Later(m, n)
  BY DEF Later
<1> QED
  BY <1>2, <1>3

\* A block that follows next comes before all others there are.
LEMMA FollowingFirst ==
  ASSUME TypeOK, NEW n \in todo, Following(n), NEW m \in todo, m # n
  PROVE  Later(m, n)
<1>1. m \in DOMAIN blocks /\ n \in DOMAIN blocks
  BY DEF TypeOK
<1>2. blocks[m].priority \in Int /\ blocks[n].priority \in Int /\ m \in Nat /\ n \in Nat
  BY <1>1, BlockFields
<1> QED
  BY <1>2 DEF Following, Later

\* The order of the fit is strict.
LEMMA LaterOrder ==
  ASSUME TypeOK, NEW m \in DOMAIN blocks, NEW n \in DOMAIN blocks, Later(m, n)
  PROVE  ~Later(n, m)
<1>1. blocks[m].priority \in Int /\ blocks[n].priority \in Int /\ m \in Nat /\ n \in Nat
  BY BlockFields
<1> QED
  BY <1>1 DEF Later

\* What the protected blocks leave is a natural number.
LEMMA ReserveKeeps == IInv /\ Reserve => IInv'
<1> SUFFICES ASSUME IInv, Reserve
             PROVE  IInv'
  OBVIOUS
<1> USE DEF IInv
<1>1. /\ pc = "protect" /\ pc' = "fit" /\ Tokens(ProtectedBlocks) <= Budget
      /\ available' = Budget - Tokens(ProtectedBlocks)
      /\ todo' = DOMAIN blocks \ ProtectedBlocks
      /\ UNCHANGED <<model, limits, request, sources, candidates, queue, retrieved, blocks, kept>>
  BY DEF Reserve, given
<1>2. available' \in Nat
  <2>1. Tokens(ProtectedBlocks) \in Nat /\ Budget \in Int
    BY Given, TokensType DEF ProtectedBlocks
  <2> QED
    BY <1>1, <2>1
<1>3. kept = {}
  BY <1>1 DEF Fitting
<1>4. TypeOK'
  BY <1>1, <1>2, <1>3 DEF TypeOK
<1>5. Resolved' /\ Weighing' /\ Selected' /\ Placed'
  BY <1>1 DEF Resolved, Weighing, Selected, Placed
<1>6. ProtectedBlocks' = ProtectedBlocks
  BY <1>1, SameOrder
<1>7. Fitting'
  <2>1. Seen' = {}
    BY <1>1, <1>6 DEF Seen
  <2>2. \A n \in todo' : blocks[n].text = blocks[n].whole
    BY <1>1 DEF Fitting
  <2> QED
    BY <1>1, <1>3, <1>6, <2>1, <2>2 DEF Fitting
<1>8. LowerPriorityGivesWay'
  BY <1>1, <1>6 DEF LowerPriorityGivesWay
<1> QED
  BY <1>4, <1>5, <1>7, <1>8

\* One turn of _trim_protected(), which cuts no optional block.
LEMMA TrimProtectedKeeps == IInv /\ TrimProtected => IInv'
<1> SUFFICES ASSUME IInv, TrimProtected
             PROVE  IInv'
  OBVIOUS
<1> USE DEF IInv
<1>1. /\ pc = "protect" /\ pc' \in {"protect", "failed"}
      /\ \/ \E n \in Yielding : blocks' = [blocks EXCEPT ![n].text = Reduced(n)]
         \/ UNCHANGED blocks
      /\ UNCHANGED <<model, limits, request, sources, candidates, queue, retrieved, todo, kept,
                     available>>
  BY DEF TrimProtected, given
<1>2. todo = {} /\ kept = {}
  BY <1>1 DEF Fitting
<1>3. /\ blocks' \in Seq(SoundBlock) /\ DOMAIN blocks' = DOMAIN blocks
      /\ ProtectedBlocks' = ProtectedBlocks
      /\ \A n \in DOMAIN blocks \ ProtectedBlocks : blocks'[n] = blocks[n]
  <2>1. CASE UNCHANGED blocks
    BY <2>1, SameOrder DEF TypeOK
  <2>2. CASE \E n \in Yielding : blocks' = [blocks EXCEPT ![n].text = Reduced(n)]
    <3>1. PICK n \in Yielding : blocks' = [blocks EXCEPT ![n].text = Reduced(n)]
      BY <2>2
    <3>2. n \in DOMAIN blocks /\ n \in ProtectedBlocks /\ blocks[n].truncatable
      BY DEF Yielding, Cuttable, ProtectedBlocks
    <3>3. Reduced(n) \in Text /\ Prefix(Reduced(n), blocks[n].whole)
      <4> DEFINE room == Larger(MinRetained, Budget - Tokens(ProtectedBlocks \ {n}))
      <4>1. room \in Nat
        <5>1. Tokens(ProtectedBlocks \ {n}) \in Nat /\ Budget \in Int /\ MinRetained \in Nat
          BY Given, TokensType, PromptAssumption DEF ProtectedBlocks
        <5> QED
          BY <5>1 DEF Larger
      <4>2. blocks[n].text \in Text /\ blocks[n].whole \in Text
            /\ Prefix(blocks[n].text, blocks[n].whole)
        BY <3>2, BlockFields
      <4> HIDE DEF room
      <4>3. TrimTo(blocks[n].text, room) \in Text
            /\ Prefix(TrimTo(blocks[n].text, room), blocks[n].whole)
        BY <4>1, <4>2, TrimToPrefix
      <4> QED
        BY <4>3 DEF Reduced, room
    <3> DEFINE text == Reduced(n)
    <3>4. blocks' = [blocks EXCEPT ![n].text = text]
      BY <3>1
    <3> HIDE DEF text
    <3>5. text \in Text /\ Prefix(text, blocks[n].whole)
      BY <3>3 DEF text
    <3>6. /\ blocks' \in Seq(SoundBlock) /\ DOMAIN blocks' = DOMAIN blocks
          /\ \A m \in DOMAIN blocks : m # n => blocks'[m] = blocks[m]
          /\ \A m \in DOMAIN blocks : /\ blocks'[m].kind = blocks[m].kind
                                      /\ blocks'[m].priority = blocks[m].priority
      BY <3>2, <3>4, <3>5, CutBlock
    <3>7. ProtectedBlocks' = ProtectedBlocks
      BY <3>6, SameOrder
    <3> QED
      BY <3>2, <3>6, <3>7
  <2> QED
    BY <1>1, <2>1, <2>2
<1>4. TypeOK'
  BY <1>1, <1>2, <1>3 DEF TypeOK
<1>5. Resolved' /\ Weighing' /\ Selected' /\ Placed'
  BY <1>1 DEF Resolved, Weighing, Selected, Placed
<1>6. Fitting'
  BY <1>1, <1>2, <1>3 DEF Fitting
<1>7. LowerPriorityGivesWay'
  BY <1>1 DEF LowerPriorityGivesWay
<1> QED
  BY <1>4, <1>5, <1>6, <1>7

\* What a turn of the fit knows of the block it looks at.
LEMMA Looked ==
  ASSUME IInv, pc = "fit", NEW n \in todo, Following(n)
  PROVE  /\ n \in DOMAIN blocks /\ n \notin ProtectedBlocks /\ n \notin kept /\ n \notin Seen
         /\ blocks[n].text = blocks[n].whole /\ Count(blocks[n].text) \in Nat
         /\ blocks[n].text # <<>> => Count(blocks[n].text) > 0
         /\ available \in Nat /\ kept \subseteq Seen
         /\ \A s \in Seen \cup {n}, m \in todo \ {n} : Later(m, s)
         /\ \A s \in Seen : Later(n, s) /\ ~Later(s, n)
         /\ ~Later(n, n)
<1> USE DEF IInv
<1>1. n \in DOMAIN blocks /\ available \in Nat /\ todo \subseteq DOMAIN blocks
      /\ kept \subseteq DOMAIN blocks
  BY DEF TypeOK
<1>2. n \notin ProtectedBlocks /\ n \notin kept /\ n \notin Seen /\ blocks[n].text = blocks[n].whole
      /\ kept \subseteq Seen
  BY <1>1 DEF Fitting, Seen
<1>3. /\ Count(blocks[n].text) \in Nat
      /\ blocks[n].text # <<>> => Count(blocks[n].text) > 0
  BY <1>1, BlockFields, CountType
<1>4. ASSUME NEW s \in Seen \cup {n}, NEW m \in todo \ {n}
      PROVE  Later(m, s)
  <2>1. CASE s \in Seen
    BY <2>1 DEF Fitting
  <2>2. CASE s = n
    BY <2>2, FollowingFirst
  <2> QED
    BY <2>1, <2>2
<1>5. ASSUME NEW s \in Seen
      PROVE  Later(n, s) /\ ~Later(s, n)
  <2>1. Later(n, s)
    BY DEF Fitting
  <2>2. s \in DOMAIN blocks
    BY DEF Seen
  <2> QED
    BY <1>1, <2>1, <2>2, LaterOrder
<1>6. ~Later(n, n)
  BY <1>1, LaterOrder
<1> QED
  BY <1>1, <1>2, <1>3, <1>4, <1>5, <1>6

\* A block that fits is taken whole; when nothing is available it is empty.
LEMMA IncludeKeeps == IInv /\ Include => IInv'
<1> SUFFICES ASSUME IInv, Include
             PROVE  IInv'
  OBVIOUS
<1>1. PICK n \in todo :
        /\ Following(n) /\ Count(blocks[n].text) <= available
        /\ kept' = kept \cup {n}
        /\ available' = available - Count(blocks[n].text)
        /\ todo' = todo \ {n}
  BY DEF Include
<1>2. /\ pc = "fit" /\ pc' = "fit"
      /\ UNCHANGED <<model, limits, request, sources, candidates, queue, retrieved, blocks>>
  BY DEF Include, given
<1> DEFINE size == Count(blocks[n].text)
<1>3. /\ n \in DOMAIN blocks /\ n \notin ProtectedBlocks /\ n \notin kept /\ n \notin Seen
      /\ blocks[n].text = blocks[n].whole /\ size \in Nat
      /\ blocks[n].text # <<>> => size > 0
      /\ available \in Nat
      /\ \A s \in Seen \cup {n}, m \in todo \ {n} : Later(m, s)
  BY <1>1, <1>2, Looked
<1> HIDE DEF size
<1> USE DEF IInv
<1>4. available' \in Nat /\ (available = 0 => available' = 0 /\ size = 0)
  BY <1>1, <1>3 DEF size
<1>5. /\ ProtectedBlocks' = ProtectedBlocks
      /\ \A m, s \in DOMAIN blocks : Later(m, s)' <=> Later(m, s)
  BY <1>2, SameOrder
<1>6. Seen' = Seen \cup {n} /\ Seen \subseteq DOMAIN blocks /\ todo \subseteq DOMAIN blocks
      /\ kept \subseteq DOMAIN blocks
  BY <1>1, <1>2, <1>3, <1>5 DEF Seen, TypeOK
<1>7. TypeOK'
  BY <1>1, <1>2, <1>3, <1>4 DEF TypeOK
<1>8. Resolved' /\ Weighing' /\ Selected' /\ Placed'
  BY <1>2 DEF Resolved, Weighing, Selected, Placed
<1>9. ASSUME NEW s \in Seen', blocks[s].truncatable,
             s \notin kept' \/ blocks[s].text # blocks[s].whole
      PROVE  /\ s \in Seen /\ (s \notin kept \/ blocks[s].text # blocks[s].whole)
             /\ available = 0 /\ available' = 0 /\ size = 0
  <2>1. s \in Seen /\ (s \notin kept \/ blocks[s].text # blocks[s].whole)
    BY <1>1, <1>3, <1>6, <1>9
  <2>2. available = 0
    BY <1>2, <1>9, <2>1 DEF Fitting
  <2> QED
    BY <1>4, <2>1, <2>2
<1>10. Fitting'
  <2>1. /\ todo' \cap ProtectedBlocks' = {} /\ todo' \cap kept' = {}
        /\ kept' \cap ProtectedBlocks' = {}
        /\ \A m \in todo' : blocks[m].text = blocks[m].whole
    BY <1>1, <1>2, <1>3, <1>5 DEF Fitting
  <2>2. \A s \in Seen', m \in todo' : Later(m, s)'
    BY <1>1, <1>3, <1>5, <1>6
  <2> QED
    BY <1>2, <1>9, <2>1, <2>2 DEF Fitting
<1>11. LowerPriorityGivesWay'
  <2> SUFFICES ASSUME NEW s \in Seen', blocks[s].truncatable,
                      s \notin kept' \/ blocks[s].text # blocks[s].whole,
                      NEW m \in kept' \ ProtectedBlocks, blocks[m].text # <<>>
               PROVE  ~Later(m, s)
    BY <1>1, <1>2, <1>3, <1>5, <1>6 DEF LowerPriorityGivesWay, Seen
  <2>1. s \in Seen /\ (s \notin kept \/ blocks[s].text # blocks[s].whole) /\ size = 0
    BY <1>9
  <2>2. m \in kept
    BY <1>1, <1>3, <2>1
  <2> QED
    BY <1>2, <2>1, <2>2 DEF LowerPriorityGivesWay, Seen
<1> QED
  BY <1>7, <1>8, <1>10, <1>11

\* A block that is cut takes all there was.
LEMMA CutKeeps == IInv /\ Cut => IInv'
<1> SUFFICES ASSUME IInv, Cut
             PROVE  IInv'
  OBVIOUS
<1>1. PICK n \in todo :
        /\ Following(n) /\ Count(blocks[n].text) > available
        /\ blocks[n].truncatable /\ available > 0
        /\ blocks' = [blocks EXCEPT ![n].text = TrimTo(@, available)]
        /\ kept' = kept \cup {n}
        /\ todo' = todo \ {n}
  BY DEF Cut
<1>2. /\ pc = "fit" /\ pc' = "fit" /\ available' = 0
      /\ UNCHANGED <<model, limits, request, sources, candidates, queue, retrieved>>
  BY DEF Cut, given
<1>3. /\ n \in DOMAIN blocks /\ n \notin ProtectedBlocks /\ n \notin kept /\ n \notin Seen
      /\ available \in Nat /\ kept \subseteq Seen
      /\ \A s \in Seen \cup {n}, m \in todo \ {n} : Later(m, s)
      /\ \A s \in Seen : Later(n, s) /\ ~Later(s, n)
      /\ ~Later(n, n)
  BY <1>1, <1>2, Looked
<1> USE DEF IInv
<1> DEFINE text == TrimTo(blocks[n].text, available)
<1>4. text \in Text /\ Prefix(text, blocks[n].whole)
  <2>1. blocks[n].text \in Text /\ blocks[n].whole \in Text
        /\ Prefix(blocks[n].text, blocks[n].whole)
    BY <1>3, BlockFields
  <2> QED
    BY <1>3, <2>1, TrimToPrefix
<1>5. blocks' = [blocks EXCEPT ![n].text = text]
  BY <1>1
<1> HIDE DEF text
<1>6. /\ blocks' \in Seq(SoundBlock) /\ DOMAIN blocks' = DOMAIN blocks
      /\ \A m \in DOMAIN blocks : m # n => blocks'[m] = blocks[m]
      /\ \A m \in DOMAIN blocks :
           blocks'[m].kind = blocks[m].kind /\ blocks'[m].priority = blocks[m].priority
  BY <1>1, <1>3, <1>4, <1>5, CutBlock
<1>7. /\ ProtectedBlocks' = ProtectedBlocks
      /\ \A m, s \in DOMAIN blocks : Later(m, s)' <=> Later(m, s)
  BY <1>6, SameOrder
<1>8. Seen' = Seen \cup {n} /\ Seen \subseteq DOMAIN blocks /\ todo \subseteq DOMAIN blocks
      /\ kept \subseteq DOMAIN blocks
  BY <1>1, <1>3, <1>6, <1>7 DEF Seen, TypeOK
<1>9. TypeOK'
  BY <1>1, <1>2, <1>3, <1>6, <1>8 DEF TypeOK
<1>10. Resolved' /\ Weighing' /\ Selected' /\ Placed'
  BY <1>2 DEF Resolved, Weighing, Selected, Placed
<1>11. Fitting'
  <2>1. /\ todo' \cap ProtectedBlocks' = {} /\ todo' \cap kept' = {}
        /\ kept' \cap ProtectedBlocks' = {}
    BY <1>1, <1>2, <1>3, <1>7 DEF Fitting
  <2>2. \A m \in todo' : blocks'[m].text = blocks'[m].whole
    <3>1. \A m \in todo : blocks[m].text = blocks[m].whole
      BY <1>2 DEF Fitting
    <3> QED
      BY <1>1, <1>6, <1>8, <3>1
  <2>3. \A s \in Seen', m \in todo' : Later(m, s)'
    BY <1>1, <1>3, <1>7, <1>8
  <2> QED
    BY <1>2, <2>1, <2>2, <2>3 DEF Fitting
\* While there was room nothing had been cut or left out for want of it.
<1>12. LowerPriorityGivesWay'
  <2> SUFFICES ASSUME NEW s \in Seen', blocks'[s].truncatable,
                      s \notin kept' \/ blocks'[s].text # blocks'[s].whole,
                      NEW m \in kept' \ ProtectedBlocks
               PROVE  ~Later(m, s)
    BY <1>1, <1>2, <1>3, <1>6, <1>7, <1>8 DEF LowerPriorityGivesWay, Seen
  <2>1. CASE s \in Seen
    <3>1. blocks'[s] = blocks[s] /\ (s \notin kept \/ blocks[s].text # blocks[s].whole)
      BY <1>1, <1>3, <1>6, <1>8, <2>1
    <3>2. available = 0
      BY <1>2, <2>1, <3>1 DEF Fitting
    <3> QED
      BY <1>1, <3>2
  <2>2. CASE s = n
    BY <1>1, <1>3, <2>2
  <2> QED
    BY <1>8, <2>1, <2>2
<1> QED
  BY <1>9, <1>10, <1>11, <1>12

\* A block is left out that may not be cut, or for which nothing is left.
LEMMA DropKeeps == IInv /\ Drop => IInv'
<1> SUFFICES ASSUME IInv, Drop
             PROVE  IInv'
  OBVIOUS
<1>1. PICK n \in todo : /\ Following(n) /\ Count(blocks[n].text) > available
                        /\ ~blocks[n].truncatable \/ available = 0
                        /\ todo' = todo \ {n}
  BY DEF Drop
<1>2. /\ pc = "fit" /\ pc' = "fit"
      /\ UNCHANGED <<model, limits, request, sources, candidates, queue, retrieved, blocks, kept,
                     available>>
  BY DEF Drop, given
<1>3. /\ n \in DOMAIN blocks /\ n \notin ProtectedBlocks /\ n \notin kept /\ n \notin Seen
      /\ kept \subseteq Seen
      /\ \A s \in Seen \cup {n}, m \in todo \ {n} : Later(m, s)
      /\ \A s \in Seen : Later(n, s) /\ ~Later(s, n)
  BY <1>1, <1>2, Looked
<1> USE DEF IInv
<1>4. /\ ProtectedBlocks' = ProtectedBlocks
      /\ \A m, s \in DOMAIN blocks : Later(m, s)' <=> Later(m, s)
  BY <1>2, SameOrder
<1>5. Seen' = Seen \cup {n} /\ Seen \subseteq DOMAIN blocks /\ todo \subseteq DOMAIN blocks
  BY <1>1, <1>2, <1>3, <1>4 DEF Seen, TypeOK
<1>6. TypeOK'
  BY <1>1, <1>2 DEF TypeOK
<1>7. Resolved' /\ Weighing' /\ Selected' /\ Placed'
  BY <1>2 DEF Resolved, Weighing, Selected, Placed
<1>8. Fitting'
  <2>1. /\ todo' \cap ProtectedBlocks' = {} /\ todo' \cap kept' = {}
        /\ kept' \cap ProtectedBlocks' = {}
        /\ \A m \in todo' : blocks[m].text = blocks[m].whole
    BY <1>1, <1>2, <1>4 DEF Fitting
  <2>2. \A s \in Seen', m \in todo' : Later(m, s)'
    BY <1>1, <1>3, <1>4, <1>5
  <2>3. \A s \in Seen' : blocks[s].truncatable /\ (s \notin kept \/ blocks[s].text # blocks[s].whole)
                         => available = 0
    BY <1>1, <1>2, <1>5 DEF Fitting
  <2> QED
    BY <1>2, <2>1, <2>2, <2>3 DEF Fitting
<1>9. LowerPriorityGivesWay'
  <2> SUFFICES ASSUME NEW s \in Seen', blocks[s].truncatable,
                      s \notin kept \/ blocks[s].text # blocks[s].whole,
                      NEW m \in kept \ ProtectedBlocks, blocks[m].text # <<>>
               PROVE  ~Later(m, s)
    BY <1>2, <1>4, <1>5, <1>3 DEF LowerPriorityGivesWay, Seen, TypeOK
  <2>1. CASE s \in Seen
    BY <1>2, <2>1 DEF LowerPriorityGivesWay, Seen
  <2>2. CASE s = n
    BY <1>3, <2>2
  <2> QED
    BY <1>5, <2>1, <2>2
<1> QED
  BY <1>6, <1>7, <1>8, <1>9

\* The last check of the fit.
LEMMA FinishKeeps == IInv /\ Finish => IInv'
<1> SUFFICES ASSUME IInv, Finish
             PROVE  IInv'
  OBVIOUS
<1> USE DEF IInv
<1>1. /\ pc = "fit" /\ todo = {} /\ kept' = kept \cup ProtectedBlocks
      /\ pc' = IF Tokens(kept') <= Budget THEN "done" ELSE "failed"
      /\ UNCHANGED <<model, limits, request, sources, candidates, queue, retrieved, blocks, todo,
                     available>>
  BY DEF Finish, given
<1>2. pc' \in {"done", "failed"} /\ (pc' = "done" => Tokens(kept') <= Budget)
  BY <1>1
<1>3. /\ ProtectedBlocks' = ProtectedBlocks
      /\ \A m, s \in DOMAIN blocks : Later(m, s)' <=> Later(m, s)
  BY <1>1, SameOrder
<1>4. Budget' = Budget /\ Tokens(kept)' = Tokens(kept')
  BY <1>1 DEF Budget, Tokens
<1>5. TypeOK'
  BY <1>1, <1>2 DEF TypeOK, ProtectedBlocks
<1>6. Resolved' /\ Weighing' /\ Selected' /\ Placed'
  BY <1>1, <1>2 DEF Resolved, Weighing, Selected, Placed
<1>7. Fitting'
  BY <1>1, <1>2, <1>3, <1>4 DEF Fitting
<1>8. LowerPriorityGivesWay'
  <2> SUFFICES ASSUME NEW s \in Seen, blocks[s].truncatable,
                      s \notin kept' \/ blocks[s].text # blocks[s].whole,
                      NEW m \in kept' \ ProtectedBlocks, blocks[m].text # <<>>
               PROVE  ~Later(m, s)
    BY <1>1, <1>2, <1>3, <1>5 DEF LowerPriorityGivesWay, Seen, TypeOK
  <2>1. m \in kept \ ProtectedBlocks /\ (s \notin kept \/ blocks[s].text # blocks[s].whole)
    BY <1>1
  <2> QED
    BY <1>1, <2>1 DEF LowerPriorityGivesWay, Seen
<1> QED
  BY <1>5, <1>6, <1>7, <1>8

LEMMA UnchangedKeeps == IInv /\ UNCHANGED vars => IInv'
<1> SUFFICES ASSUME IInv, UNCHANGED vars
             PROVE  IInv'
  OBVIOUS
<1>1. UNCHANGED <<pc, model, limits, request, sources, candidates, queue, retrieved, blocks, todo,
                  kept, available>>
  BY DEF vars
<1>2. TypeOK' /\ Resolved'
  BY <1>1 DEF IInv, TypeOK, Resolved
<1>3. Selected'
  BY <1>1 DEF IInv, Selected, AuthorFirst, EntryBudget
<1>4. Weighing'
  BY <1>1 DEF IInv, Weighing, Weighed, Before
<1>5. Placed'
  BY <1>1 DEF IInv, Placed, RenderedTexts, EntryBudget
<1>6. /\ ProtectedBlocks' = ProtectedBlocks /\ Seen' = Seen
      /\ \A m, s : Later(m, s)' <=> Later(m, s)
  BY <1>1 DEF ProtectedBlocks, Protected, Seen, Later
<1>7. Budget' = Budget /\ Tokens(kept)' = Tokens(kept)
  BY <1>1 DEF Budget, Tokens
<1>8. Fitting'
  BY <1>1, <1>6, <1>7 DEF IInv, Fitting
<1>9. LowerPriorityGivesWay'
  BY <1>1, <1>6 DEF IInv, LowerPriorityGivesWay
<1> QED
  BY <1>2, <1>3, <1>4, <1>5, <1>8, <1>9 DEF IInv

\* Every step of an assembly keeps the inductive invariant.
LEMMA Invariance == Spec => []IInv
<1>1. Init => IInv
  BY Initially
<1>2. IInv /\ [Next]_vars => IInv'
  BY ResolveKeeps, RankCandidatesKeeps, SelectEntryKeeps, OrderStoryKeeps, RenderEntryKeeps,
     CollectKeeps, OrderKeeps, ReserveKeeps, TrimProtectedKeeps, IncludeKeeps, CutKeeps, DropKeeps,
     FinishKeeps, UnchangedKeeps
     DEF Next, Done
<1> QED
  BY <1>1, <1>2, PTL DEF Spec

-----------------------------------------------------------------------------
(* What holds of every assembly *)

\* Every variable keeps its type: what is selected and placed are candidates of
\* the request, and every block of the prompt is sound.
THEOREM TypeCorrect == Spec => []TypeOK
<1>1. IInv => TypeOK
  BY DEF IInv
<1> QED
  BY <1>1, Invariance, PTL

\* select_entries() and assemble_entry_context() stay within the limit and the
\* knowledge slice, and what they turn away really had no place.
THEOREM SelectionMaximal == Spec => []SelectionIsMaximal
<1>1. IInv => SelectionIsMaximal
  <2> SUFFICES ASSUME IInv, pc = "order"
               PROVE  SelectionIsMaximal
    BY DEF SelectionIsMaximal
  <2>1. /\ Len(retrieved.items) <= request.limit
        /\ retrieved.used = TextTokens(retrieved.items) /\ retrieved.used <= EntryBudget
        /\ retrieved.limit # <<>> => Len(retrieved.items) = request.limit
        /\ \A e \in Range(retrieved.budget) : retrieved.used + Count(e.text) > EntryBudget
    BY DEF IInv, Selected
  <2>2. /\ retrieved.rendered = TextTokens(RenderedTexts) /\ retrieved.rendered <= EntryBudget
        /\ \A e \in Range(retrieved.items) :
             \/ e \in Range(retrieved.context)
             \/ retrieved.rendered + Count(Rendered(e)) > EntryBudget
    BY NoTokens DEF IInv, Placed
  <2> QED
    BY <2>1, <2>2 DEF SelectionIsMaximal, RenderedTexts
<1> QED
  BY <1>1, Invariance, PTL

\* The author's entries are preferred to comparable extracted ones
\* (_authority_factor(), and the loop of select_entries() that skips what does
\* not fit).
THEOREM AuthorPreferred == Spec => []AuthorBeforeExtraction
<1>1. IInv => AuthorBeforeExtraction
  BY DEF IInv, Selected, AuthorFirst, AuthorBeforeExtraction
<1> QED
  BY <1>1, Invariance, PTL

\* A prompt that is sent holds every protected block, canon and system text
\* whole, and of any other block a beginning (BudgetManager.fit).
THEOREM CanonStaysWhole == Spec => []CanonWhole
<1>1. IInv => CanonWhole
  <2> SUFFICES ASSUME IInv, pc = "done"
               PROVE  CanonWhole
    BY DEF CanonWhole
  <2>1. ProtectedBlocks \subseteq kept /\ kept \subseteq DOMAIN blocks
    BY DEF IInv, Fitting, TypeOK
  <2>2. ASSUME NEW n \in kept
        PROVE  /\ blocks[n].kind \in {"system", "entry"} => blocks[n].text = blocks[n].whole
               /\ Prefix(blocks[n].text, blocks[n].whole)
    <3>1. blocks[n] \in SoundBlock
      BY <2>1, BlockFields DEF IInv
    <3> QED
      BY <3>1 DEF SoundBlock
  <2> QED
    BY <2>1, <2>2 DEF CanonWhole
<1> QED
  BY <1>1, Invariance, PTL

\* A block that could be cut and is cut or left out has taken all that was left
\* (BudgetManager.fit).
THEOREM PriorityRespected == Spec => []LowerPriorityGivesWay
<1>1. IInv => LowerPriorityGivesWay
  BY DEF IInv
<1> QED
  BY <1>1, Invariance, PTL

\* Property 7: prompt, completion and margin fit the window the model has today.
THEOREM FitsWindow == Spec => []WithinWindow
<1>1. IInv => WithinWindow
  <2> SUFFICES ASSUME IInv, pc = "done"
               PROVE  WithinWindow
    BY DEF WithinWindow
  <2> DEFINE margin == limits.window * model.capability.safety
             used == Tokens(kept)
  <2>1. /\ model.config.window > 0 => limits.window <= model.config.window
        /\ model.capability.window > 0 => limits.window <= model.capability.window
        /\ model.capability.output > 0 => limits.tokens <= model.capability.output
    BY DEF IInv, Resolved
  <2>2. /\ limits.window \in Nat /\ limits.tokens \in Nat /\ model.capability.safety \in Nat
        /\ used \in Nat
    BY Given, TokensType DEF IInv, TypeOK
  <2>3. margin \in Nat /\ margin = model.capability.safety * limits.window
    BY <2>2
  <2>4. used <= limits.window - limits.tokens - ((margin + 99) \div 100)
    BY DEF IInv, Fitting, Budget
  <2> HIDE DEF margin, used
  <2>5. 100 * ((margin + 99) \div 100) >= margin
    BY <2>3
  <2>6. (margin + 99) \div 100 \in Nat
    BY <2>3
  <2>7. 100 * (limits.window - limits.tokens - used) >= margin
    BY <2>2, <2>3, <2>4, <2>5, <2>6
  <2> QED
    BY <2>1, <2>3, <2>7 DEF WithinWindow, used
<1> QED
  BY <1>1, Invariance, PTL

=============================================================================
