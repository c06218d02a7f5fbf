-------------------------- MODULE StoryOrderProofs --------------------------
(***************************************************************************)
(* Theorems about StoryOrder for any number of chapters, editing requests  *)
(* and entries.                                                            *)
(***************************************************************************)
EXTENDS StoryOrder, NaturalLemmas, FiniteSetTheorems

Indexes == [Chapters -> Nat]

Snapshot == [index : Indexes, legacy : [Chapters -> BOOLEAN]]

Edit == [pc : {"new", "read", "ok", "failed"}, op : {"none", "create", "reorder"},
         ids : Lists, read : Indexes, top : Nat]

\* What a continuation is told: the index and the chapter of a summary field,
\* or those of an entry and its place among the candidates.
Told == (Nat \X Chapters) \cup (Nat \X Chapters \X Nat)

Gen == [pc : {"new", "priors", "retrieve", "ready", "conflict", "invalid"},
        target : Chapters, snap : Snapshot, priors : Seq(Told), context : Seq(Told)]

TypeOK ==
    /\ index \in Indexes /\ legacy \in [Chapters -> BOOLEAN]
    /\ edit \in [Edits -> Edit] /\ gen \in Gen

Fields == {<<View.index[c], c>> : c \in PriorLegacy}

Entries(found, kept) == {<<View.index[found[n]], found[n], n>> : n \in kept}

\* The context is the legacy fields and some eligible entries, all of the one
\* snapshot, and nothing went wrong on the way.
GenSane ==
    /\ gen.pc \notin {"conflict", "invalid"}
    /\ gen.pc = "retrieve" => gen.priors \in InStoryOrder(Fields)
    /\ \/ gen.context = <<>>
       \/ /\ gen.pc = "ready"
          /\ \E found \in Candidates : \E kept \in SUBSET Eligible(found) :
               gen.context \in InStoryOrder(Fields \cup Entries(found, kept))

IInv == TypeOK /\ GenSane

-----------------------------------------------------------------------------
(* The continuation *)

\* A list of a finite set of told things is a sequence of them.
LEMMA ListType ==
  ASSUME NEW S, IsFiniteSet(S), S \subseteq Told, NEW s \in InStoryOrder(S)
  PROVE  /\ s \in Seq(Told) /\ Range(s) = S /\ IsInjective(s)
         /\ \A n \in DOMAIN s : s[n] \in S
         /\ \A n \in DOMAIN s : \A m \in 1 .. (n - 1) : s[m][1] <= s[n][1]
<1>1. Cardinality(S) \in Nat
  BY FS_CardinalityType
<1>2. /\ s \in [1 .. Cardinality(S) -> S] /\ Range(s) = S /\ IsInjective(s)
      /\ \A n \in DOMAIN s : \A m \in 1 .. (n - 1) : s[m][1] <= s[n][1]
  BY DEF InStoryOrder
<1>3. s \in Seq(S)
  BY <1>1, <1>2
<1> QED
  BY <1>2, <1>3

\* The fields of the chapters before the target.
LEMMA FieldsAre ==
  ASSUME TypeOK
  PROVE  /\ IsFiniteSet(Fields) /\ Fields \subseteq Told
         /\ \A p \in Fields : \E c \in PriorLegacy : p = <<gen.snap.index[c], c>>
<1>1. gen.snap \in Snapshot /\ gen.snap.index \in Indexes
  BY DEF TypeOK, Gen, Snapshot
<1>2. PriorLegacy \subseteq Chapters
  BY DEF PriorLegacy, Existing
<1>3. IsFiniteSet(PriorLegacy)
  <2>1. IsFiniteSet(Chapters)
    BY StoryOrderAssumption, FS_Interval DEF Chapters
  <2> QED
    BY <1>2, <2>1, FS_Subset
<1>4. Fields = {<<View.index[c], c>> : c \in PriorLegacy}
  BY DEF Fields
<1>5. IsFiniteSet(Fields)
  <2> DEFINE f == [c \in PriorLegacy |-> <<View.index[c], c>>]
  <2>1. Fields = {f[c] : c \in PriorLegacy}
    BY <1>4
  <2> HIDE DEF f
  <2> QED
    BY <1>3, <2>1, ImageFinite
<1>6. ASSUME NEW c \in PriorLegacy
      PROVE  <<View.index[c], c>> \in Nat \X Chapters
  BY <1>1, <1>2 DEF View, Indexes
<1> QED
  BY <1>4, <1>5, <1>6 DEF Told, View

\* The entries a retrieval keeps are of chapters before the target, none twice,
\* and none of a chapter with a field.
LEMMA EntriesAre ==
  ASSUME TypeOK, NEW found \in Candidates, NEW kept \in SUBSET Eligible(found)
  PROVE  /\ IsFiniteSet(Entries(found, kept)) /\ Entries(found, kept) \subseteq Told
         /\ \A n \in kept : /\ n \in DOMAIN found /\ found[n] \in Chapters
                           /\ gen.snap.index[found[n]] \in 1 .. (Target - 1)
                           /\ found[n] # gen.target
                           /\ found[n] \notin PriorLegacy
         /\ \A m, n \in kept : found[m] = found[n] => m = n
         /\ \A p \in Entries(found, kept) : \E n \in kept :
              p = <<gen.snap.index[found[n]], found[n], n>>
<1>1. PICK k \in 0 .. MaxEntries : found \in [1 .. k -> Chapters]
  BY DEF Candidates
<1>2. k \in Nat /\ \A n \in 1 .. k : found[n] \in Chapters
  BY <1>1, StoryOrderAssumption
<1>3. gen.snap \in Snapshot /\ gen.snap.index \in Indexes /\ gen.target \in Chapters
  BY DEF TypeOK, Gen, Snapshot
<1>4. kept \subseteq 1 .. k
  BY <1>1 DEF Eligible
<1>5. ASSUME NEW n \in kept
      PROVE  /\ found[n] \in Chapters /\ n \in DOMAIN found
             /\ Classify(found[n]) = "prior"
             /\ ~Duplicated(found, n) /\ ~View.legacy[found[n]]
  BY <1>1, <1>2, <1>4 DEF Eligible
<1>6. ASSUME NEW c \in Chapters, Classify(c) = "prior"
      PROVE  gen.snap.index[c] \in 1 .. (Target - 1) /\ c # gen.target
  <2>1. gen.snap.index[c] \in Nat /\ Target \in Nat
    BY <1>3 DEF Target, Indexes
  <2>2. gen.snap.index[c] # 0 /\ Position(c) = "prior"
    BY <1>6 DEF Classify, View
  <2>3. c # gen.target /\ gen.snap.index[c] < Target
    BY <2>1, <2>2 DEF Position, View
  <2> QED
    BY <2>1, <2>2, <2>3
<1>7. ASSUME NEW n \in kept
      PROVE  /\ gen.snap.index[found[n]] \in 1 .. (Target - 1)
             /\ found[n] # gen.target /\ found[n] \notin PriorLegacy
  BY <1>5, <1>6 DEF PriorLegacy
<1>8. ASSUME NEW m \in kept, NEW n \in kept, found[m] = found[n]
      PROVE  m = n
  <2>1. m \in DOMAIN found /\ ~Duplicated(found, n)
    BY <1>5
  <2>2. Classify(found[m]) = "prior"
    BY <1>5
  <2> QED
    BY <1>8, <2>1, <2>2 DEF Duplicated
<1>9. IsFiniteSet(Entries(found, kept))
  <2> DEFINE f == [n \in kept |-> <<View.index[found[n]], found[n], n>>]
  <2>1. Entries(found, kept) = {f[n] : n \in kept}
    BY DEF Entries
  <2>2. IsFiniteSet(kept)
    <3>1. IsFiniteSet(1 .. k)
      BY <1>2, FS_Interval
    <3> QED
      BY <1>4, <3>1, FS_Subset
  <2> HIDE DEF f
  <2> QED
    BY <2>1, <2>2, ImageFinite
<1>10. ASSUME NEW n \in kept
       PROVE  <<View.index[found[n]], found[n], n>> \in Nat \X Chapters \X Nat
  BY <1>2, <1>3, <1>4, <1>5 DEF View, Indexes
<1> QED
  BY <1>5, <1>7, <1>8, <1>9, <1>10 DEF Entries, Told, View

\* What is told: the fields and the entries, in order.
LEMMA ContextIs ==
  ASSUME TypeOK, NEW found \in Candidates, NEW kept \in SUBSET Eligible(found),
         NEW s \in InStoryOrder(Fields \cup Entries(found, kept))
  PROVE  /\ s \in Seq(Told)
         /\ \A n \in DOMAIN s :
              /\ s[n][2] \in Chapters /\ s[n][2] # gen.target
              /\ s[n][1] = gen.snap.index[s[n][2]] /\ s[n][1] \in 1 .. (Target - 1)
              /\ \A m \in 1 .. (n - 1) : s[m][1] <= s[n][1]
         /\ \A m, n \in DOMAIN s : s[m][2] = s[n][2] => m = n
<1> DEFINE E == Entries(found, kept)
<1>1. /\ IsFiniteSet(Fields) /\ Fields \subseteq Told
      /\ \A p \in Fields : \E c \in PriorLegacy : p = <<gen.snap.index[c], c>>
  BY FieldsAre
<1>2. /\ IsFiniteSet(E) /\ E \subseteq Told
      /\ \A p \in E : \E n \in kept : p = <<gen.snap.index[found[n]], found[n], n>>
  BY EntriesAre
<1>3. /\ \A n \in kept : /\ found[n] \in Chapters /\ found[n] # gen.target
                         /\ gen.snap.index[found[n]] \in 1 .. (Target - 1)
                         /\ found[n] \notin PriorLegacy
      /\ \A m, n \in kept : found[m] = found[n] => m = n
  BY EntriesAre
<1>4. \A c \in PriorLegacy : /\ c \in Chapters /\ c # gen.target
                             /\ gen.snap.index[c] \in 1 .. (Target - 1)
  <2>1. gen.snap.index \in Indexes /\ gen.target \in Chapters /\ Target \in Nat
    BY DEF TypeOK, Gen, Snapshot, Target, Indexes
  <2>2. ASSUME NEW c \in PriorLegacy
        PROVE  /\ c \in Chapters /\ gen.snap.index[c] # 0 /\ gen.snap.index[c] < Target
    BY DEF PriorLegacy, Existing, View
  <2>3. \A c \in PriorLegacy : gen.snap.index[c] \in Nat
    BY <2>1, <2>2 DEF Indexes
  <2>4. \A c \in PriorLegacy : c # gen.target
    BY <2>1, <2>2 DEF Target
  <2> QED
    BY <2>1, <2>2, <2>3, <2>4
<1> HIDE DEF E
<1>5. IsFiniteSet(Fields \cup E)
  BY <1>1, <1>2, FS_Union
<1>6. /\ s \in Seq(Told) /\ IsInjective(s) /\ \A n \in DOMAIN s : s[n] \in Fields \cup E
      /\ \A n \in DOMAIN s : \A m \in 1 .. (n - 1) : s[m][1] <= s[n][1]
  <2>1. s \in InStoryOrder(Fields \cup E)
    BY DEF E
  <2> QED
    BY <1>1, <1>2, <1>5, <2>1, ListType
<1>7. ASSUME NEW p \in Fields
      PROVE  /\ p[2] \in PriorLegacy /\ p = <<p[1], p[2]>>
             /\ p[1] = gen.snap.index[p[2]]
  BY <1>1
<1>8. ASSUME NEW p \in E
      PROVE  \E n \in kept : /\ p = <<gen.snap.index[found[n]], found[n], n>>
                            /\ p[2] = found[n] /\ p[1] = gen.snap.index[p[2]]
  BY <1>2
<1>9. ASSUME NEW p \in Fields \cup E
      PROVE  /\ p[2] \in Chapters /\ p[2] # gen.target
             /\ p[1] = gen.snap.index[p[2]] /\ p[1] \in 1 .. (Target - 1)
  <2>1. CASE p \in Fields
    BY <1>4, <1>7, <2>1
  <2>2. CASE p \in E
    BY <1>3, <1>8, <2>2
  <2> QED
    BY <2>1, <2>2
<1>10. ASSUME NEW p \in Fields \cup E, NEW q \in Fields \cup E, p[2] = q[2]
       PROVE  p = q
  <2>1. CASE p \in Fields /\ q \in Fields
    BY <1>7, <1>10, <2>1
  <2>2. CASE p \in E /\ q \in E
    BY <1>3, <1>8, <1>10, <2>2
  <2>3. \A x \in Fields : \A y \in E : x[2] # y[2]
    BY <1>3, <1>7, <1>8
  <2> QED
    BY <1>10, <2>1, <2>2, <2>3
<1>11. \A m, n \in DOMAIN s : s[m][2] = s[n][2] => m = n
  BY <1>6, <1>10 DEF IsInjective
<1> QED
  BY <1>6, <1>9, <1>11

\* What a continuation saw does not change.
LEMMA SnapshotKept ==
  ASSUME gen'.snap = gen.snap, gen'.target = gen.target
  PROVE  /\ Fields' = Fields /\ Target' = Target
         /\ \A found : Eligible(found)' = Eligible(found)
         /\ \A found, kept : Entries(found, kept)' = Entries(found, kept)
<1>1. View' = View /\ Target' = Target
  BY DEF View, Target
<1>2. PriorLegacy' = PriorLegacy
  BY <1>1 DEF PriorLegacy
<1>3. Fields' = Fields
  BY <1>1, <1>2 DEF Fields
<1>4. \A c : Classify(c)' = Classify(c)
  BY <1>1 DEF Classify, Position
<1>5. \A found, n : Duplicated(found, n)' <=> Duplicated(found, n)
  BY <1>4 DEF Duplicated
<1>6. \A found : Eligible(found)' = Eligible(found)
  BY <1>1, <1>4, <1>5 DEF Eligible
<1>7. \A found, kept : Entries(found, kept)' = Entries(found, kept)
  BY <1>1 DEF Entries
<1> QED
  BY <1>1, <1>3, <1>6, <1>7

\* The evidence that was read agrees with the snapshot when it is checked again.
LEMMA NeverDrifts ==
  ASSUME TypeOK, gen.priors \in InStoryOrder(Fields)
  PROVE  ~Drifted /\ Range(gen.priors) = Fields
<1>1. IsFiniteSet(Fields) /\ Fields \subseteq Told
  BY FieldsAre
<1>2. Range(gen.priors) = Fields
  BY <1>1, ListType
<1>3. {gen.priors[n][2] : n \in DOMAIN gen.priors} = PriorLegacy
  <2>1. ASSUME NEW n \in DOMAIN gen.priors
        PROVE  gen.priors[n][2] \in PriorLegacy
    <3>1. gen.priors[n] \in Fields
      BY <1>2 DEF Range
    <3> QED
      BY <3>1 DEF Fields
  <2>2. ASSUME NEW c \in PriorLegacy
        PROVE  \E n \in DOMAIN gen.priors : gen.priors[n][2] = c
    <3>1. <<View.index[c], c>> \in Range(gen.priors)
      BY <1>2 DEF Fields
    <3> QED
      BY <3>1 DEF Range
  <2> QED
    BY <2>1, <2>2
<1> QED
  BY <1>2, <1>3 DEF Drifted, Target, View

LEMMA BeginKeeps ==
  ASSUME IInv, Begin
  PROVE  IInv'
<1>1. /\ TypeOK /\ GenSane /\ gen \in Gen /\ gen.pc = "new"
      /\ UNCHANGED <<index, legacy, edit>>
  BY DEF IInv, TypeOK, Begin
<1>2. PICK t \in Chapters : gen' = [gen EXCEPT !.pc = "priors", !.target = t, !.snap = Order]
  BY DEF Begin, Existing
<1>3. Order \in Snapshot
  BY <1>1 DEF TypeOK, Order, Snapshot
<1>4. gen' \in Gen /\ gen'.pc = "priors" /\ gen'.context = gen.context
  BY <1>1, <1>2, <1>3 DEF Gen
<1>5. GenSane'
  <2>1. gen.context = <<>>
    BY <1>1 DEF GenSane
  <2> QED
    BY <1>4, <2>1 DEF GenSane
<1> QED
  BY <1>1, <1>4, <1>5 DEF IInv, TypeOK

LEMMA ReadPriorsKeeps ==
  ASSUME IInv, ReadPriors
  PROVE  IInv'
<1>1. /\ TypeOK /\ GenSane /\ gen \in Gen /\ gen.pc = "priors"
      /\ UNCHANGED <<index, legacy, edit>>
  BY DEF IInv, TypeOK, ReadPriors
<1>2. PICK priors \in InStoryOrder(Fields) :
         gen' = [gen EXCEPT !.pc = "retrieve", !.priors = priors]
  BY DEF ReadPriors, Fields
<1>3. priors \in Seq(Told)
  BY <1>1, FieldsAre, ListType
<1>4. /\ gen' \in Gen /\ gen'.pc = "retrieve" /\ gen'.context = gen.context
      /\ gen'.snap = gen.snap /\ gen'.target = gen.target /\ gen'.priors = priors
  BY <1>1, <1>2, <1>3 DEF Gen
<1>5. GenSane'
  <2>1. gen.context = <<>>
    BY <1>1 DEF GenSane
  <2>2. Fields' = Fields
    BY <1>4, SnapshotKept
  <2> QED
    BY <1>4, <2>1, <2>2 DEF GenSane
<1> QED
  BY <1>1, <1>4, <1>5 DEF IInv, TypeOK

LEMMA RetrieveKeeps ==
  ASSUME IInv, NEW on \in BOOLEAN, Retrieve(on)
  PROVE  IInv'
<1>1. /\ TypeOK /\ GenSane /\ gen \in Gen /\ gen.pc = "retrieve"
      /\ UNCHANGED <<index, legacy, edit>> /\ gen.priors \in InStoryOrder(Fields)
  BY DEF IInv, TypeOK, GenSane, Retrieve
<1>2. ~Drifted /\ Range(gen.priors) = Fields
  BY <1>1, NeverDrifts
<1>3. <<>> \in Candidates
  <2>1. 0 \in 0 .. MaxEntries /\ <<>> \in [1 .. 0 -> Chapters]
    BY StoryOrderAssumption
  <2> QED
    BY <2>1 DEF Candidates
<1>4. PICK found \in IF on THEN Candidates ELSE {<<>>} : \E kept \in SUBSET Eligible(found) :
        \E context \in InStoryOrder(Range(gen.priors) \cup Entries(found, kept)) :
          gen' = [gen EXCEPT
                 !.pc = IF on /\ Drifted THEN "conflict"
                        ELSE IF Prepared(context) THEN "ready" ELSE "invalid",
                 !.context = IF on /\ Drifted THEN <<>> ELSE context]
  BY Zenon DEF Retrieve, Entries
<1>13. found \in Candidates
  BY <1>3, <1>4
<1>11. PICK kept \in SUBSET Eligible(found) :
        \E context \in InStoryOrder(Range(gen.priors) \cup Entries(found, kept)) :
          gen' = [gen EXCEPT
                 !.pc = IF on /\ Drifted THEN "conflict"
                        ELSE IF Prepared(context) THEN "ready" ELSE "invalid",
                 !.context = IF on /\ Drifted THEN <<>> ELSE context]
  BY <1>4
<1>12. PICK context \in InStoryOrder(Fields \cup Entries(found, kept)) :
         gen' = [gen EXCEPT !.pc = IF Prepared(context) THEN "ready" ELSE "invalid",
                            !.context = context]
  <2>1. PICK context \in InStoryOrder(Range(gen.priors) \cup Entries(found, kept)) :
          gen' = [gen EXCEPT
                 !.pc = IF on /\ Drifted THEN "conflict"
                        ELSE IF Prepared(context) THEN "ready" ELSE "invalid",
                 !.context = IF on /\ Drifted THEN <<>> ELSE context]
    BY <1>11
  <2>2. context \in InStoryOrder(Fields \cup Entries(found, kept))
    BY <1>2, <2>1
  <2>3. /\ (IF on /\ Drifted THEN "conflict"
            ELSE IF Prepared(context) THEN "ready" ELSE "invalid")
           = IF Prepared(context) THEN "ready" ELSE "invalid"
        /\ (IF on /\ Drifted THEN <<>> ELSE context) = context
    BY <1>2
  <2> QED
    BY <2>1, <2>2, <2>3, Zenon
<1>5. /\ context \in Seq(Told)
      /\ \A n \in DOMAIN context :
           /\ context[n][2] # gen.target /\ context[n][1] \in 1 .. (Target - 1)
  BY <1>1, <1>13, ContextIs
<1>6. Prepared(context)
  <2>1. Target \in Nat
    BY <1>1 DEF TypeOK, Gen, Snapshot, Indexes, Target
  <2> QED
    BY <1>5, <2>1 DEF Prepared
<1>7. gen' = [gen EXCEPT !.pc = "ready", !.context = context]
  BY <1>6, <1>12
<1>8. /\ gen' \in Gen /\ gen'.pc = "ready" /\ gen'.context = context
      /\ gen'.snap = gen.snap /\ gen'.target = gen.target
  BY <1>1, <1>5, <1>7 DEF Gen
<1>9. /\ Fields' = Fields /\ Eligible(found)' = Eligible(found)
      /\ Entries(found, kept)' = Entries(found, kept)
  BY <1>8, SnapshotKept
<1>10. GenSane'
  BY <1>8, <1>9, <1>13 DEF GenSane
<1> QED
  BY <1>1, <1>8, <1>10 DEF IInv, TypeOK

-----------------------------------------------------------------------------
(* The editors *)

\* A finite function to naturals has an upper bound: by induction over its
\* first n arguments.
LEMMA Bounded ==
  ASSUME NEW ix \in Indexes
  PROVE  \E b \in Nat : \A c \in Chapters : ix[c] <= b
<1> DEFINE S == {n \in Nat : \E b \in Nat : \A c \in Chapters : c <= n => ix[c] <= b}
<1>1. 0 \in S
  <2>1. \A c \in Chapters : ~(c <= 0)
    BY DEF Chapters
  <2> QED
    BY <2>1
<1>2. ASSUME NEW n \in Nat, n \in S
      PROVE  n + 1 \in S
  <2>1. PICK b \in Nat : \A c \in Chapters : c <= n => ix[c] <= b
    BY <1>2
  <2>2. \A c \in Chapters : c \in Nat /\ ix[c] \in Nat
    BY StoryOrderAssumption DEF Chapters, Indexes
  <2>3. CASE n + 1 \in Chapters
    <3>1. b + ix[n + 1] \in Nat
      BY <2>2, <2>3
    <3>2. \A c \in Chapters : c <= n + 1 => ix[c] <= b + ix[n + 1]
      <4> SUFFICES ASSUME NEW c \in Chapters, c <= n + 1
                   PROVE  ix[c] <= b + ix[n + 1]
        OBVIOUS
      <4>1. CASE c = n + 1
        BY <2>2, <2>3, <4>1
      <4>2. CASE c <= n
        <5>1. ix[c] <= b /\ ix[c] \in Nat /\ ix[n + 1] \in Nat
          BY <2>1, <2>2, <2>3, <4>2
        <5> QED
          BY <5>1
      <4> QED
        BY <2>2, <4>1, <4>2
    <3> QED
      BY <3>1, <3>2
  <2>4. CASE n + 1 \notin Chapters
    <3>1. \A c \in Chapters : c <= n + 1 => c <= n
      BY <2>2, <2>4
    <3> QED
      BY <2>1, <3>1
  <2> QED
    BY <2>3, <2>4
<1> HIDE DEF S
<1>3. NumChapters \in S
  <2>1. Nat \subseteq S
    BY <1>1, <1>2, Induction
  <2> QED
    BY <2>1, StoryOrderAssumption
<1>4. PICK b \in Nat : \A c \in Chapters : c <= NumChapters => ix[c] <= b
  BY <1>3 DEF S
<1>5. \A c \in Chapters : c <= NumChapters
  BY StoryOrderAssumption DEF Chapters
<1> QED
  BY <1>4, <1>5

\* _next_index() reads the highest index there is.
LEMMA TopIs ==
  ASSUME NEW ix \in Indexes
  PROVE  Top(ix) \in Nat /\ \A c \in Chapters : ix[c] <= Top(ix)
<1> DEFINE S == {ix[c] : c \in Chapters}
<1>1. PICK b \in Nat : \A c \in Chapters : ix[c] <= b
  BY Bounded
<1>2. S \in SUBSET Nat /\ \A m \in S : m <= b
  BY <1>1 DEF Indexes
<1>3. S # {}
  BY StoryOrderAssumption DEF Chapters
<1>4. \E n \in S : \A m \in S : m <= n
  BY <1>2, <1>3, GreatestNatural
<1>5. \A c \in Chapters : ix[c] \in S /\ ix[c] \in Nat
  BY <1>2
<1>6. CASE Existing(ix) = {}
  BY <1>5, <1>6 DEF Top, Existing
<1>7. CASE Existing(ix) # {}
  <2>1. \E n \in S : \A c \in Chapters : ix[c] <= n
    BY <1>4, <1>5
  <2>2. Top(ix) = CHOOSE n \in S : \A c \in Chapters : ix[c] <= n
    BY <1>7 DEF Top
  <2> HIDE DEF S
  <2>3. Top(ix) \in S /\ \A c \in Chapters : ix[c] <= Top(ix)
    BY <2>1, <2>2
  <2> QED
    BY <1>2, <2>3
<1> QED
  BY <1>6, <1>7

\* An editing request moves; the continuation does not notice.
LEMMA EditKeeps ==
  ASSUME IInv, NEW e \in Edits, NEW x \in Edit, edit' = [edit EXCEPT ![e] = x],
         index' \in Indexes, legacy' \in [Chapters -> BOOLEAN], UNCHANGED gen
  PROVE  IInv'
<1>1. TypeOK'
  BY DEF IInv, TypeOK
<1>2. gen'.snap = gen.snap /\ gen'.target = gen.target
  OBVIOUS
<1>3. /\ Fields' = Fields /\ \A found : Eligible(found)' = Eligible(found)
      /\ \A found, kept : Entries(found, kept)' = Entries(found, kept)
  BY <1>2, SnapshotKept
<1>4. GenSane'
  BY <1>3 DEF IInv, GenSane
<1> QED
  BY <1>1, <1>4 DEF IInv

LEMMA ListsHaveEmpty == <<>> \in Lists
<1>1. 0 \in 0 .. NumChapters /\ <<>> \in [1 .. 0 -> Chapters]
  BY StoryOrderAssumption
<1> QED
  BY <1>1 DEF Lists

LEMMA IdleIs == Idle \in Edit
BY ListsHaveEmpty DEF Idle, Edit, Indexes

\* A request that ends changes no more than its own record.
LEMMA EndKeeps ==
  ASSUME IInv, NEW e \in Edits, NEW result \in {"ok", "failed"}, End(e, result),
         index' \in Indexes, legacy' \in [Chapters -> BOOLEAN], UNCHANGED gen
  PROVE  IInv'
<1> DEFINE x == [Idle EXCEPT !.pc = result]
<1>1. x \in Edit
  BY IdleIs DEF Edit
<1>2. edit' = [edit EXCEPT ![e] = x]
  BY DEF End
<1> HIDE DEF x
<1> QED
  BY <1>1, <1>2, EditKeeps

\* A chapter has one of the positions of a list, or 0.
LEMMA PlaceIs ==
  ASSUME NEW ids \in Lists, NEW c
  PROVE  Place(ids, c) = 0 \/ Place(ids, c) \in 1 .. NumChapters
<1> DEFINE S == {n \in DOMAIN ids : ids[n] = c}
<1>1. PICK k \in 0 .. NumChapters : ids \in [1 .. k -> Chapters]
  BY DEF Lists
<1>2. k \in Nat /\ DOMAIN ids = 1 .. k /\ Len(ids) = k
  BY <1>1, StoryOrderAssumption
<1>3. CASE \A n \in DOMAIN ids : ids[n] # c
  BY <1>3 DEF Place
<1>4. CASE ~(\A n \in DOMAIN ids : ids[n] # c)
  <2>1. S \in SUBSET Nat /\ S # {} /\ \A n \in S : n <= k
    BY <1>2, <1>4
  <2> HIDE DEF S
  <2>2. PICK n \in S : \A m \in S : m <= n
    BY <1>2, <2>1, GreatestNatural
  <2>3. n \in DOMAIN ids /\ ids[n] = c
    BY <2>2 DEF S
  <2>4. \A m \in (n + 1) .. Len(ids) : ids[m] # c
    <3> SUFFICES ASSUME NEW m \in (n + 1) .. Len(ids), ids[m] = c
                 PROVE  FALSE
      OBVIOUS
    <3>1. m \in S
      BY <1>2, <2>3 DEF S
    <3> QED
      BY <1>2, <2>2, <2>3, <3>1
  <2>5. Place(ids, c) = CHOOSE i \in DOMAIN ids :
          ids[i] = c /\ \A m \in (i + 1) .. Len(ids) : ids[m] # c
    BY <1>4 DEF Place
  <2>6. Place(ids, c) \in DOMAIN ids
    BY <2>3, <2>4, <2>5, Zenon
  <2> QED
    BY <1>1, <1>2, <2>6, StoryOrderAssumption
<1> QED
  BY <1>3, <1>4

\* What a reorder writes: the position of a chapter it lists, the offset index of
\* another one it read, nothing for one that is gone.
LEMMA AssignedIs ==
  ASSUME TypeOK, NEW e \in Edits
  PROVE  /\ Assigned(e) \in Indexes /\ edit[e].read \in Indexes
         /\ \A c \in Chapters :
              Place(edit[e].ids, c) = 0 \/ Place(edit[e].ids, c) \in 1 .. NumChapters
         /\ \A c \in Existing(edit[e].read) \cap Existing(Assigned(e)) :
              Assigned(e)[c] = IF Place(edit[e].ids, c) # 0 THEN Place(edit[e].ids, c)
                               ELSE edit[e].read[c] + Offset
<1> DEFINE ids == edit[e].ids
           read == edit[e].read
           at == [c \in Chapters |-> Place(ids, c)]
<1>1. read \in Indexes /\ ids \in Lists /\ index \in Indexes
  BY DEF TypeOK, Edit
<1>2. \A c \in Chapters : Place(ids, c) = 0 \/ Place(ids, c) \in 1 .. NumChapters
  <2> HIDE DEF ids
  <2> QED
    BY <1>1, PlaceIs
<1>3. \A c \in Chapters : at[c] = Place(ids, c)
  OBVIOUS
<1>4. Listed(e) = {c \in Rows(e) : Place(ids, c) # 0}
  BY DEF Listed
<1>5. Assigned(e) = [c \in Chapters |-> IF c \in Listed(e) THEN Place(ids, c)
                                        ELSE Shifted(e, NumChapters)[c]]
  BY DEF Assigned
<1>6. \A c \in Chapters : c <= NumChapters /\ c \in Nat
  BY StoryOrderAssumption DEF Chapters
<1>7. \A c \in Chapters : Shifted(e, NumChapters)[c] =
        IF c \in Rows(e) THEN read[c] + Offset ELSE index[c]
  BY <1>6 DEF Shifted
<1>8. Rows(e) = {c \in Chapters : read[c] # 0 /\ index[c] # 0}
  BY DEF Rows, Existing
<1> HIDE DEF ids, read, at
<1>9. \A c \in Chapters : Assigned(e)[c] =
        IF c \in Listed(e) THEN at[c] ELSE IF c \in Rows(e) THEN read[c] + Offset ELSE index[c]
  BY <1>3, <1>5, <1>7
<1>10. \A c \in Chapters : at[c] = 0 \/ at[c] \in 1 .. NumChapters
  BY <1>2, <1>3
<1>11. Listed(e) = {c \in Rows(e) : at[c] # 0}
  BY <1>3, <1>4, <1>8
<1>12. Assigned(e) \in Indexes
  <2>1. \A c \in Chapters : Assigned(e)[c] \in Nat
    BY <1>1, <1>9, <1>10, StoryOrderAssumption DEF Indexes
  <2>2. \E f : Assigned(e) = [c \in Chapters |-> f[c]]
    <3>1. Assigned(e) = [c \in Chapters |-> Assigned(e)[c]]
      BY <1>5
    <3> QED
      BY <3>1
  <2> QED
    BY <2>1, <2>2 DEF Indexes
<1>13. ASSUME NEW c \in Existing(read) \cap Existing(Assigned(e))
       PROVE  Assigned(e)[c] = IF at[c] # 0 THEN at[c] ELSE read[c] + Offset
  <2>1. c \in Chapters /\ read[c] # 0 /\ Assigned(e)[c] # 0
    BY DEF Existing
  <2>2. c \in Rows(e)
    <3>1. c \notin Rows(e) => index[c] = 0 /\ c \notin Listed(e)
      BY <1>8, <1>11, <2>1
    <3> QED
      BY <1>9, <2>1, <3>1
  <2> QED
    BY <1>9, <1>11, <2>1, <2>2
<1>14. \A c \in Existing(read) \cap Existing(Assigned(e)) :
         Assigned(e)[c] = IF Place(ids, c) # 0 THEN Place(ids, c) ELSE read[c] + Offset
  BY <1>3, <1>13 DEF Existing
<1> QED
  BY <1>1, <1>2, <1>12, <1>14 DEF ids, read

LEMMA CreateReadKeeps ==
  ASSUME IInv, NEW e \in Edits, CreateRead(e)
  PROVE  IInv'
<1> DEFINE x == [Idle EXCEPT !.pc = "read", !.op = "create", !.top = Top(index)]
<1>1. index \in Indexes /\ legacy \in [Chapters -> BOOLEAN]
  BY DEF IInv, TypeOK
<1>2. x \in Edit
  BY <1>1, IdleIs, TopIs DEF Edit
<1>3. edit' = [edit EXCEPT ![e] = x] /\ UNCHANGED <<index, legacy, gen>>
  BY DEF CreateRead
<1> HIDE DEF x
<1> QED
  BY <1>1, <1>2, <1>3, EditKeeps

LEMMA CreateWriteKeeps ==
  ASSUME IInv, NEW e \in Edits, CreateWrite(e)
  PROVE  IInv'
<1>1. PICK c \in FreshKeys :
         LET written == [index EXCEPT ![c] = edit[e].top + 1] IN
           /\ index' = IF Unique(written) THEN written ELSE index
           /\ End(e, IF Unique(written) THEN "ok" ELSE "failed")
  BY DEF CreateWrite
<1>2. index \in Indexes /\ legacy' \in [Chapters -> BOOLEAN] /\ UNCHANGED gen
  BY DEF IInv, TypeOK, CreateWrite
<1>3. edit[e].top + 1 \in Nat
  BY DEF IInv, TypeOK, Edit
<1>4. index' \in Indexes
  BY <1>1, <1>2, <1>3 DEF Indexes
<1>5. \E result \in {"ok", "failed"} : End(e, result)
  BY <1>1
<1> QED
  BY <1>2, <1>4, <1>5, EndKeeps

LEMMA ReorderReadKeeps ==
  ASSUME IInv, NEW e \in Edits, ReorderRead(e)
  PROVE  IInv'
<1>1. PICK ids \in Lists :
         edit' = [edit EXCEPT ![e] = [Idle EXCEPT !.pc = "read", !.op = "reorder",
                                                  !.ids = ids, !.read = index]]
  BY DEF ReorderRead
<1>2. index \in Indexes /\ legacy \in [Chapters -> BOOLEAN] /\ UNCHANGED <<index, legacy, gen>>
  BY DEF IInv, TypeOK, ReorderRead
<1>3. [Idle EXCEPT !.pc = "read", !.op = "reorder", !.ids = ids, !.read = index] \in Edit
  BY <1>1, <1>2, IdleIs DEF Edit
<1> QED
  BY <1>1, <1>2, <1>3, EditKeeps

LEMMA ReorderWriteKeeps ==
  ASSUME IInv, NEW e \in Edits, ReorderWrite(e)
  PROVE  IInv'
<1>1. index \in Indexes /\ legacy' \in [Chapters -> BOOLEAN] /\ UNCHANGED gen
  BY DEF IInv, TypeOK, ReorderWrite
<1>2. index' \in Indexes
  <2>1. TypeOK
    BY DEF IInv
  <2>2. Assigned(e) \in Indexes
    BY <2>1, AssignedIs
  <2> QED
    BY <1>1, <2>2 DEF ReorderWrite
<1>3. \E result \in {"ok", "failed"} : End(e, result)
  BY DEF ReorderWrite
<1> QED
  BY <1>1, <1>2, <1>3, EndKeeps

LEMMA DeleteKeeps ==
  ASSUME IInv, NEW e \in Edits, Delete(e)
  PROVE  IInv'
<1>1. index \in Indexes /\ legacy \in [Chapters -> BOOLEAN] /\ UNCHANGED gen
  BY DEF IInv, TypeOK, Delete
<1>5. PICK c \in Existing(index) : /\ index' = [index EXCEPT ![c] = 0]
                                   /\ legacy' = [legacy EXCEPT ![c] = FALSE]
  BY DEF Delete
<1>2. index' \in Indexes
  BY <1>1, <1>5 DEF Indexes
<1>3. legacy' \in [Chapters -> BOOLEAN]
  BY <1>1, <1>5
<1>4. \E result \in {"ok", "failed"} : End(e, result)
  BY DEF Delete
<1> QED
  BY <1>1, <1>2, <1>3, <1>4, EndKeeps

-----------------------------------------------------------------------------

LEMMA Initially == Init => IInv
<1> SUFFICES ASSUME Init
             PROVE  IInv
  OBVIOUS
<1>1. PICK made \in Lists :
         index = [c \in Chapters |->
                    IF \E n \in DOMAIN made : made[n] = c
                    THEN CHOOSE n \in DOMAIN made : made[n] = c ELSE 0]
  BY DEF Init
<1>2. \A n \in DOMAIN made : n \in Nat
  <2>1. PICK n \in 0 .. NumChapters : made \in [1 .. n -> Chapters]
    BY DEF Lists
  <2> QED
    BY <2>1
<1>3. index \in Indexes
  <2>1. ASSUME NEW c, \E n \in DOMAIN made : made[n] = c
        PROVE  (CHOOSE n \in DOMAIN made : made[n] = c) \in Nat
    BY <1>2, <2>1
  <2> QED
    BY <1>1, <2>1 DEF Indexes
<1>4. legacy \in [Chapters -> BOOLEAN] /\ edit \in [Edits -> Edit]
  BY IdleIs DEF Init
<1>5. gen = NoGen /\ NoGen \in Gen /\ NoGen.pc = "new" /\ NoGen.context = <<>>
  <2>1. 1 \in Chapters
    BY StoryOrderAssumption DEF Chapters
  <2>2. NoGen.snap \in Snapshot
    BY DEF NoGen, Snapshot, Indexes
  <2> QED
    BY <2>1, <2>2 DEF Init, NoGen, Gen
<1> QED
  BY <1>3, <1>4, <1>5 DEF IInv, TypeOK, GenSane

LEMMA Inductive == IInv /\ [Next]_vars => IInv'
<1> SUFFICES ASSUME IInv, [Next]_vars
             PROVE  IInv'
  OBVIOUS
<1>1. CASE UNCHANGED vars
  <2>1. gen' = gen /\ TypeOK'
    BY <1>1 DEF vars, IInv, TypeOK
  <2>2. /\ Fields' = Fields /\ \A found : Eligible(found)' = Eligible(found)
        /\ \A found, kept : Entries(found, kept)' = Entries(found, kept)
    BY <2>1, SnapshotKept
  <2> QED
    BY <2>1, <2>2 DEF IInv, GenSane
<1>2. ASSUME NEW e \in Edits, CreateRead(e) \/ CreateWrite(e) \/ ReorderRead(e)
                               \/ ReorderWrite(e) \/ Delete(e)
      PROVE  IInv'
  BY <1>2, CreateReadKeeps, CreateWriteKeeps, ReorderReadKeeps, ReorderWriteKeeps, DeleteKeeps
<1>3. ASSUME NEW on \in BOOLEAN, Retrieve(on)
      PROVE  IInv'
  BY <1>3, RetrieveKeeps
<1> QED
  BY <1>1, <1>2, <1>3, BeginKeeps, ReadPriorsKeeps DEF Next

LEMMA Invariance == Spec => []IInv
BY Initially, Inductive, PTL DEF Spec

-----------------------------------------------------------------------------
(* Theorems *)

\* The state of the work, of the editing requests and of the continuation keeps
\* its types; an index is a natural number, whatever is written over what.
THEOREM TypeCorrect == Spec => []TypeOK
<1>1. IInv => TypeOK
  BY DEF IInv
<1> QED
  BY <1>1, Invariance, PTL

\* The story a continuation is given is, in order, one that stood before its
\* target at one moment, for every interleaving with the editors.
THEOREM ContextIsPrior == Spec => []StoryContextIsPrior
<1>1. IInv => StoryContextIsPrior
  <2> SUFFICES ASSUME IInv, gen.pc = "ready", NEW n \in DOMAIN gen.context
               PROVE  /\ gen.snap.index[gen.context[n][2]] \in 1 .. (Target - 1)
                      /\ \A m \in 1 .. (n - 1) :
                           gen.snap.index[gen.context[m][2]] <= gen.snap.index[gen.context[n][2]]
    BY DEF StoryContextIsPrior, Target
  <2>1. gen.context # <<>>
    OBVIOUS
  <2>2. PICK found \in Candidates : \E kept \in SUBSET Eligible(found) :
           gen.context \in InStoryOrder(Fields \cup Entries(found, kept))
    BY <2>1 DEF IInv, GenSane
  <2>3. /\ gen.context \in Seq(Told)
        /\ \A k \in DOMAIN gen.context :
             /\ gen.context[k][1] = gen.snap.index[gen.context[k][2]]
             /\ gen.context[k][1] \in 1 .. (Target - 1)
             /\ \A m \in 1 .. (k - 1) : gen.context[m][1] <= gen.context[k][1]
    BY <2>2, ContextIs DEF IInv
  <2>4. \A m \in 1 .. (n - 1) : m \in DOMAIN gen.context
    BY <2>3
  <2> QED
    BY <2>3, <2>4
<1> QED
  BY <1>1, Invariance, PTL

\* No chapter is told twice.
THEOREM ToldOnce == Spec => []EachChapterToldOnce
<1>1. IInv => EachChapterToldOnce
  <2> SUFFICES ASSUME IInv
               PROVE  EachChapterToldOnce
    OBVIOUS
  <2>1. CASE gen.context = <<>>
    BY <2>1 DEF EachChapterToldOnce
  <2>2. CASE gen.context # <<>>
    <3>1. PICK found \in Candidates : \E kept \in SUBSET Eligible(found) :
             gen.context \in InStoryOrder(Fields \cup Entries(found, kept))
      BY <2>2 DEF IInv, GenSane
    <3>2. \A m, n \in DOMAIN gen.context : gen.context[m][2] = gen.context[n][2] => m = n
      BY <3>1, ContextIs DEF IInv
    <3> QED
      BY <3>2 DEF EachChapterToldOnce
  <2> QED
    BY <2>1, <2>2
<1> QED
  BY <1>1, Invariance, PTL

\* No edit of the work fails a continuation.
THEOREM ContinuationsPrepare == Spec => []EditsNeverFailContinuation
<1>1. IInv => EditsNeverFailContinuation
  BY DEF IInv, GenSane, EditsNeverFailContinuation
<1> QED
  BY <1>1, Invariance, PTL

\* A reorder that succeeds leaves the chapters as it lists them, and the others it
\* read behind them in their old order, whatever is deleted meanwhile.
THEOREM ReordersObeyed == Spec => ReorderObeyed
<1> DEFINE Obeyed(e) ==
      LET read == edit[e].read
          At(c) == Place(edit[e].ids, c)
      IN \A c, d \in Existing(read) \cap Existing(index') :
           index'[c] < index'[d] <=>
             \/ At(c) # 0 /\ (At(d) = 0 \/ At(c) < At(d))
             \/ At(c) = 0 /\ At(d) = 0 /\ read[c] < read[d]
<1>1. ASSUME IInv, Next, NEW e \in Edits, edit[e].pc = "read", edit[e].op = "reorder",
             edit'[e].pc = "ok"
      PROVE  index' = Assigned(e)
  <2>1. edit \in [Edits -> Edit]
    BY <1>1 DEF IInv, TypeOK
  <2>2. ASSUME NEW f \in Edits, f # e, NEW x, edit' = [edit EXCEPT ![f] = x]
        PROVE  FALSE
    BY <1>1, <2>1, <2>2
  <2>3. ASSUME UNCHANGED edit
        PROVE  FALSE
    BY <1>1, <2>3
  <2>4. ASSUME NEW f \in Edits, CreateRead(f) \/ CreateWrite(f) \/ ReorderRead(f)
                                \/ Delete(f)
        PROVE  f # e
    BY <1>1, <2>4 DEF CreateRead, CreateWrite, ReorderRead, Delete, Arrives
  <2>5. ASSUME NEW f \in Edits, f # e,
               CreateRead(f) \/ CreateWrite(f) \/ ReorderRead(f) \/ ReorderWrite(f)
               \/ Delete(f)
        PROVE  \E x : edit' = [edit EXCEPT ![f] = x]
    BY <2>5 DEF CreateRead, CreateWrite, ReorderRead, ReorderWrite, Delete, End
  <2>6. ReorderWrite(e)
    BY <1>1, <2>2, <2>3, <2>4, <2>5 DEF Next, Begin, ReadPriors, Retrieve
  <2>7. CASE End(e, "failed")
    <3>1. edit'[e].pc = "failed"
      BY <2>1, <2>7 DEF End, Idle
    <3> QED
      BY <1>1, <3>1
  <2> QED
    BY <2>6, <2>7 DEF ReorderWrite
<1>2. ASSUME IInv, NEW e \in Edits, index' = Assigned(e)
      PROVE  Obeyed(e)
  <2> DEFINE read == edit[e].read
             At(c) == Place(edit[e].ids, c)
             S == Existing(read) \cap Existing(index')
  <2>1. /\ read \in Indexes
        /\ \A c \in Chapters : At(c) = 0 \/ At(c) \in 1 .. NumChapters
        /\ \A c \in S : index'[c] = IF At(c) # 0 THEN At(c) ELSE read[c] + Offset
    BY <1>2, AssignedIs DEF IInv
  <2>2. S \subseteq Chapters
    BY DEF Existing
  <2>3. \A c \in Chapters : read[c] \in Nat
    BY <2>1 DEF Indexes
  <2> HIDE DEF read, At, S
  <2>4. ASSUME NEW c \in S, NEW d \in S
        PROVE  index'[c] < index'[d] <=>
                 \/ At(c) # 0 /\ (At(d) = 0 \/ At(c) < At(d))
                 \/ At(c) = 0 /\ At(d) = 0 /\ read[c] < read[d]
    <3>1. /\ read[c] \in Nat /\ read[d] \in Nat /\ c \in Chapters /\ d \in Chapters
          /\ At(c) \in Nat /\ At(d) \in Nat /\ At(c) <= NumChapters /\ At(d) <= NumChapters
      BY <2>1, <2>2, <2>3, StoryOrderAssumption
    <3>2. /\ index'[c] = IF At(c) # 0 THEN At(c) ELSE read[c] + Offset
          /\ index'[d] = IF At(d) # 0 THEN At(d) ELSE read[d] + Offset
      BY <2>1
    <3>3. NumChapters < Offset /\ NumChapters \in Nat /\ Offset \in Nat
      BY StoryOrderAssumption
    <3>4. CASE At(c) # 0 /\ At(d) # 0
      BY <3>1, <3>2, <3>4
    <3>5. CASE At(c) # 0 /\ At(d) = 0
      BY <3>1, <3>2, <3>3, <3>5
    <3>6. CASE At(c) = 0 /\ At(d) # 0
      BY <3>1, <3>2, <3>3, <3>6
    <3>7. CASE At(c) = 0 /\ At(d) = 0
      BY <3>1, <3>2, <3>3, <3>7
    <3> QED
      BY <3>4, <3>5, <3>6, <3>7
  <2> QED
    BY <2>4 DEF read, At, S
<1> HIDE DEF Obeyed
<1>3. IInv /\ [Next]_vars =>
        [\A e \in Edits : (edit[e].pc = "read" /\ edit[e].op = "reorder" /\ edit'[e].pc = "ok")
                            => Obeyed(e)]_vars
  BY <1>1, <1>2
<1> QED
  BY <1>3, Invariance, PTL DEF Spec, ReorderObeyed, Obeyed

=============================================================================
