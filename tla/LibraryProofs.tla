--------------------------- MODULE LibraryProofs ---------------------------
(***************************************************************************)
(* Theorems about Library for any number of records, shapes of entries and *)
(* requests, and any length of a page.                                     *)
(***************************************************************************)
EXTENDS Library, NaturalLemmas, FiniteSetTheorems

Records == Works \cup Worlds \cup Characters \cup Chapters

Kinds == {"work", "character", "world", "chapter", "source", "origin"}

Request == [pc : {"new", "validate", "anchors", "link", "ok", "failed"},
            op : {"none", "create", "author", "accept", "link"}, shape : Shape, entry : Nat,
            link : (Works \X Characters) \cup {<<>>}, loads : SUBSET ((1 .. 4) \X Records),
            asks : SUBSET (1 .. 6), seen : SUBSET (Kinds \X Records),
            before : SUBSET Records]

Entry == [shape : Shape, status : {"proposed", "canon"}]

Gen == [pc : {"new", "candidates", "anchors", "novel", "chat", "rows", "live", "listed"},
        scopes : SUBSET ({"user", "work", "world", "character"} \X (Records \cup {Nothing})),
        found : SUBSET Shape, asks : SUBSET (1 .. 5), seen : SUBSET (Kinds \X Records),
        told : SUBSET Shape, cast : [Characters -> 0 .. 1], world : Worlds \cup {Nothing},
        before : SUBSET Records]

List == [after : Nat, page : SUBSET (Nat \X Shape), more : BOOLEAN, asks : SUBSET (1 .. 5),
         seen : SUBSET (Kinds \X Records), items : SUBSET Nat, shown : Seq(SUBSET Nat),
         begun : SUBSET Nat, before : SUBSET Records]

TypeOK ==
    /\ deleted \in SUBSET Records
    /\ worldOf \in [Works \cup Characters -> Worlds \cup {Nothing}]
    /\ links \in [Works \X Characters -> 0 .. 1]
    /\ entries \in Seq(Entry)
    /\ req \in [Requests -> Request]
    /\ gen \in Gen /\ list \in List

\* What acceptance leaves in an entry: it is coherent, and one of its queries
\* asks for the record of its scope, so that it can be found live again.
Admitted(e) ==
    /\ e.subject[1] \notin {"none", "pair"} => Coherent(Bare(e))
    /\ e.scope[1] = "user" \/ e.scope[2] \in Wanted(e.scope[1], e)

\* Whatever was found live was so when the request began ...
FoundLive(seen, gone) == \A p \in seen : Active(p[1], p[2], gone)

\* ... and what the queries made so far ask for and is live now was found.
Found(seen, batch, order, asks) ==
    \A i \in (DOMAIN order) \ asks : \A e \in batch : \A x \in Wanted(order[i], e) :
        Active(order[i], x, deleted) => <<order[i], x>> \in seen

RowsSane == \A n \in DOMAIN entries : entries[n].status = "canon" => Admitted(entries[n].shape)

\* A request on its way.
RequestSane(r) ==
    /\ req[r].before \subseteq deleted
    /\ req[r].pc = "validate" => req[r].op \in {"create", "author"} /\ req[r].seen = {}
    /\ req[r].pc = "link" => req[r].link \in Works \X Characters
    /\ req[r].pc = "anchors" =>
         /\ FoundLive(req[r].seen, req[r].before)
         /\ \A p \in req[r].seen : p[2] \in Wanted(p[1], req[r].shape)
         /\ req[r].op = "accept" =>
              /\ req[r].entry \in DOMAIN entries
              /\ Bare(entries[req[r].entry].shape) = Bare(req[r].shape)

\* A generation on its way.
GenSane ==
    /\ gen.before \subseteq deleted
    /\ gen.pc \in {"new", "candidates"} => gen.seen = {}
    /\ gen.pc = "anchors" =>
         /\ FoundLive(gen.seen, gen.before)
         /\ \A e \in gen.found : Admitted(e)
         /\ Found(gen.seen, gen.found, RetrievalOrder, gen.asks)
    /\ RetrievedIsSound /\ OnlyOrphansExcluded /\ CastIsLive

Rows(l) == {x[1] : x \in l.page}

\* What a client was shown, or will be from the rows read so far: in order,
\* up to the cursor, sound, and all that was canon and lives.
ShownSane ==
    /\ list.before \subseteq deleted
    /\ list.begun \subseteq CanonRows
    /\ \A i, j \in DOMAIN list.shown :
         i < j => \A m \in list.shown[i], n \in list.shown[j] : m < n
    /\ \A i \in DOMAIN list.shown : \A m \in list.shown[i] :
         /\ m \in CanonRows /\ Sound(entries[m].shape, list.before)
         /\ m <= list.after /\ \A n \in list.items : m < n
    /\ \A n \in list.items :
         n \in CanonRows /\ Sound(entries[n].shape, list.before) /\ n <= list.after
    /\ \A n \in list.begun :
         (n <= list.after /\ Sound(entries[n].shape, deleted)) =>
            n \in list.items \/ \E i \in DOMAIN list.shown : n \in list.shown[i]

\* The rows being looked at: behind the cursor, and no canon is left out
\* between them.
PageSane ==
    /\ \A x \in list.page :
         /\ x[1] \in CanonRows /\ list.after < x[1]
         /\ Bare(x[2]) = Bare(entries[x[1]].shape) /\ Admitted(x[2])
    /\ list.more => list.page # {}
    /\ \A n \in list.begun :
         list.after < n =>
            n \in Rows(list) \/ (list.more /\ \A m \in Rows(list) : m < n)
    /\ FoundLive(list.seen, list.before)
    /\ Found(list.seen, {x[2] : x \in list.page}, ListOrder, list.asks)

ListSane ==
    /\ gen.pc \in {"rows", "live"} => ShownSane
    /\ gen.pc = "live" => PageSane
    /\ gen.pc = "listed" =>
         /\ ListIsExact
         /\ list.before \subseteq deleted /\ list.begun \subseteq CanonRows
         /\ \A i \in DOMAIN list.shown : list.shown[i] \subseteq CanonRows

IInv ==
    /\ TypeOK /\ RowsSane /\ GenSane /\ ListSane
    /\ \A r \in Requests : RequestSane(r)

-----------------------------------------------------------------------------
(* Anchors *)

\* What a shape is, by cases.
LEMMA ShapeIs ==
  ASSUME NEW e \in Shape
  PROVE  /\ e.source \in Chapters \cup {Nothing} /\ e.origin \in Chapters \cup {Nothing}
         /\ e.scope = <<e.scope[1], e.scope[2]>> /\ e.subject = <<e.subject[1], e.subject[2]>>
         /\ \/ e.scope[1] = "user" /\ e.scope[2] = Nothing
            \/ e.scope[1] = "work" /\ e.scope[2] \in Works
            \/ e.scope[1] = "world" /\ e.scope[2] \in Worlds
            \/ e.scope[1] = "character" /\ e.scope[2] \in Characters
         /\ \/ e.subject[1] = "none" /\ e.subject[2] = Nothing
            \/ e.subject[1] = "work" /\ e.subject[2] \in Works
            \/ e.subject[1] = "world" /\ e.subject[2] \in Worlds
            \/ e.subject[1] = "character" /\ e.subject[2] \in Characters
            \/ e.subject[1] = "chapter" /\ e.subject[2] \in Chapters
            \/ e.subject[1] = "pair" /\ e.subject[2] \in SUBSET Characters
BY DEF Shape

\* Without its origin an entry names the rest as before.
LEMMA BareIs ==
  ASSUME NEW e \in Shape
  PROVE  /\ Bare(e) \in Shape /\ Bare(e).scope = e.scope /\ Bare(e).subject = e.subject
         /\ Bare(e).source = e.source /\ Bare(e).origin = Nothing
         /\ Bare(Bare(e)) = Bare(e)
<1>1. Bare(e) = [e EXCEPT !.origin = Nothing]
  BY DEF Bare
<1>2. /\ Bare(e) \in Shape /\ Bare(e).scope = e.scope /\ Bare(e).subject = e.subject
      /\ Bare(e).source = e.source /\ Bare(e).origin = Nothing
  BY <1>1 DEF Shape
<1>3. Bare(Bare(e)) = [[e EXCEPT !.origin = Nothing] EXCEPT !.origin = Nothing]
  BY DEF Bare
<1>4. [[e EXCEPT !.origin = Nothing] EXCEPT !.origin = Nothing] = [e EXCEPT !.origin = Nothing]
  BY DEF Shape
<1> QED
  BY <1>1, <1>2, <1>3, <1>4

\* What is wanted are records of the kind.
LEMMA WantedIs ==
  ASSUME NEW e \in Shape, NEW k \in Kinds
  PROVE  /\ Wanted(k, e) \subseteq Records
         /\ k \in {"chapter", "source", "origin"} => Wanted(k, e) \subseteq Chapters
         /\ k \notin {"chapter", "source", "origin"} => Wanted(k, e) \cap Chapters = {}
<1>1. CASE k = "character"
  <2>1. Wanted(k, e) = CharacterAnchors(e)
    BY <1>1 DEF Wanted
  <2>2. CharacterAnchors(e) \subseteq Characters
    BY ShapeIs DEF CharacterAnchors
  <2> QED
    BY <1>1, <2>1, <2>2, LibraryAssumption DEF Records
<1>2. CASE k = "source"
  BY <1>2, ShapeIs DEF Wanted, Named, Records
<1>3. CASE k = "origin"
  BY <1>3, ShapeIs DEF Wanted, Named, Records
<1>4. CASE k \in {"work", "world", "chapter"}
  <2>1. Wanted(k, e) = {a[2] : a \in {b \in {e.scope, e.subject} : b[1] = k}}
    BY <1>4 DEF Wanted
  <2> QED
    BY <1>4, <2>1, ShapeIs, LibraryAssumption DEF Records
<1> QED
  BY <1>1, <1>2, <1>3, <1>4 DEF Kinds

\* An entry that survives names nothing that was gone when the queries began.
LEMMA SurvivorIsSound ==
  ASSUME NEW e \in Shape, NEW seen, NEW gone, FoundLive(seen, gone),
         SourceIsLive(e, seen), AnchorsAreLive(e, seen)
  PROVE  Sound(e, gone)
<1> SUFFICES ASSUME NEW l \in Loaded(Bare(e))
             PROVE  l[2] \notin gone /\ (l[2] \in Chapters => WorkOf[l[2]] \notin gone)
  BY DEF Sound
<1>1. l[2] # Nothing
  BY DEF Loaded
<1>2. \/ l = <<1, e.scope[2]>>
      \/ l = <<3, e.source>>
      \/ l = <<4, Nothing>>
      \/ l[2] \in IF e.subject[1] = "pair" THEN e.subject[2] ELSE {e.subject[2]}
  BY BareIs DEF Loaded
<1>3. ASSUME NEW k, NEW x, <<k, x>> \in seen
      PROVE  x \notin gone /\ (k \in {"chapter", "source"} => WorkOf[x] \notin gone)
  BY <1>3 DEF FoundLive, Active
<1>4. CASE l = <<1, e.scope[2]>>
  <2>1. l[2] = e.scope[2]
    BY <1>4
  <2>2. e.scope[1] # "user" /\ e.scope[2] \notin Chapters
    BY <1>1, <2>1, ShapeIs, LibraryAssumption
  <2>3. <<e.scope[1], e.scope[2]>> \in seen
    BY <2>2, ShapeIs DEF AnchorsAreLive
  <2> QED
    BY <1>3, <2>1, <2>2, <2>3
<1>5. CASE l = <<3, e.source>>
  <2>1. l[2] = e.source
    BY <1>5
  <2>2. <<"source", e.source>> \in seen
    BY <1>1, <2>1 DEF SourceIsLive
  <2> QED
    BY <1>3, <2>1, <2>2
<1>6. CASE l[2] \in IF e.subject[1] = "pair" THEN e.subject[2] ELSE {e.subject[2]}
  <2>1. CASE e.subject[1] = "pair"
    <3>1. l[2] \in e.subject[2] /\ l[2] \in Characters
      BY <1>6, <2>1, ShapeIs
    <3>2. <<"character", l[2]>> \in seen
      BY <2>1, <3>1 DEF AnchorsAreLive
    <3> QED
      BY <1>3, <3>1, <3>2, LibraryAssumption
  <2>2. CASE e.subject[1] # "pair"
    <3>1. l[2] = e.subject[2] /\ e.subject[1] # "none"
      BY <1>1, <1>6, <2>2, ShapeIs
    <3>2. e.subject \in seen
      BY <2>2, <3>1 DEF AnchorsAreLive
    <3>3. <<e.subject[1], e.subject[2]>> \in seen
      BY <3>2, ShapeIs
    <3>4. e.subject[1] = "chapter" \/ e.subject[2] \notin Chapters
      BY <2>2, <3>1, ShapeIs, LibraryAssumption
    <3> QED
      BY <1>3, <3>1, <3>3, <3>4
  <2> QED
    BY <2>1, <2>2
<1> QED
  BY <1>1, <1>2, <1>4, <1>5, <1>6

LiveKinds == {"source", "work", "character", "world", "chapter"}

\* An admitted entry whose anchors live survives, once all was asked for.
LEMMA SoundSurvives ==
  ASSUME NEW e \in Shape, Admitted(e), NEW seen, NEW gone, Sound(e, gone),
         \A k \in LiveKinds : \A x \in Wanted(k, e) : Active(k, x, gone) => <<k, x>> \in seen
  PROVE  SourceIsLive(e, seen) /\ AnchorsAreLive(e, seen)
<1>1. ASSUME NEW l \in Loaded(Bare(e))
      PROVE  l[2] \notin gone /\ (l[2] \in Chapters => WorkOf[l[2]] \notin gone)
  BY DEF Sound
<1>2. SourceIsLive(e, seen)
  <2>1. SUFFICES ASSUME e.source # Nothing
                 PROVE  <<"source", e.source>> \in seen
    BY DEF SourceIsLive
  <2>2. <<3, e.source>> \in Loaded(Bare(e))
    BY <2>1, BareIs DEF Loaded
  <2>3. e.source \in Chapters /\ e.source \notin gone /\ WorkOf[e.source] \notin gone
    BY <1>1, <2>1, <2>2, ShapeIs
  <2>4. Wanted("source", e) = {e.source}
    BY <2>1 DEF Wanted, Named
  <2> QED
    BY <2>3, <2>4 DEF Active, LiveKinds
<1>3. e.scope[1] = "user" \/ e.scope \in seen
  <2>1. SUFFICES ASSUME e.scope[1] # "user"
                 PROVE  <<e.scope[1], e.scope[2]>> \in seen
    BY ShapeIs
  <2>2. e.scope[1] \in {"work", "world", "character"} /\ e.scope[2] # Nothing
    BY <2>1, ShapeIs, LibraryAssumption
  <2>3. <<1, e.scope[2]>> \in Loaded(Bare(e))
    BY <2>2, BareIs DEF Loaded
  <2>4. Active(e.scope[1], e.scope[2], gone)
    BY <1>1, <2>2, <2>3 DEF Active
  <2>5. e.scope[2] \in Wanted(e.scope[1], e)
    BY <2>1 DEF Admitted
  <2> QED
    BY <2>2, <2>4, <2>5 DEF LiveKinds
<1>4. ASSUME NEW x, e.subject[1] = "pair", x \in e.subject[2]
      PROVE  <<"character", x>> \in seen
  <2>1. x \in Characters /\ x # Nothing
    BY <1>4, ShapeIs, LibraryAssumption
  <2>2. <<2, x>> \in Loaded(Bare(e))
    BY <1>4, <2>1, BareIs DEF Loaded
  <2>3. Active("character", x, gone)
    BY <1>1, <2>2 DEF Active
  <2>4. Wanted("character", e) = e.subject[2]
    BY <1>4 DEF Wanted, CharacterAnchors
  <2> QED
    BY <1>4, <2>3, <2>4 DEF LiveKinds
<1>5. ASSUME e.subject[1] \notin {"none", "pair"}
      PROVE  e.subject \in seen
  <2>1. /\ e.subject[1] \in {"work", "world", "character", "chapter"} /\ e.subject[2] # Nothing
        /\ e.subject[1] = "chapter" => e.subject[2] \in Chapters
    BY <1>5, ShapeIs, LibraryAssumption
  <2>2. <<2, e.subject[2]>> \in Loaded(Bare(e))
    BY <1>5, <2>1, BareIs DEF Loaded
  <2>3. Active(e.subject[1], e.subject[2], gone)
    BY <1>1, <2>1, <2>2 DEF Active
  <2>4. e.subject[2] \in Wanted(e.subject[1], e)
    <3>1. CASE e.subject[1] = "character"
      BY <3>1 DEF Wanted, CharacterAnchors
    <3>2. CASE e.subject[1] \in {"work", "world", "chapter"}
      <4>1. Wanted(e.subject[1], e)
              = {a[2] : a \in {b \in {e.scope, e.subject} : b[1] = e.subject[1]}}
        BY <3>2 DEF Wanted
      <4> QED
        BY <4>1
    <3> QED
      BY <2>1, <3>1, <3>2
  <2>5. <<e.subject[1], e.subject[2]>> \in seen
    BY <2>1, <2>3, <2>4 DEF LiveKinds
  <2> QED
    BY <2>5, ShapeIs
<1>6. e.subject[1] \notin {"none", "pair"} => Coherent(Bare(e))
  BY DEF Admitted
<1>7. AnchorsAreLive(e, seen)
  <2>1. CASE e.subject[1] = "none"
    BY <1>3, <2>1 DEF AnchorsAreLive
  <2>2. CASE e.subject[1] = "pair"
    BY <1>3, <1>4, <2>2 DEF AnchorsAreLive
  <2>3. CASE e.subject[1] \notin {"none", "pair"}
    BY <1>3, <1>5, <1>6, <2>3 DEF AnchorsAreLive
  <2> QED
    BY <2>1, <2>2, <2>3
<1> QED
  BY <1>2, <1>7

\* What acceptance lets through is admitted: its queries asked for its own
\* anchors only.
LEMMA AcceptedIsAdmitted ==
  ASSUME NEW e \in Shape, NEW seen, AnchorsAreLive(e, seen),
         \A p \in seen : p[2] \in Wanted(p[1], e)
  PROVE  Admitted(e)
<1>1. e.scope[1] = "user" \/ e.scope[2] \in Wanted(e.scope[1], e)
  BY DEF AnchorsAreLive
<1>2. e.subject[1] \notin {"none", "pair"} => Coherent(Bare(e))
  BY DEF AnchorsAreLive
<1> QED
  BY <1>1, <1>2 DEF Admitted

\* Nothing but an origin's query depends on the origin.
LEMMA Alike ==
  ASSUME NEW e \in Shape, NEW f \in Shape, Bare(e) = Bare(f)
  PROVE  /\ e.scope = f.scope /\ e.subject = f.subject /\ e.source = f.source
         /\ \A k \in Kinds \ {"origin"} : Wanted(k, e) = Wanted(k, f)
         /\ Admitted(e) <=> Admitted(f)
         /\ \A gone : Sound(e, gone) <=> Sound(f, gone)
<1>1. e.scope = f.scope /\ e.subject = f.subject /\ e.source = f.source
  BY BareIs
<1>2. CharacterAnchors(e) = CharacterAnchors(f)
  BY <1>1 DEF CharacterAnchors
<1>3. ASSUME NEW k, k # "origin"
      PROVE  Wanted(k, e) = Wanted(k, f)
  <2>1. CASE k = "character"
    BY <1>2, <2>1 DEF Wanted
  <2>2. CASE k = "source"
    BY <1>1, <2>2 DEF Wanted
  <2>3. CASE k \notin {"character", "source"}
    BY <1>1, <1>3, <2>3 DEF Wanted
  <2> QED
    BY <2>1, <2>2, <2>3
<1>4. Admitted(e) <=> Admitted(f)
  <2>1. e.scope[1] # "origin"
    BY ShapeIs
  <2>2. Wanted(e.scope[1], e) = Wanted(f.scope[1], f)
    BY <1>1, <1>3, <2>1
  <2> QED
    BY <1>1, <2>2 DEF Admitted
<1>5. ASSUME NEW gone
      PROVE  Sound(e, gone) <=> Sound(f, gone)
  BY DEF Sound
<1> QED
  BY <1>1, <1>3, <1>4, <1>5

\* What has died stays dead.
LEMMA SoundBefore ==
  ASSUME NEW e, NEW gone, NEW later, gone \subseteq later, Sound(e, later)
  PROVE  Sound(e, gone)
BY DEF Sound

LEMMA ActiveBefore ==
  ASSUME NEW k, NEW x, NEW gone, NEW later, gone \subseteq later, Active(k, x, later)
  PROVE  Active(k, x, gone)
BY DEF Active

\* The orders have the kinds.
LEMMA Orders ==
  /\ DOMAIN AcceptanceOrder = 1 .. 6 /\ \A i \in 1 .. 6 : AcceptanceOrder[i] \in Kinds
  /\ DOMAIN RetrievalOrder = 1 .. 5 /\ \A i \in 1 .. 5 : RetrievalOrder[i] \in LiveKinds
  /\ DOMAIN ListOrder = 1 .. 5 /\ \A i \in 1 .. 5 : ListOrder[i] \in LiveKinds
  /\ \A k \in LiveKinds : \E i \in 1 .. 5 : RetrievalOrder[i] = k
  /\ \A k \in LiveKinds : \E i \in 1 .. 5 : ListOrder[i] = k
  /\ LiveKinds \subseteq Kinds
BY DEF AcceptanceOrder, RetrievalOrder, ListOrder, Kinds, LiveKinds

\* One query finds what it asks for and lives.
LEMMA AnswerIs ==
  ASSUME NEW k \in Kinds, NEW batch \in SUBSET Shape, NEW gone
  PROVE  /\ Answer(k, batch, gone) \subseteq Kinds \X Records
         /\ \A p \in Answer(k, batch, gone) :
              /\ p = <<k, p[2]>> /\ Active(k, p[2], gone)
              /\ \E e \in batch : p[2] \in Wanted(k, e)
         /\ \A e \in batch : \A x \in Wanted(k, e) :
              Active(k, x, gone) => <<k, x>> \in Answer(k, batch, gone)
<1>1. \A e \in batch : Wanted(k, e) \subseteq Records
  BY WantedIs
<1>2. Answer(k, batch, gone)
        = {<<k, x>> : x \in {y \in UNION {Wanted(k, e) : e \in batch} : Active(k, y, gone)}}
  BY DEF Answer
<1>3. ASSUME NEW x
      PROVE  x \in UNION {Wanted(k, e) : e \in batch} <=> \E e \in batch : x \in Wanted(k, e)
  OBVIOUS
<1> QED
  BY <1>1, <1>2, <1>3

-----------------------------------------------------------------------------
(* What the requests do to the others *)

\* What was gone stays gone; what was canon stays so and names what it named,
\* but for its origin.
Grows ==
    /\ deleted \subseteq deleted'
    /\ DOMAIN entries \subseteq DOMAIN entries'
    /\ \A n \in DOMAIN entries :
         /\ entries[n].status = "canon" => entries'[n].status = "canon"
         /\ Bare(entries'[n].shape) = Bare(entries[n].shape)

LEMMA RowIs ==
  ASSUME NEW s \in Seq(Entry), NEW n \in DOMAIN s
  PROVE  n \in Nat /\ n \in 1 .. Len(s) /\ s[n] \in Entry /\ s[n].shape \in Shape
<1>1. n \in Nat /\ n \in 1 .. Len(s) /\ s[n] \in Entry
  OBVIOUS
<1> QED
  BY <1>1 DEF Entry

LEMMA CanonKept ==
  ASSUME TypeOK, TypeOK', Grows, NEW n \in CanonRows
  PROVE  /\ n \in CanonRows'
         /\ \A gone : Sound(entries'[n].shape, gone) <=> Sound(entries[n].shape, gone)
<1>1. n \in DOMAIN entries /\ n \in DOMAIN entries'
  BY DEF CanonRows, Grows
<1>2. entries[n].shape \in Shape /\ entries'[n].shape \in Shape
  BY <1>1, RowIs DEF TypeOK
<1>3. Bare(entries'[n].shape) = Bare(entries[n].shape)
  BY <1>1 DEF Grows
<1>4. n \in CanonRows'
  BY <1>1 DEF CanonRows, Grows
<1> QED
  BY <1>2, <1>3, <1>4, Alike


\* A generation does not notice the requests ...
LEMMA GenKept ==
  ASSUME GenSane, Grows, gen' = gen
  PROVE  GenSane'
<1>1. gen'.before \subseteq deleted'
  BY DEF GenSane, Grows
<1>2. gen'.pc = "anchors" => Found(gen.seen, gen.found, RetrievalOrder, gen.asks)'
  <2> SUFFICES ASSUME gen.pc = "anchors"
               PROVE  Found(gen.seen, gen.found, RetrievalOrder, gen.asks)'
    BY DEF Found
  <2> QED
    BY ActiveBefore DEF Found, Grows, GenSane
<1>3. RetrievedIsSound' /\ CastIsLive'
  BY DEF GenSane, RetrievedIsSound, CastIsLive
<1>4. OnlyOrphansExcluded'
  BY SoundBefore DEF GenSane, OnlyOrphansExcluded, Grows
<1> QED
  BY <1>1, <1>2, <1>3, <1>4 DEF GenSane

\* ... and neither does a list.
LEMMA ListKept ==
  ASSUME TypeOK, TypeOK', ListSane, Grows, gen' = gen, list' = list
  PROVE  ListSane'
<1>1. /\ CanonRows \subseteq CanonRows'
      /\ \A n \in CanonRows : \A gone : Sound(entries'[n].shape, gone) <=> Sound(entries[n].shape, gone)
  BY CanonKept
<1>2. deleted \subseteq deleted'
  BY DEF Grows
<1>3. ASSUME ShownSane
      PROVE  ShownSane'
  <2>1. list.before \subseteq deleted'
    BY <1>2, <1>3 DEF ShownSane
  <2>2. list.begun \subseteq CanonRows'
    BY <1>1, <1>3 DEF ShownSane
  <2>3. \A i, j \in DOMAIN list.shown :
           i < j => \A m \in list.shown[i], n \in list.shown[j] : m < n
    BY <1>3 DEF ShownSane
  <2>4. \A i \in DOMAIN list.shown : \A m \in list.shown[i] :
           /\ m \in CanonRows' /\ Sound(entries'[m].shape, list.before)
           /\ m <= list.after /\ \A n \in list.items : m < n
    BY <1>1, <1>3 DEF ShownSane
  <2>5. \A n \in list.items :
           n \in CanonRows' /\ Sound(entries'[n].shape, list.before) /\ n <= list.after
    BY <1>1, <1>3 DEF ShownSane
  <2>6. \A n \in list.begun :
           (n <= list.after /\ Sound(entries'[n].shape, deleted')) =>
              n \in list.items \/ \E i \in DOMAIN list.shown : n \in list.shown[i]
    <3> SUFFICES ASSUME NEW n \in list.begun, n <= list.after,
                        Sound(entries'[n].shape, deleted')
                 PROVE  n \in list.items \/ \E i \in DOMAIN list.shown : n \in list.shown[i]
      OBVIOUS
    <3>1. n \in CanonRows
      BY <1>3 DEF ShownSane
    <3>2. Sound(entries[n].shape, deleted)
      BY <1>1, <1>2, <3>1, SoundBefore
    <3> QED
      BY <1>3, <3>2 DEF ShownSane
  <2> QED
    BY <2>1, <2>2, <2>3, <2>4, <2>5, <2>6 DEF ShownSane
<1>4. ASSUME PageSane
      PROVE  PageSane'
  <2>1. ASSUME NEW x \in list.page
        PROVE  /\ x[1] \in CanonRows' /\ list.after < x[1]
               /\ Bare(x[2]) = Bare(entries'[x[1]].shape) /\ Admitted(x[2])
    <3>1. /\ x[1] \in CanonRows /\ list.after < x[1]
          /\ Bare(x[2]) = Bare(entries[x[1]].shape) /\ Admitted(x[2])
      BY <1>4, <2>1 DEF PageSane
    <3>2. x[1] \in DOMAIN entries
      BY <3>1 DEF CanonRows
    <3> QED
      BY <1>1, <3>1, <3>2 DEF Grows
  <2>2. /\ list.more => list.page # {}
        /\ \A n \in list.begun :
             list.after < n =>
               n \in Rows(list) \/ (list.more /\ \A m \in Rows(list) : m < n)
        /\ FoundLive(list.seen, list.before)
    BY <1>4 DEF PageSane
  <2>3. Found(list.seen, {x[2] : x \in list.page}, ListOrder, list.asks)'
    <3>1. Found(list.seen, {x[2] : x \in list.page}, ListOrder, list.asks)
      BY <1>4 DEF PageSane
    <3> QED
      BY <3>1, ActiveBefore DEF Found, Grows
  <2>4. (\A x \in list.page :
           /\ x[1] \in CanonRows /\ list.after < x[1]
           /\ Bare(x[2]) = Bare(entries[x[1]].shape) /\ Admitted(x[2]))'
    BY <2>1
  <2> QED
    BY <2>2, <2>3, <2>4 DEF PageSane
<1>5. ASSUME gen.pc = "listed"
      PROVE  /\ ListIsExact' /\ list'.before \subseteq deleted' /\ list'.begun \subseteq CanonRows'
             /\ \A i \in DOMAIN list'.shown : list'.shown[i] \subseteq CanonRows'
  <2>1. /\ ListIsExact
        /\ list.before \subseteq deleted /\ list.begun \subseteq CanonRows
        /\ \A i \in DOMAIN list.shown : list.shown[i] \subseteq CanonRows
    BY <1>5 DEF ListSane
  <2>2. ASSUME NEW n \in list.begun, Sound(entries'[n].shape, deleted')
        PROVE  \E i \in DOMAIN list.shown : n \in list.shown[i]
    <3>1. Sound(entries[n].shape, deleted)
      BY <1>1, <1>2, <2>1, <2>2, SoundBefore
    <3> QED
      BY <1>5, <2>1, <3>1 DEF ListIsExact
  <2>3. \A i \in DOMAIN list.shown : \A n \in list.shown[i] : Sound(entries'[n].shape, list.before)
    BY <1>1, <1>5, <2>1 DEF ListIsExact
  <2>4. \A i, j \in DOMAIN list.shown :
           i < j => \A m \in list.shown[i], n \in list.shown[j] : m < n
    BY <1>5, <2>1 DEF ListIsExact
  <2>5. ListIsExact'
    BY <2>2, <2>3, <2>4 DEF ListIsExact
  <2> QED
    BY <1>1, <1>2, <2>1, <2>5
<1> QED
  BY <1>3, <1>4, <1>5 DEF ListSane

\* So a step of a request need only be looked at for its own part.
LEMMA RequestSteps ==
  ASSUME IInv, NEW r \in Requests, req' \in [Requests -> Request],
         \A q \in Requests : q # r => req'[q] = req[q],
         deleted' \in SUBSET Records,
         worldOf' \in [Works \cup Characters -> Worlds \cup {Nothing}],
         links' \in [Works \X Characters -> 0 .. 1], entries' \in Seq(Entry),
         Grows, RowsSane', RequestSane(r)', gen' = gen, list' = list
  PROVE  IInv'
<1>1. TypeOK'
  BY DEF IInv, TypeOK
<1>2. GenSane' /\ ListSane'
  BY <1>1, GenKept, ListKept DEF IInv
<1>3. ASSUME NEW q \in Requests, q # r
      PROVE  RequestSane(q)'
  <2>1. RequestSane(q) /\ req'[q] = req[q]
    BY <1>3 DEF IInv
  <2>2. req[q].before \subseteq deleted'
    BY <2>1 DEF RequestSane, Grows
  <2>3. ASSUME req[q].pc = "anchors", req[q].op = "accept"
        PROVE  /\ req[q].entry \in DOMAIN entries'
               /\ Bare(entries'[req[q].entry].shape) = Bare(req[q].shape)
    BY <2>1, <2>3 DEF RequestSane, Grows
  <2> QED
    BY <2>1, <2>2, <2>3 DEF RequestSane
<1> QED
  BY <1>1, <1>2, <1>3 DEF IInv

-----------------------------------------------------------------------------
(* The requests *)

\* A step that leaves the rows alone.
LEMMA RowsAlone ==
  ASSUME IInv, entries' = entries, deleted \subseteq deleted'
  PROVE  Grows /\ RowsSane'
BY DEF IInv, Grows, RowsSane

LEMMA LoadedIs ==
  ASSUME NEW e \in Shape
  PROVE  Loaded(e) \subseteq (1 .. 4) \X Records
<1>1. e.subject[1] = "pair" => e.subject[2] \subseteq Records
  BY ShapeIs DEF Records
<1>2. e.subject[1] # "pair" => e.subject[2] \in Records \cup {Nothing}
  BY ShapeIs DEF Records
<1>3. e.scope[2] \in Records \cup {Nothing} /\ {e.source, e.origin} \subseteq Records \cup {Nothing}
  BY ShapeIs DEF Records
<1>4. ASSUME NEW l \in Loaded(e)
      PROVE  l \in (1 .. 4) \X Records
  <2>1. l[2] # Nothing
    BY DEF Loaded
  <2>2. \/ l \in {<<1, e.scope[2]>>, <<3, e.source>>, <<4, e.origin>>}
        \/ l \in {2} \X IF e.subject[1] = "pair" THEN e.subject[2] ELSE {e.subject[2]}
    BY DEF Loaded
  <2>3. CASE l \in {<<1, e.scope[2]>>, <<3, e.source>>, <<4, e.origin>>}
    BY <1>3, <2>1, <2>3
  <2>4. CASE l \in {2} \X IF e.subject[1] = "pair" THEN e.subject[2] ELSE {e.subject[2]}
    <3> DEFINE S == IF e.subject[1] = "pair" THEN e.subject[2] ELSE {e.subject[2]}
    <3>1. S \subseteq Records \cup {Nothing}
      BY <1>1, <1>2
    <3> HIDE DEF S
    <3>2. l \in {2} \X S
      BY <2>4 DEF S
    <3> QED
      BY <2>1, <3>1, <3>2
  <2> QED
    BY <2>2, <2>3, <2>4
<1> QED
  BY <1>4

LEMMA NewRequestIs ==
  NewRequest \in Request /\ NewRequest.before = {} /\ NewRequest.pc = "new" /\ NewRequest.seen = {}
<1>1. NoShape \in Shape
  BY DEF NoShape, Shape, Types
<1>2. 0 \in Nat /\ <<>> \in (Works \X Characters) \cup {<<>>}
  OBVIOUS
<1> HIDE DEF NoShape
<1> QED
  BY <1>1, <1>2 DEF NewRequest, Request

\* The answer to a request.
LEMMA Answers ==
  ASSUME IInv, NEW r \in Requests, NEW outcome \in {"ok", "failed"}, Answered(r, outcome)
  PROVE  /\ req' \in [Requests -> Request] /\ RequestSane(r)'
         /\ \A q \in Requests : q # r => req'[q] = req[q]
<1> DEFINE x == [NewRequest EXCEPT !.pc = outcome]
<1>1. x \in Request /\ x.before = {} /\ x.pc = outcome
  BY NewRequestIs DEF Request
<1>2. req' = [req EXCEPT ![r] = x]
  BY DEF Answered
<1> HIDE DEF x
<1>3. req' \in [Requests -> Request] /\ req'[r] = x
  BY <1>1, <1>2 DEF IInv, TypeOK
<1>4. \A q \in Requests : q # r => req'[q] = req[q]
  BY <1>2 DEF IInv, TypeOK
<1>5. RequestSane(r)'
  BY <1>1, <1>3 DEF RequestSane
<1> QED
  BY <1>3, <1>4, <1>5

LEMMA BeginCreateKeeps ==
  ASSUME IInv, NEW r \in Requests, BeginCreate(r)
  PROVE  IInv'
<1>1. PICK op \in {"create", "author"} :
        \E shape \in IF op = "create" THEN Shapes ELSE {Authored(e) : e \in Shapes} :
          req' = [req EXCEPT ![r] = [NewRequest EXCEPT
                    !.pc = "validate", !.op = op, !.shape = shape,
                    !.loads = Loaded(shape), !.before = deleted]]
  BY Zenon DEF BeginCreate
<1>2. PICK shape \in IF op = "create" THEN Shapes ELSE {Authored(e) : e \in Shapes} :
          req' = [req EXCEPT ![r] = [NewRequest EXCEPT
                    !.pc = "validate", !.op = op, !.shape = shape,
                    !.loads = Loaded(shape), !.before = deleted]]
  BY <1>1
<1>3. UNCHANGED <<deleted, worldOf, links, entries, gen, list>>
  BY DEF BeginCreate
<1>4. shape \in Shape
  <2>1. CASE op = "create"
    BY <2>1, LibraryAssumption
  <2>2. CASE op = "author"
    <3>1. PICK e \in Shapes : shape = Authored(e)
      BY <2>2
    <3>2. e \in Shape
      BY LibraryAssumption
    <3>3. shape = [e EXCEPT !.source = Nothing]
      BY <3>1 DEF Authored
    <3> QED
      BY <3>2, <3>3 DEF Shape
  <2> QED
    BY <2>1, <2>2
<1> DEFINE x == [NewRequest EXCEPT !.pc = "validate", !.op = op, !.shape = shape,
                   !.loads = Loaded(shape), !.before = deleted]
<1>5. /\ x \in Request /\ x.before = deleted /\ x.pc = "validate" /\ x.op = op /\ x.seen = {}
  <2>1. deleted \in SUBSET Records /\ Loaded(shape) \in SUBSET ((1 .. 4) \X Records)
    BY <1>4, LoadedIs DEF IInv, TypeOK
  <2> QED
    BY <1>4, <2>1, NewRequestIs DEF Request
<1>6. req' = [req EXCEPT ![r] = x]
  BY <1>2
<1> HIDE DEF x
<1>7. req' \in [Requests -> Request] /\ req'[r] = x /\ \A q \in Requests : q # r => req'[q] = req[q]
  BY <1>5, <1>6 DEF IInv, TypeOK
<1>8. RequestSane(r)'
  BY <1>3, <1>5, <1>7 DEF RequestSane
<1> QED
  BY <1>3, <1>7, <1>8, RowsAlone, RequestSteps DEF IInv, TypeOK

LEMMA ValidateAnchorKeeps ==
  ASSUME IInv, NEW r \in Requests, ValidateAnchor(r)
  PROVE  IInv'
<1>1. UNCHANGED <<deleted, worldOf, links, entries, gen, list>> /\ req[r].pc = "validate"
  BY DEF ValidateAnchor
<1>2. PICK l \in req[r].loads : IF l[2] \in deleted
                               THEN Answered(r, "failed")
                               ELSE req' = [req EXCEPT ![r].loads = {k \in @ : k[2] # l[2]}]
  BY Zenon DEF ValidateAnchor
<1>3. /\ req' \in [Requests -> Request] /\ RequestSane(r)'
      /\ \A q \in Requests : q # r => req'[q] = req[q]
  <2>1. CASE l[2] \in deleted
    BY <1>2, <2>1, Answers
  <2>2. CASE l[2] \notin deleted
    <3> DEFINE x == [req[r] EXCEPT !.loads = {k \in @ : k[2] # l[2]}]
    <3>1. req[r] \in Request
      BY DEF IInv, TypeOK
    <3>2. /\ x \in Request /\ x.before = req[r].before /\ x.pc = req[r].pc
          /\ x.op = req[r].op /\ x.seen = req[r].seen
      BY <3>1 DEF Request
    <3>3. req' = [req EXCEPT ![r] = x]
      BY <1>2, <2>2
    <3> HIDE DEF x
    <3>4. req' \in [Requests -> Request] /\ req'[r] = x
          /\ \A q \in Requests : q # r => req'[q] = req[q]
      BY <3>2, <3>3 DEF IInv, TypeOK
    <3>5. RequestSane(r)'
      BY <1>1, <3>2, <3>4 DEF RequestSane, IInv
    <3> QED
      BY <3>4, <3>5
  <2> QED
    BY <2>1, <2>2
<1> QED
  BY <1>1, <1>3, RowsAlone, RequestSteps DEF IInv, TypeOK

\* A row behind the others.
LEMMA AppendedRow ==
  ASSUME IInv, NEW e \in Entry, entries' = Append(entries, e), deleted' = deleted,
         e.status = "canon" => Admitted(e.shape)
  PROVE  entries' \in Seq(Entry) /\ Grows /\ RowsSane'
<1>1. entries \in Seq(Entry)
  BY DEF IInv, TypeOK
<1>2. /\ entries' \in Seq(Entry) /\ Len(entries') = Len(entries) + 1
      /\ \A n \in 1 .. Len(entries) : entries'[n] = entries[n]
      /\ entries'[Len(entries) + 1] = e
  BY <1>1
<1>3. DOMAIN entries = 1 .. Len(entries) /\ DOMAIN entries' = 1 .. (Len(entries) + 1)
      /\ Len(entries) \in Nat
  BY <1>1, <1>2
<1>4. Grows
  BY <1>2, <1>3 DEF Grows
<1>5. ASSUME NEW n \in DOMAIN entries', entries'[n].status = "canon"
      PROVE  Admitted(entries'[n].shape)
  <2>1. n \in 1 .. Len(entries) \/ n = Len(entries) + 1
    BY <1>3
  <2>2. CASE n \in 1 .. Len(entries)
    BY <1>2, <1>3, <1>5, <2>2 DEF IInv, RowsSane
  <2>3. CASE n = Len(entries) + 1
    BY <1>2, <1>5, <2>3
  <2> QED
    BY <2>1, <2>2, <2>3
<1> QED
  BY <1>2, <1>4, <1>5 DEF RowsSane

LEMMA InsertProposalKeeps ==
  ASSUME IInv, NEW r \in Requests, InsertProposal(r)
  PROVE  IInv'
<1>1. UNCHANGED <<deleted, worldOf, links, gen, list>>
  BY DEF InsertProposal
<1>2. CASE Insertable(req[r].shape)
  <2> DEFINE e == [shape |-> req[r].shape, status |-> "proposed"]
  <2>1. entries' = Append(entries, e) /\ Answered(r, "ok")
    BY <1>2 DEF InsertProposal
  <2>2. e \in Entry /\ e.status # "canon"
    <3>1. req[r] \in Request
      BY DEF IInv, TypeOK
    <3> QED
      BY <3>1 DEF Request, Entry
  <2> HIDE DEF e
  <2>3. entries' \in Seq(Entry) /\ Grows /\ RowsSane'
    BY <1>1, <2>1, <2>2, AppendedRow
  <2>4. /\ req' \in [Requests -> Request] /\ RequestSane(r)'
        /\ \A q \in Requests : q # r => req'[q] = req[q]
    BY <2>1, Answers
  <2> QED
    BY <1>1, <2>3, <2>4, RequestSteps DEF IInv, TypeOK
<1>3. CASE ~Insertable(req[r].shape)
  <2>1. entries' = entries /\ Answered(r, "failed")
    BY <1>3 DEF InsertProposal
  <2>2. /\ req' \in [Requests -> Request] /\ RequestSane(r)'
        /\ \A q \in Requests : q # r => req'[q] = req[q]
    BY <2>1, Answers
  <2> QED
    BY <1>1, <2>1, <2>2, RowsAlone, RequestSteps DEF IInv, TypeOK
<1> QED
  BY <1>2, <1>3

LEMMA FlushAuthoredKeeps ==
  ASSUME IInv, NEW r \in Requests, FlushAuthored(r)
  PROVE  IInv'
<1>1. /\ UNCHANGED <<deleted, worldOf, links, entries, gen, list>>
      /\ req[r].pc = "validate" /\ req[r].op = "author"
  BY DEF FlushAuthored, Validated
<1>2. /\ req' \in [Requests -> Request] /\ RequestSane(r)'
      /\ \A q \in Requests : q # r => req'[q] = req[q]
  <2>1. CASE ~Insertable(req[r].shape)
    BY <2>1, Answers DEF FlushAuthored
  <2>2. CASE Insertable(req[r].shape)
    <3> DEFINE todo == Queries(AcceptanceOrder, {req[r].shape})
               x == [req[r] EXCEPT !.pc = "anchors", !.asks = todo]
    <3>1. req[r] \in Request
      BY DEF IInv, TypeOK
    <3>2. todo \in SUBSET (1 .. 6)
      BY Orders DEF Queries
    <3>3. req' = [req EXCEPT ![r] = x]
      BY <2>2 DEF FlushAuthored
    <3> HIDE DEF todo
    <3>4. /\ x \in Request /\ x.before = req[r].before /\ x.pc = "anchors"
          /\ x.op = req[r].op /\ x.seen = req[r].seen
      BY <3>1, <3>2 DEF Request
    <3> HIDE DEF x
    <3>5. req' \in [Requests -> Request] /\ req'[r] = x
          /\ \A q \in Requests : q # r => req'[q] = req[q]
      BY <3>3, <3>4 DEF IInv, TypeOK
    <3>6. req[r].seen = {} /\ req[r].before \subseteq deleted
      BY <1>1 DEF RequestSane, IInv
    <3>7. RequestSane(r)'
      BY <1>1, <3>4, <3>5, <3>6 DEF RequestSane, FoundLive
    <3> QED
      BY <3>5, <3>7
  <2> QED
    BY <2>1, <2>2
<1> QED
  BY <1>1, <1>2, RowsAlone, RequestSteps DEF IInv, TypeOK

LEMMA BeginAcceptKeeps ==
  ASSUME IInv, NEW r \in Requests, BeginAccept(r)
  PROVE  IInv'
<1>1. UNCHANGED <<deleted, worldOf, links, entries, gen, list>>
  BY DEF BeginAccept
<1>2. PICK n \in DOMAIN entries :
        req' = [req EXCEPT ![r] = [NewRequest EXCEPT
                  !.pc = "anchors", !.op = "accept", !.shape = entries[n].shape,
                  !.entry = n, !.before = deleted,
                  !.asks = Queries(AcceptanceOrder, {entries[n].shape})]]
  BY DEF BeginAccept
<1> DEFINE todo == Queries(AcceptanceOrder, {entries[n].shape})
           x == [NewRequest EXCEPT !.pc = "anchors", !.op = "accept", !.shape = entries[n].shape,
                   !.entry = n, !.before = deleted, !.asks = todo]
<1>3. req' = [req EXCEPT ![r] = x]
  BY <1>2
<1>4. todo \in SUBSET (1 .. 6)
  BY Orders DEF Queries
<1>5. n \in Nat /\ entries[n].shape \in Shape /\ deleted \in SUBSET Records
  BY RowIs DEF IInv, TypeOK
<1> HIDE DEF todo
<1>6. /\ x \in Request /\ x.before = deleted /\ x.pc = "anchors" /\ x.op = "accept"
      /\ x.seen = {} /\ x.entry = n /\ x.shape = entries[n].shape
  BY <1>4, <1>5, NewRequestIs DEF Request
<1> HIDE DEF x
<1>7. req' \in [Requests -> Request] /\ req'[r] = x /\ \A q \in Requests : q # r => req'[q] = req[q]
  BY <1>3, <1>6 DEF IInv, TypeOK
<1>8. RequestSane(r)'
  BY <1>1, <1>6, <1>7 DEF RequestSane, FoundLive
<1> QED
  BY <1>1, <1>7, <1>8, RowsAlone, RequestSteps DEF IInv, TypeOK

LEMMA CheckAnchorsKeeps ==
  ASSUME IInv, NEW r \in Requests, CheckAnchors(r)
  PROVE  IInv'
<1>1. UNCHANGED <<deleted, worldOf, links, entries, gen, list>> /\ req[r].pc = "anchors"
  BY DEF CheckAnchors
<1>2. PICK i \in req[r].asks :
        req' = [req EXCEPT ![r].asks = @ \ {i},
                  ![r].seen = @ \cup Answer(AcceptanceOrder[i], {req[r].shape}, deleted)]
  BY DEF CheckAnchors
<1> DEFINE e == req[r].shape
           k == AcceptanceOrder[i]
           found == Answer(k, {e}, deleted)
           x == [req[r] EXCEPT !.asks = @ \ {i}, !.seen = @ \cup found]
<1>3. req[r] \in Request
  BY DEF IInv, TypeOK
<1>4. e \in Shape /\ k \in Kinds
  BY <1>3, Orders DEF Request
<1>5. req' = [req EXCEPT ![r] = x]
  BY <1>2
<1>6. /\ found \subseteq Kinds \X Records
      /\ \A p \in found : Active(p[1], p[2], deleted) /\ p[2] \in Wanted(p[1], e)
  <2>1. {e} \in SUBSET Shape
    BY <1>4
  <2>2. /\ found \subseteq Kinds \X Records
        /\ \A p \in found : /\ p = <<k, p[2]>> /\ Active(k, p[2], deleted)
                            /\ \E f \in {e} : p[2] \in Wanted(k, f)
    <3> HIDE DEF k, e
    <3> QED
      BY <1>4, <2>1, AnswerIs
  <2>3. ASSUME NEW p \in found
        PROVE  Active(p[1], p[2], deleted) /\ p[2] \in Wanted(p[1], e)
    <3> HIDE DEF found, k, e
    <3>1. p = <<k, p[2]>> /\ Active(k, p[2], deleted) /\ p[2] \in Wanted(k, e)
      BY <2>2
    <3>2. p[1] = k
      BY <3>1
    <3> QED
      BY <3>1, <3>2
  <2> QED
    BY <2>2, <2>3
<1> HIDE DEF found
<1>7. /\ x \in Request /\ x.before = req[r].before /\ x.pc = "anchors" /\ x.op = req[r].op
      /\ x.seen = req[r].seen \cup found /\ x.entry = req[r].entry /\ x.shape = e
  BY <1>1, <1>3, <1>6 DEF Request
<1> HIDE DEF x
<1>8. req' \in [Requests -> Request] /\ req'[r] = x /\ \A q \in Requests : q # r => req'[q] = req[q]
  BY <1>5, <1>7 DEF IInv, TypeOK
<1>9. RequestSane(r)
  BY DEF IInv
<1>10. FoundLive(x.seen, x.before)
  BY <1>1, <1>6, <1>7, <1>9, ActiveBefore DEF FoundLive, RequestSane
<1>11. RequestSane(r)'
  BY <1>1, <1>6, <1>7, <1>8, <1>9, <1>10 DEF RequestSane, FoundLive
<1> QED
  BY <1>1, <1>8, <1>11, RowsAlone, RequestSteps DEF IInv, TypeOK

\* What acceptance finds is live, and was so when the request began.
LEMMA Accepts ==
  ASSUME IInv, NEW r \in Requests, req[r].pc = "anchors", Acceptable(r)
  PROVE  /\ req[r].shape \in Shape /\ Admitted(req[r].shape) /\ Sound(req[r].shape, req[r].before)
         /\ req[r].shape.origin # Nothing => WorkOf[req[r].shape.origin] \notin req[r].before
<1> DEFINE e == req[r].shape
           seen == req[r].seen
<1>1. e \in Shape
  <2>1. req[r] \in Request
    BY DEF IInv, TypeOK
  <2> QED
    BY <2>1 DEF Request
<1>2. RequestSane(r)
  BY DEF IInv
<1>3. /\ FoundLive(seen, req[r].before)
      /\ \A p \in seen : p[2] \in Wanted(p[1], e)
  BY <1>2 DEF RequestSane
<1>4. AnchorsAreLive(e, seen) /\ SourceIsLive(e, seen)
      /\ (e.origin = Nothing \/ <<"origin", e.origin>> \in seen)
  BY DEF Acceptable
<1>5. ASSUME e.origin # Nothing
      PROVE  WorkOf[e.origin] \notin req[r].before
  <2>1. <<"origin", e.origin>> \in seen
    BY <1>4, <1>5
  <2>2. Active("origin", e.origin, req[r].before)
    BY <1>3, <2>1 DEF FoundLive
  <2> QED
    BY <2>2 DEF Active
<1> HIDE DEF e, seen
<1>6. Admitted(e) /\ Sound(e, req[r].before)
  BY <1>1, <1>3, <1>4, AcceptedIsAdmitted, SurvivorIsSound
<1> QED
  BY <1>1, <1>5, <1>6 DEF e

LEMMA CommitCanonKeeps ==
  ASSUME IInv, NEW r \in Requests, CommitCanon(r)
  PROVE  IInv'
<1>1. UNCHANGED <<deleted, worldOf, links, gen, list>> /\ req[r].pc = "anchors"
  BY DEF CommitCanon
<1>2. PICK outcome \in {"ok", "failed"} : Answered(r, outcome)
  BY DEF CommitCanon
<1>3. /\ req' \in [Requests -> Request] /\ RequestSane(r)'
      /\ \A q \in Requests : q # r => req'[q] = req[q]
  BY <1>2, Answers
<1>4. CASE ~Acceptable(r)
  <2>1. entries' = entries
    BY <1>4 DEF CommitCanon
  <2> QED
    BY <1>1, <1>3, <2>1, RowsAlone, RequestSteps DEF IInv, TypeOK
<1>5. CASE Acceptable(r) /\ req[r].op # "accept"
  <2> DEFINE e == [shape |-> req[r].shape, status |-> "canon"]
  <2>1. entries' = Append(entries, e)
    BY <1>5 DEF CommitCanon
  <2>2. e \in Entry /\ Admitted(e.shape)
    BY <1>1, <1>5, Accepts DEF Entry
  <2> HIDE DEF e
  <2>3. entries' \in Seq(Entry) /\ Grows /\ RowsSane'
    BY <1>1, <2>1, <2>2, AppendedRow
  <2> QED
    BY <1>1, <1>3, <2>3, RequestSteps DEF IInv, TypeOK
<1>6. CASE Acceptable(r) /\ req[r].op = "accept"
  <2> DEFINE n == req[r].entry
             x == [entries[n] EXCEPT !.status = "canon"]
  <2>1. entries' = [entries EXCEPT ![n] = x]
    BY <1>6 DEF CommitCanon
  <2>2. n \in DOMAIN entries /\ Bare(entries[n].shape) = Bare(req[r].shape)
    BY <1>1, <1>6 DEF IInv, RequestSane
  <2>3. entries \in Seq(Entry) /\ entries[n] \in Entry /\ entries[n].shape \in Shape
    BY <2>2, RowIs DEF IInv, TypeOK
  <2>4. x \in Entry /\ x.shape = entries[n].shape /\ x.status = "canon"
    BY <2>3 DEF Entry
  <2>5. Admitted(entries[n].shape)
    BY <1>1, <1>6, <2>2, <2>3, Accepts, Alike
  <2> HIDE DEF n, x
  <2>6. /\ entries' \in Seq(Entry) /\ DOMAIN entries' = DOMAIN entries /\ entries'[n] = x
        /\ \A m \in DOMAIN entries : m # n => entries'[m] = entries[m]
    BY <2>1, <2>2, <2>3, <2>4
  <2>7. Grows
    BY <1>1, <2>4, <2>6 DEF Grows
  <2>8. RowsSane'
    BY <2>4, <2>5, <2>6 DEF RowsSane, IInv
  <2> QED
    BY <1>1, <1>3, <2>6, <2>7, <2>8, RequestSteps DEF IInv, TypeOK
<1> QED
  BY <1>4, <1>5, <1>6

LEMMA SoftDeleteKeeps ==
  ASSUME IInv, NEW r \in Requests, SoftDelete(r)
  PROVE  IInv'
<1>1. UNCHANGED <<worldOf, links, entries, gen, list>> /\ Answered(r, "ok")
  BY DEF SoftDelete
<1>2. deleted' \in SUBSET Records /\ deleted \subseteq deleted'
  BY DEF SoftDelete, IInv, TypeOK, Records
<1>3. /\ req' \in [Requests -> Request] /\ RequestSane(r)'
      /\ \A q \in Requests : q # r => req'[q] = req[q]
  BY <1>1, Answers
<1> QED
  BY <1>1, <1>2, <1>3, RowsAlone, RequestSteps DEF IInv, TypeOK

LEMMA DeleteChapterKeeps ==
  ASSUME IInv, NEW r \in Requests, DeleteChapter(r)
  PROVE  IInv'
<1>1. UNCHANGED <<worldOf, links, gen, list>> /\ Answered(r, "ok")
  BY DEF DeleteChapter
<1>2. PICK h \in Chapters \ deleted :
        /\ deleted' = deleted \cup {h}
        /\ entries' = [n \in DOMAIN entries |->
             IF entries[n].shape.origin = h
             THEN [entries[n] EXCEPT !.shape = Bare(@)] ELSE entries[n]]
  BY DEF DeleteChapter
<1>3. deleted' \in SUBSET Records /\ deleted \subseteq deleted'
  BY <1>2 DEF IInv, TypeOK, Records
<1>4. entries \in Seq(Entry)
  BY DEF IInv, TypeOK
<1>5. ASSUME NEW n \in DOMAIN entries
      PROVE  /\ entries'[n] \in Entry /\ entries'[n].status = entries[n].status
             /\ Bare(entries'[n].shape) = Bare(entries[n].shape)
             /\ entries'[n].shape \in Shape /\ entries[n].shape \in Shape
  <2>1. entries[n] \in Entry /\ entries[n].shape \in Shape
    BY <1>4, RowIs
  <2> DEFINE x == [entries[n] EXCEPT !.shape = Bare(@)]
  <2>2. Bare(entries[n].shape) \in Shape /\ Bare(Bare(entries[n].shape)) = Bare(entries[n].shape)
    BY <2>1, BareIs
  <2>3. x \in Entry /\ x.status = entries[n].status /\ x.shape = Bare(entries[n].shape)
    BY <2>1, <2>2 DEF Entry
  <2>4. entries'[n] = x \/ entries'[n] = entries[n]
    BY <1>2
  <2> HIDE DEF x
  <2> QED
    BY <2>1, <2>2, <2>3, <2>4
<1>6. DOMAIN entries' = DOMAIN entries
  BY <1>2
<1>7. entries' \in Seq(Entry)
  <2>1. DOMAIN entries = 1 .. Len(entries) /\ Len(entries) \in Nat
    BY <1>4
  <2>2. entries' = [n \in 1 .. Len(entries) |-> entries'[n]]
    BY <1>2, <2>1
  <2> QED
    BY <1>5, <2>1, <2>2
<1>8. Grows
  BY <1>3, <1>5, <1>6 DEF Grows
<1>9. RowsSane'
  <2> SUFFICES ASSUME NEW n \in DOMAIN entries', entries'[n].status = "canon"
               PROVE  Admitted(entries'[n].shape)
    BY DEF RowsSane
  <2>1. n \in DOMAIN entries
    BY <1>6
  <2>2. Admitted(entries[n].shape)
    BY <1>5, <2>1 DEF IInv, RowsSane
  <2> QED
    BY <1>5, <2>1, <2>2, Alike
<1>10. /\ req' \in [Requests -> Request] /\ RequestSane(r)'
       /\ \A q \in Requests : q # r => req'[q] = req[q]
  BY <1>1, Answers
<1> QED
  BY <1>1, <1>3, <1>7, <1>8, <1>9, <1>10, RequestSteps DEF IInv, TypeOK

LEMMA AttachKeeps ==
  ASSUME IInv, NEW r \in Requests, Attach(r)
  PROVE  IInv'
<1>1. UNCHANGED <<deleted, links, entries, gen, list>> /\ Answered(r, "ok")
  BY DEF Attach
<1>2. worldOf' \in [Works \cup Characters -> Worlds \cup {Nothing}]
  BY DEF Attach, IInv, TypeOK
<1>3. /\ req' \in [Requests -> Request] /\ RequestSane(r)'
      /\ \A q \in Requests : q # r => req'[q] = req[q]
  BY <1>1, Answers
<1> QED
  BY <1>1, <1>2, <1>3, RowsAlone, RequestSteps DEF IInv, TypeOK

LEMMA LinkReadKeeps ==
  ASSUME IInv, NEW r \in Requests, LinkRead(r)
  PROVE  IInv'
<1>1. UNCHANGED <<deleted, worldOf, links, entries, gen, list>>
  BY DEF LinkRead
<1>2. PICK l \in DOMAIN links :
        req' = [req EXCEPT ![r].pc = "link", ![r].op = "link", ![r].link = l]
  BY DEF LinkRead
<1> DEFINE x == [req[r] EXCEPT !.pc = "link", !.op = "link", !.link = l]
<1>3. req[r] \in Request /\ l \in Works \X Characters
  BY DEF IInv, TypeOK
<1>4. req' = [req EXCEPT ![r] = x]
  BY <1>2
<1>5. x \in Request /\ x.pc = "link" /\ x.link = l /\ x.before = req[r].before
  BY <1>3 DEF Request
<1> HIDE DEF x
<1>6. req' \in [Requests -> Request] /\ req'[r] = x /\ \A q \in Requests : q # r => req'[q] = req[q]
  BY <1>4, <1>5 DEF IInv, TypeOK
<1>7. RequestSane(r)'
  BY <1>1, <1>3, <1>5, <1>6 DEF RequestSane, IInv
<1> QED
  BY <1>1, <1>6, <1>7, RowsAlone, RequestSteps DEF IInv, TypeOK

\* uq_work_character: a link is there once or not at all.
LEMMA LinkWriteKeeps ==
  ASSUME IInv, NEW r \in Requests, LinkWrite(r) \/ Unlink(r)
  PROVE  IInv'
<1>1. UNCHANGED <<deleted, worldOf, entries, gen, list>>
  BY DEF LinkWrite, Unlink
<1>2. PICK outcome \in {"ok", "failed"} : Answered(r, outcome)
  BY DEF LinkWrite, Unlink
<1>3. links' \in [Works \X Characters -> 0 .. 1]
  <2>1. links \in [Works \X Characters -> 0 .. 1]
    BY DEF IInv, TypeOK
  <2>2. CASE LinkWrite(r)
    <3>1. req[r].link \in Works \X Characters
      BY <2>2 DEF LinkWrite, IInv, RequestSane
    <3> QED
      BY <2>1, <2>2, <3>1 DEF LinkWrite
  <2>3. CASE Unlink(r)
    BY <2>1, <2>3 DEF Unlink
  <2> QED
    BY <2>2, <2>3
<1>4. /\ req' \in [Requests -> Request] /\ RequestSane(r)'
      /\ \A q \in Requests : q # r => req'[q] = req[q]
  BY <1>2, Answers
<1> QED
  BY <1>1, <1>3, <1>4, RowsAlone, RequestSteps DEF IInv, TypeOK

-----------------------------------------------------------------------------
(* The generation *)

\* A step of the generation need only be looked at for its own part.
LEMMA GenSteps ==
  ASSUME IInv, UNCHANGED <<deleted, worldOf, links, entries, req, list>>, gen' \in Gen,
         gen'.pc \notin {"rows", "live", "listed"}, GenSane'
  PROVE  IInv'
<1>1. TypeOK' /\ RowsSane' /\ \A r \in Requests : RequestSane(r)'
  BY DEF IInv, TypeOK, RowsSane, RequestSane
<1>2. ListSane'
  BY DEF ListSane
<1> QED
  BY <1>1, <1>2 DEF IInv

LEMMA CanonShapes ==
  ASSUME IInv, NEW scopes
  PROVE  Canon(scopes) \in SUBSET Shape /\ \A e \in Canon(scopes) : Admitted(e)
<1> SUFFICES ASSUME NEW e \in Canon(scopes)
             PROVE  e \in Shape /\ Admitted(e)
  OBVIOUS
<1>1. PICK n \in DOMAIN entries : e = entries[n].shape /\ entries[n].status = "canon"
  BY DEF Canon
<1> QED
  BY <1>1, RowIs DEF IInv, TypeOK, RowsSane

\* What the queries decide, when all were made: who is told rests on what was
\* live at the beginning, who is not, on something that is gone by now.
LEMMA Judged ==
  ASSUME NEW batch \in SUBSET Shape, \A e \in batch : Admitted(e), NEW seen, NEW gone,
         NEW order \in {RetrievalOrder, ListOrder},
         FoundLive(seen, gone), Found(seen, batch, order, {})
  PROVE  /\ Surviving(batch, seen) \subseteq batch
         /\ \A e \in Surviving(batch, seen) : Sound(e, gone)
         /\ \A e \in batch \ Surviving(batch, seen) : ~Sound(e, deleted)
<1>1. Surviving(batch, seen) \subseteq batch
  BY DEF Surviving
<1>2. ASSUME NEW e \in Surviving(batch, seen)
      PROVE  Sound(e, gone)
  <2>1. e \in Shape /\ SourceIsLive(e, seen) /\ AnchorsAreLive(e, seen)
    BY <1>1 DEF Surviving
  <2> QED
    BY <2>1, SurvivorIsSound
<1>3. ASSUME NEW e \in batch, Sound(e, deleted)
      PROVE  e \in Surviving(batch, seen)
  <2>1. ASSUME NEW k \in LiveKinds, NEW x \in Wanted(k, e), Active(k, x, deleted)
        PROVE  <<k, x>> \in seen
    <3>1. PICK i \in DOMAIN order : order[i] = k
      BY Orders
    <3>2. i \in (DOMAIN order) \ {}
      OBVIOUS
    <3> QED
      BY <2>1, <3>1, <3>2 DEF Found
  <2>2. SourceIsLive(e, seen) /\ AnchorsAreLive(e, seen)
    BY <1>3, <2>1, SoundSurvives
  <2> QED
    BY <2>2 DEF Surviving
<1> QED
  BY <1>1, <1>2, <1>3

\* Before the first query, only queries that would ask for nothing are done.
LEMMA NothingAsked ==
  ASSUME NEW batch, NEW order
  PROVE  Found({}, batch, order, Queries(order, batch)) /\ \A gone : FoundLive({}, gone)
BY DEF Found, Queries, FoundLive

\* One more query.
LEMMA OneMoreAsked ==
  ASSUME NEW batch \in SUBSET Shape, NEW order, NEW asks, NEW i \in asks, order[i] \in Kinds,
         NEW seen \in SUBSET (Kinds \X Records), NEW gone, gone \subseteq deleted,
         FoundLive(seen, gone), Found(seen, batch, order, asks)
  PROVE  LET more == seen \cup Answer(order[i], batch, deleted) IN
           /\ more \in SUBSET (Kinds \X Records)
           /\ FoundLive(more, gone) /\ Found(more, batch, order, asks \ {i})
<1> DEFINE k == order[i]
           found == Answer(k, batch, deleted)
           more == seen \cup found
<1>1. /\ found \subseteq Kinds \X Records
      /\ \A p \in found : p = <<k, p[2]>> /\ Active(k, p[2], deleted)
      /\ \A e \in batch : \A x \in Wanted(k, e) : Active(k, x, deleted) => <<k, x>> \in found
  <2> HIDE DEF k
  <2>1. k \in Kinds
    BY DEF k
  <2> QED
    BY <2>1, AnswerIs
<1> HIDE DEF found
<1>2. more \in SUBSET (Kinds \X Records)
  BY <1>1
<1>3. FoundLive(more, gone)
  <2> SUFFICES ASSUME NEW p \in more
               PROVE  Active(p[1], p[2], gone)
    BY DEF FoundLive
  <2>1. CASE p \in seen
    BY <2>1 DEF FoundLive
  <2>2. CASE p \in found
    <3>1. p[1] = k /\ Active(k, p[2], deleted)
      BY <1>1, <2>2
    <3> QED
      BY <3>1, ActiveBefore
  <2> QED
    BY <2>1, <2>2
<1>4. Found(more, batch, order, asks \ {i})
  <2> SUFFICES ASSUME NEW j \in (DOMAIN order) \ (asks \ {i}), NEW e \in batch,
                      NEW x \in Wanted(order[j], e), Active(order[j], x, deleted)
               PROVE  <<order[j], x>> \in more
    BY DEF Found
  <2>1. CASE j = i
    BY <1>1, <2>1
  <2>2. CASE j # i
    <3>1. j \in (DOMAIN order) \ asks
      BY <2>2
    <3> QED
      BY <3>1 DEF Found
  <2> QED
    BY <2>1, <2>2
<1> QED
  BY <1>2, <1>3, <1>4 DEF found

\* The one snapshot of a continuation.
LEMMA NovelGenerateKeeps ==
  ASSUME IInv, NovelGenerate
  PROVE  IInv'
<1>1. UNCHANGED <<deleted, worldOf, links, entries, req, list>>
  BY DEF NovelGenerate
<1>2. PICK h \in Chapters :
        LET work == WorkOf[h]
            characters == {c \in Characters : CastOf(work)[c] > 0}
            scopes == Selectors(work, WorldOf(work), characters)
            found == Canon(scopes)
            seen == UNION {Answer(RetrievalOrder[k], found, deleted) :
                             k \in DOMAIN RetrievalOrder}
        IN gen' = [pc |-> "novel", scopes |-> {}, found |-> found, asks |-> {},
                   seen |-> {}, told |-> Surviving(found, seen),
                   cast |-> CastOf(work), world |-> WorldOf(work), before |-> deleted]
  BY DEF NovelGenerate
<1> DEFINE work == WorkOf[h]
           characters == {c \in Characters : CastOf(work)[c] > 0}
           found == Canon(Selectors(work, WorldOf(work), characters))
           Part(k) == Answer(RetrievalOrder[k], found, deleted)
           seen == UNION {Part(k) : k \in DOMAIN RetrievalOrder}
<1>3. work \in Works
  BY LibraryAssumption
<1>4. gen' = [pc |-> "novel", scopes |-> {}, found |-> found, asks |-> {},
              seen |-> {}, told |-> Surviving(found, seen),
              cast |-> CastOf(work), world |-> WorldOf(work), before |-> deleted]
  BY <1>2
<1>5. found \in SUBSET Shape /\ \A e \in found : Admitted(e)
  BY CanonShapes
<1> HIDE DEF work, characters, found
<1>6. ASSUME NEW k \in DOMAIN RetrievalOrder
      PROVE  /\ \A p \in Part(k) : Active(p[1], p[2], deleted)
             /\ \A e \in found : \A x \in Wanted(RetrievalOrder[k], e) :
                  Active(RetrievalOrder[k], x, deleted) => <<RetrievalOrder[k], x>> \in Part(k)
  <2> DEFINE kind == RetrievalOrder[k]
  <2>1. kind \in Kinds
    BY Orders
  <2> HIDE DEF kind
  <2>2. /\ \A p \in Answer(kind, found, deleted) :
              p = <<kind, p[2]>> /\ Active(kind, p[2], deleted)
        /\ \A e \in found : \A x \in Wanted(kind, e) :
              Active(kind, x, deleted) => <<kind, x>> \in Answer(kind, found, deleted)
    BY <1>5, <2>1, AnswerIs
  <2>3. \A p \in Answer(kind, found, deleted) : p[1] = kind
    BY <2>2
  <2> QED
    BY <2>2, <2>3 DEF kind
<1> HIDE DEF Part
<1>7. FoundLive(seen, deleted) /\ Found(seen, found, RetrievalOrder, {})
  BY <1>6 DEF FoundLive, Found
<1> HIDE DEF seen
<1>8. /\ Surviving(found, seen) \subseteq found
      /\ \A e \in Surviving(found, seen) : Sound(e, deleted)
      /\ \A e \in found \ Surviving(found, seen) : ~Sound(e, deleted)
  BY <1>5, <1>7, Judged
<1>9. /\ CastOf(work) \in [Characters -> 0 .. 1]
      /\ \A c \in Characters : CastOf(work)[c] > 0 => CastOf(work)[c] = 1 /\ c \notin deleted
  <2>1. \A c \in Characters : links[<<work, c>>] \in 0 .. 1
    BY <1>3 DEF IInv, TypeOK
  <2> QED
    BY <2>1 DEF CastOf
<1>10. WorldOf(work) \in Worlds \cup {Nothing} /\ WorldOf(work) \notin deleted
  <2>1. worldOf[work] \in Worlds \cup {Nothing} /\ Nothing \notin deleted
    BY <1>3, LibraryAssumption DEF IInv, TypeOK, Records
  <2> QED
    BY <2>1 DEF WorldOf
<1>11. /\ gen'.pc = "novel" /\ gen'.found = found /\ gen'.told = Surviving(found, seen)
       /\ gen'.cast = CastOf(work) /\ gen'.world = WorldOf(work) /\ gen'.before = deleted
       /\ gen' \in Gen
  <2>1. deleted \in SUBSET Records /\ Surviving(found, seen) \in SUBSET Shape
    BY <1>5, <1>8 DEF IInv, TypeOK
  <2> QED
    BY <1>4, <1>5, <1>9, <1>10, <2>1 DEF Gen
<1>12. GenSane'
  <2>1. RetrievedIsSound' /\ OnlyOrphansExcluded'
    BY <1>1, <1>8, <1>11 DEF RetrievedIsSound, OnlyOrphansExcluded
  <2>2. CastIsLive'
    BY <1>9, <1>10, <1>11 DEF CastIsLive
  <2> QED
    BY <1>1, <1>11, <2>1, <2>2 DEF GenSane
<1> QED
  BY <1>1, <1>11, <1>12, GenSteps

LEMMA ChatBeginKeeps ==
  ASSUME IInv, ChatBegin
  PROVE  IInv'
<1>1. UNCHANGED <<deleted, worldOf, links, entries, req, list>> /\ gen.pc = "new"
  BY DEF ChatBegin
<1>2. PICK c \in Characters :
        gen' = [gen EXCEPT !.pc = "candidates", !.world = worldOf[c],
                           !.cast = [@ EXCEPT ![c] = 1],
                           !.scopes = Selectors(Nothing, worldOf[c], {c}), !.before = deleted]
  BY DEF ChatBegin
<1> DEFINE cast == [gen.cast EXCEPT ![c] = 1]
           scopes == Selectors(Nothing, worldOf[c], {c})
<1>3. gen \in Gen /\ worldOf[c] \in Worlds \cup {Nothing} /\ deleted \in SUBSET Records
  BY DEF IInv, TypeOK
<1>4. cast \in [Characters -> 0 .. 1]
  <2>1. gen.cast \in [Characters -> 0 .. 1]
    BY <1>3 DEF Gen
  <2> QED
    BY <2>1
<1>5. scopes \in SUBSET ({"user", "work", "world", "character"} \X (Records \cup {Nothing}))
  BY <1>3 DEF Selectors, Named, Records
<1>6. gen' = [gen EXCEPT !.pc = "candidates", !.world = worldOf[c], !.cast = cast,
                         !.scopes = scopes, !.before = deleted]
  BY <1>2
<1> HIDE DEF cast, scopes
<1>7. gen' \in Gen /\ gen'.pc = "candidates" /\ gen'.before = deleted /\ gen'.seen = gen.seen
  BY <1>3, <1>4, <1>5, <1>6 DEF Gen
<1>8. GenSane'
  BY <1>1, <1>7 DEF GenSane, RetrievedIsSound, OnlyOrphansExcluded, CastIsLive, IInv
<1> QED
  BY <1>1, <1>7, <1>8, GenSteps

LEMMA ChatCandidatesKeeps ==
  ASSUME IInv, ChatCandidates
  PROVE  IInv'
<1> DEFINE found == Canon(gen.scopes)
           todo == Queries(RetrievalOrder, found)
<1>1. /\ UNCHANGED <<deleted, worldOf, links, entries, req, list>> /\ gen.pc = "candidates"
      /\ gen' = [gen EXCEPT !.pc = "anchors", !.found = found, !.asks = todo]
  BY DEF ChatCandidates
<1>2. found \in SUBSET Shape /\ \A e \in found : Admitted(e)
  BY CanonShapes
<1>3. todo \in SUBSET (1 .. 5)
  BY Orders DEF Queries
<1>4. gen \in Gen /\ gen.seen = {} /\ gen.before \subseteq deleted
  BY <1>1 DEF IInv, TypeOK, GenSane
<1>5. Found({}, found, RetrievalOrder, todo) /\ FoundLive({}, gen.before)
  BY NothingAsked
<1> HIDE DEF found, todo
<1>6. /\ gen' \in Gen /\ gen'.pc = "anchors" /\ gen'.before = gen.before /\ gen'.seen = {}
      /\ gen'.found = found /\ gen'.asks = todo
  BY <1>1, <1>2, <1>3, <1>4 DEF Gen
<1>7. Found(gen.seen, gen.found, RetrievalOrder, gen.asks)'
  BY <1>1, <1>5, <1>6 DEF Found
<1>8. GenSane'
  BY <1>1, <1>2, <1>4, <1>5, <1>6, <1>7
  DEF GenSane, RetrievedIsSound, OnlyOrphansExcluded, CastIsLive
<1> QED
  BY <1>1, <1>6, <1>8, GenSteps

LEMMA ChatAnchorsKeeps ==
  ASSUME IInv, ChatAnchors
  PROVE  IInv'
<1>1. UNCHANGED <<deleted, worldOf, links, entries, req, list>> /\ gen.pc = "anchors"
  BY DEF ChatAnchors
<1>2. PICK i \in gen.asks :
        gen' = [gen EXCEPT !.asks = @ \ {i},
                           !.seen = @ \cup Answer(RetrievalOrder[i], gen.found, deleted)]
  BY DEF ChatAnchors
<1> DEFINE more == gen.seen \cup Answer(RetrievalOrder[i], gen.found, deleted)
<1>3. gen \in Gen /\ gen.before \subseteq deleted
  BY DEF IInv, TypeOK, GenSane
<1>4. /\ gen.found \in SUBSET Shape /\ gen.asks \in SUBSET (1 .. 5)
      /\ gen.seen \in SUBSET (Kinds \X Records)
  BY <1>3 DEF Gen
<1>5. /\ FoundLive(gen.seen, gen.before) /\ Found(gen.seen, gen.found, RetrievalOrder, gen.asks)
      /\ \A e \in gen.found : Admitted(e)
  BY <1>1 DEF IInv, GenSane
<1>6. RetrievalOrder[i] \in Kinds
  BY <1>4, Orders
<1>7. /\ more \in SUBSET (Kinds \X Records) /\ FoundLive(more, gen.before)
      /\ Found(more, gen.found, RetrievalOrder, gen.asks \ {i})
  BY <1>3, <1>4, <1>5, <1>6, OneMoreAsked
<1>8. gen' = [gen EXCEPT !.asks = @ \ {i}, !.seen = more]
  BY <1>2
<1> HIDE DEF more
<1>9. /\ gen' \in Gen /\ gen'.pc = "anchors" /\ gen'.before = gen.before /\ gen'.seen = more
      /\ gen'.found = gen.found /\ gen'.asks = gen.asks \ {i}
  BY <1>1, <1>3, <1>4, <1>7, <1>8 DEF Gen
<1>10. Found(gen.seen, gen.found, RetrievalOrder, gen.asks)'
  BY <1>1, <1>7, <1>9 DEF Found
<1>11. GenSane'
  BY <1>1, <1>3, <1>5, <1>7, <1>9, <1>10
  DEF GenSane, RetrievedIsSound, OnlyOrphansExcluded, CastIsLive
<1> QED
  BY <1>1, <1>9, <1>11, GenSteps

LEMMA ChatRetrievedKeeps ==
  ASSUME IInv, ChatRetrieved
  PROVE  IInv'
<1> DEFINE told == Surviving(gen.found, gen.seen)
<1>1. /\ UNCHANGED <<deleted, worldOf, links, entries, req, list>>
      /\ gen.pc = "anchors" /\ gen.asks = {}
      /\ gen' = [gen EXCEPT !.pc = "chat", !.told = told, !.scopes = {}, !.seen = {}]
  BY DEF ChatRetrieved
<1>2. gen \in Gen /\ gen.found \in SUBSET Shape /\ gen.before \subseteq deleted
  BY DEF IInv, TypeOK, GenSane, Gen
<1>3. /\ FoundLive(gen.seen, gen.before) /\ Found(gen.seen, gen.found, RetrievalOrder, {})
      /\ \A e \in gen.found : Admitted(e)
  BY <1>1 DEF IInv, GenSane
<1>4. /\ told \subseteq gen.found
      /\ \A e \in told : Sound(e, gen.before)
      /\ \A e \in gen.found \ told : ~Sound(e, deleted)
  BY <1>2, <1>3, Judged
<1> HIDE DEF told
<1>5. /\ gen' \in Gen /\ gen'.pc = "chat" /\ gen'.before = gen.before /\ gen'.told = told
      /\ gen'.found = gen.found
  BY <1>1, <1>2, <1>4 DEF Gen
<1>6. GenSane'
  BY <1>1, <1>2, <1>4, <1>5 DEF GenSane, RetrievedIsSound, OnlyOrphansExcluded, CastIsLive
<1> QED
  BY <1>1, <1>5, <1>6, GenSteps

-----------------------------------------------------------------------------
(* The list *)

\* A step of the list need only be looked at for its own part.
LEMMA ListSteps ==
  ASSUME IInv, UNCHANGED <<deleted, worldOf, links, entries, req>>,
         NEW label \in {"rows", "live", "listed"}, gen' = [gen EXCEPT !.pc = label],
         gen.pc \in {"new", "rows", "live"}, list' \in List, ListSane'
  PROVE  IInv'
<1>1. gen \in Gen
  BY DEF IInv, TypeOK
<1>2. gen' \in Gen /\ gen'.pc = label /\ gen'.before = gen.before
  BY <1>1 DEF Gen
<1>3. TypeOK' /\ RowsSane' /\ \A r \in Requests : RequestSane(r)'
  BY <1>2 DEF IInv, TypeOK, RowsSane, RequestSane
<1>4. GenSane'
  BY <1>2 DEF IInv, GenSane, RetrievedIsSound, OnlyOrphansExcluded, CastIsLive
<1> QED
  BY <1>3, <1>4 DEF IInv

LEMMA NoListIs ==
  /\ NoList \in List /\ NoList.items = {} /\ NoList.shown = <<>> /\ NoList.seen = {}
  /\ NoList.page = {} /\ NoList.more = FALSE
BY DEF NoList, List

LEMMA CanonRowsAre ==
  ASSUME IInv
  PROVE  /\ CanonRows \subseteq 1 .. Len(entries) /\ Len(entries) \in Nat
         /\ IsFiniteSet(CanonRows)
         /\ \A n \in CanonRows : entries[n].shape \in Shape /\ Admitted(entries[n].shape)
<1>1. entries \in Seq(Entry)
  BY DEF IInv, TypeOK
<1>2. CanonRows \subseteq 1 .. Len(entries) /\ Len(entries) \in Nat
  BY <1>1 DEF CanonRows
<1>3. IsFiniteSet(CanonRows)
  <2>1. IsFiniteSet(1 .. Len(entries))
    BY <1>2, FS_Interval
  <2> QED
    BY <1>2, <2>1, FS_Subset
<1> QED
  BY <1>1, <1>2, <1>3, RowIs DEF CanonRows, IInv, RowsSane

\* The first PageLimit rows: some, if there are any, and no gap between them.
LEMMA LowestIs ==
  ASSUME NEW S \in SUBSET Nat, IsFiniteSet(S)
  PROVE  /\ Lowest(S) \subseteq S
         /\ \A m \in Lowest(S), n \in S : n <= m => n \in Lowest(S)
         /\ S # {} => Lowest(S) # {}
<1> DEFINE Upto(n) == {m \in S : m <= n}
<1>1. ASSUME NEW n \in S
      PROVE  IsFiniteSet(Upto(n)) /\ Cardinality(Upto(n)) \in Nat
  <2>1. Upto(n) \subseteq S
    OBVIOUS
  <2>2. IsFiniteSet(Upto(n))
    BY <2>1, FS_Subset
  <2> QED
    BY <2>2, FS_CardinalityType
<1>2. PageLimit \in Nat \ {0}
  BY LibraryAssumption
<1>3. ASSUME NEW m \in Lowest(S), NEW n \in S, n <= m
      PROVE  n \in Lowest(S)
  <2>1. m \in S /\ Cardinality(Upto(m)) <= PageLimit
    BY DEF Lowest
  <2>2. Upto(n) \subseteq Upto(m)
    <3>1. m \in Nat /\ n \in Nat /\ \A k \in S : k \in Nat
      BY <2>1
    <3>2. \A k \in S : k <= n => k <= m
      BY <1>3, <3>1
    <3> QED
      BY <3>2
  <2>3. Cardinality(Upto(n)) <= Cardinality(Upto(m))
    BY <1>1, <2>1, <2>2, FS_Subset
  <2>4. Cardinality(Upto(n)) <= PageLimit
    BY <1>1, <1>2, <2>1, <2>3
  <2> QED
    BY <2>4 DEF Lowest
<1>4. ASSUME S # {}
      PROVE  Lowest(S) # {}
  <2>1. PICK n \in S : \A m \in S : n <= m
    BY <1>4, LeastNatural
  <2>2. Upto(n) = {n}
    <3>1. \A k \in S : k \in Nat
      OBVIOUS
    <3>2. n <= n /\ \A k \in S : k <= n => k = n
      BY <2>1, <3>1
    <3> QED
      BY <3>2
  <2>3. Cardinality(Upto(n)) = 1
    BY <2>2, FS_Singleton
  <2>4. Cardinality(Upto(n)) <= PageLimit
    BY <1>2, <2>3
  <2> QED
    BY <2>4 DEF Lowest
<1> QED
  BY <1>3, <1>4 DEF Lowest

\* The last of some rows.
LEMMA MaxIs ==
  ASSUME NEW S \in SUBSET Nat, S # {}, NEW b \in Nat, \A n \in S : n <= b
  PROVE  Max(S) \in S /\ \A n \in S : n <= Max(S)
<1>1. PICK x \in S : \A n \in S : n <= x
  BY GreatestNatural
<1>2. \E y \in S : \A n \in S : y >= n
  BY <1>1
<1>3. Max(S) \in S /\ \A n \in S : Max(S) >= n
  BY <1>2 DEF Max
<1> QED
  BY <1>3

LEMMA ListBeginKeeps ==
  ASSUME IInv, ListBegin
  PROVE  IInv'
<1>1. /\ UNCHANGED <<deleted, worldOf, links, entries, req>> /\ gen.pc = "new"
      /\ gen' = [gen EXCEPT !.pc = "rows"]
      /\ list' = [NoList EXCEPT !.begun = CanonRows, !.before = deleted]
  BY DEF ListBegin, UnchangedByList
<1>2. CanonRows \in SUBSET Nat /\ deleted \in SUBSET Records
  BY CanonRowsAre DEF IInv, TypeOK
<1>3. /\ list' \in List /\ list'.begun = CanonRows /\ list'.before = deleted
      /\ list'.items = {} /\ list'.shown = <<>> /\ list'.after = 0
  BY <1>1, <1>2, NoListIs DEF List, NoList
<1>4. CanonRows' = CanonRows
  BY <1>1 DEF CanonRows
<1>5. \A n \in CanonRows : ~(n <= 0)
  BY CanonRowsAre
<1>6. ShownSane'
  BY <1>1, <1>3, <1>4, <1>5 DEF ShownSane
<1>7. gen'.pc = "rows"
  BY <1>1 DEF IInv, TypeOK, Gen
<1>8. ListSane'
  BY <1>6, <1>7 DEF ListSane
<1> QED
  BY <1>1, <1>3, <1>8, ListSteps

LEMMA ListRowsKeeps ==
  ASSUME IInv, ListRows
  PROVE  IInv'
<1> DEFINE rest == {n \in CanonRows : n > list.after}
           rows == {<<n, entries[n].shape>> : n \in Lowest(rest)}
           shapes == {x[2] : x \in rows}
           todo == Queries(ListOrder, shapes)
<1>1. /\ UNCHANGED <<deleted, worldOf, links, entries, req>> /\ gen.pc = "rows"
      /\ gen' = [gen EXCEPT !.pc = "live"]
      /\ list' = [list EXCEPT !.page = rows, !.more = (Lowest(rest) # rest), !.seen = {},
                              !.asks = todo]
  BY DEF ListRows, UnchangedByList
<1>2. list \in List /\ list.after \in Nat /\ ShownSane
  BY <1>1 DEF IInv, TypeOK, List, ListSane
<1>3. /\ rest \in SUBSET Nat /\ IsFiniteSet(rest) /\ rest \subseteq CanonRows
      /\ \A n \in rest : list.after < n
  <2>1. rest \subseteq CanonRows
    OBVIOUS
  <2>2. IsFiniteSet(rest)
    BY <2>1, CanonRowsAre, FS_Subset
  <2> QED
    BY <1>2, <2>1, <2>2, CanonRowsAre
<1>4. /\ Lowest(rest) \subseteq rest
      /\ \A m \in Lowest(rest), n \in rest : n <= m => n \in Lowest(rest)
      /\ rest # {} => Lowest(rest) # {}
  BY <1>3, LowestIs
<1>5. \A n \in CanonRows : list.after < n => n \in rest
  BY <1>2, CanonRowsAre
<1> HIDE DEF rest
<1>6. /\ rows \in SUBSET (Nat \X Shape)
      /\ \A x \in rows : x[1] \in Lowest(rest) /\ x[2] = entries[x[1]].shape
      /\ \A n \in Lowest(rest) : <<n, entries[n].shape>> \in rows
  <2>1. \A n \in Lowest(rest) : n \in Nat /\ entries[n].shape \in Shape
    BY <1>3, <1>4, CanonRowsAre
  <2> QED
    BY <2>1
<1>7. todo \in SUBSET (1 .. 5) /\ Found({}, shapes, ListOrder, todo)
      /\ FoundLive({}, list.before)
  <2>1. todo \in SUBSET (1 .. 5)
    BY Orders DEF Queries
  <2> HIDE DEF shapes
  <2> QED
    BY <2>1, NothingAsked
<1> HIDE DEF rows
<1>8. /\ list' \in List /\ list'.page = rows /\ list'.more = (Lowest(rest) # rest)
      /\ list'.seen = {} /\ list'.asks = todo /\ list'.after = list.after
      /\ list'.items = list.items /\ list'.shown = list.shown
      /\ list'.begun = list.begun /\ list'.before = list.before
  <2> HIDE DEF todo
  <2> QED
    BY <1>1, <1>2, <1>6, <1>7 DEF List
<1>9. CanonRows' = CanonRows
  BY <1>1 DEF CanonRows
<1>10. ShownSane'
  BY <1>1, <1>2, <1>8, <1>9 DEF ShownSane
<1>11. PageSane'
  <2>1. ASSUME NEW x \in rows
        PROVE  /\ x[1] \in CanonRows /\ list.after < x[1]
               /\ Bare(x[2]) = Bare(entries[x[1]].shape) /\ Admitted(x[2])
    BY <1>3, <1>4, <1>6, CanonRowsAre
  <2>2. Lowest(rest) # rest => rows # {}
    BY <1>4, <1>6
  <2>3. ASSUME NEW n \in list.begun, list.after < n
        PROVE  \/ n \in {x[1] : x \in rows}
               \/ Lowest(rest) # rest /\ \A m \in {x[1] : x \in rows} : m < n
    <3>1. n \in rest
      BY <1>2, <1>5, <2>3 DEF ShownSane
    <3>2. CASE n \in Lowest(rest)
      <4>1. <<n, entries[n].shape>>[1] = n
        OBVIOUS
      <4> QED
        BY <1>6, <3>2, <4>1
    <3>3. CASE n \notin Lowest(rest)
      <4>1. ASSUME NEW x \in rows
            PROVE  x[1] < n
        <5>1. x[1] \in Lowest(rest) /\ x[1] \in Nat /\ n \in Nat
          BY <1>3, <1>4, <1>6, <3>1
        <5>2. ~(n <= x[1])
          BY <1>4, <3>1, <3>3, <5>1
        <5> QED
          BY <5>1, <5>2
      <4> QED
        BY <3>1, <3>3, <4>1
    <3> QED
      BY <3>2, <3>3
  <2>4. Found(list.seen, {x[2] : x \in list.page}, ListOrder, list.asks)'
    BY <1>1, <1>7, <1>8 DEF Found
  <2>5. FoundLive(list.seen, list.before)'
    BY <1>7, <1>8
  <2> QED
    BY <1>1, <1>8, <1>9, <2>1, <2>2, <2>3, <2>4, <2>5 DEF PageSane, Rows
<1>12. gen'.pc = "live"
  BY <1>1 DEF IInv, TypeOK, Gen
<1>13. ListSane'
  BY <1>10, <1>11, <1>12 DEF ListSane
<1> QED
  BY <1>1, <1>8, <1>13, ListSteps
LEMMA ListAnchorsKeeps ==
  ASSUME IInv, ListAnchors
  PROVE  IInv'
<1> DEFINE shapes == {x[2] : x \in list.page}
<1>1. UNCHANGED <<deleted, worldOf, links, entries, req>> /\ gen.pc = "live" /\ gen' = gen
  BY DEF ListAnchors, UnchangedByList
<1>2. PICK i \in list.asks :
        list' = [list EXCEPT !.asks = @ \ {i},
                   !.seen = @ \cup Answer(ListOrder[i], {x[2] : x \in list.page}, deleted)]
  BY DEF ListAnchors
<1> DEFINE more == list.seen \cup Answer(ListOrder[i], shapes, deleted)
<1>3. list \in List /\ gen \in Gen /\ ShownSane /\ PageSane /\ list.before \subseteq deleted
  BY <1>1 DEF IInv, TypeOK, ListSane, ShownSane
<1>4. /\ list.page \in SUBSET (Nat \X Shape) /\ list.asks \in SUBSET (1 .. 5)
      /\ list.seen \in SUBSET (Kinds \X Records)
  BY <1>3 DEF List
<1>5. shapes \in SUBSET Shape /\ ListOrder[i] \in Kinds
  BY <1>4, Orders
<1>6. FoundLive(list.seen, list.before) /\ Found(list.seen, shapes, ListOrder, list.asks)
  BY <1>3 DEF PageSane
<1>7. list' = [list EXCEPT !.asks = @ \ {i}, !.seen = more]
  BY <1>2
<1>8. /\ more \in SUBSET (Kinds \X Records) /\ FoundLive(more, list.before)
      /\ Found(more, shapes, ListOrder, list.asks \ {i})
  <2> HIDE DEF shapes
  <2> QED
    BY <1>3, <1>4, <1>5, <1>6, OneMoreAsked
<1> HIDE DEF more
<1>9. /\ list' \in List /\ list'.seen = more /\ list'.asks = list.asks \ {i}
      /\ list'.page = list.page /\ list'.more = list.more /\ list'.after = list.after
      /\ list'.items = list.items /\ list'.shown = list.shown
      /\ list'.begun = list.begun /\ list'.before = list.before
  BY <1>3, <1>4, <1>7, <1>8 DEF List
<1>10. CanonRows' = CanonRows
  BY <1>1 DEF CanonRows
<1>11. ShownSane'
  BY <1>1, <1>3, <1>9, <1>10 DEF ShownSane
<1>12. Found(list.seen, {x[2] : x \in list.page}, ListOrder, list.asks)'
  BY <1>1, <1>8, <1>9 DEF Found
<1>13. PageSane'
  BY <1>1, <1>3, <1>8, <1>9, <1>10, <1>12 DEF PageSane, Rows
<1>14. gen' = [gen EXCEPT !.pc = "live"]
  BY <1>1, <1>3 DEF Gen
<1>15. ListSane'
  BY <1>1, <1>11, <1>13 DEF ListSane
<1> QED
  BY <1>1, <1>9, <1>14, <1>15, ListSteps

\* What has been collected when all queries were made: canon, behind what was
\* shown, sound, and no live row of the beginning is left out of it, unless it
\* is behind the rows that were read.
LEMMA CollectedIs ==
  ASSUME IInv, gen.pc = "live", list.asks = {}
  PROVE  /\ Collected \in SUBSET Nat /\ IsFiniteSet(Collected) /\ Collected \subseteq CanonRows
         /\ \A i \in DOMAIN list.shown : \A m \in list.shown[i], n \in Collected : m < n
         /\ \A n \in Collected : Sound(entries[n].shape, list.before)
         /\ \A n \in Collected : n <= list.after \/ n \in Rows(list)
         /\ \A n \in list.begun :
              Sound(entries[n].shape, deleted) =>
                \/ n \in Collected \/ \E i \in DOMAIN list.shown : n \in list.shown[i]
                \/ list.more /\ list.after < n /\ \A m \in Rows(list) : m < n
<1>1. list \in List /\ ShownSane /\ PageSane
  BY DEF IInv, TypeOK, ListSane
<1>2. /\ list.page \in SUBSET (Nat \X Shape) /\ list.after \in Nat /\ list.begun \in SUBSET Nat
      /\ list.items \in SUBSET Nat /\ list.shown \in Seq(SUBSET Nat)
  BY <1>1 DEF List
<1> DEFINE shapes == {x[2] : x \in list.page}
<1>3. shapes \in SUBSET Shape /\ \A x \in list.page : x[2] \in shapes
  BY <1>2
<1>4. /\ FoundLive(list.seen, list.before) /\ Found(list.seen, shapes, ListOrder, {})
      /\ \A e \in shapes : Admitted(e)
  BY <1>1 DEF PageSane
<1> HIDE DEF shapes
<1>5. ASSUME NEW x \in list.page
      PROVE  /\ x[1] \in CanonRows /\ list.after < x[1] /\ x[1] \in Rows(list) /\ x[2] \in Shape
             /\ x[2] \in Surviving({x[2]}, list.seen) =>
                  Sound(entries[x[1]].shape, list.before)
             /\ Sound(entries[x[1]].shape, deleted) => x[2] \in Surviving({x[2]}, list.seen)
  <2>1. /\ x[1] \in CanonRows /\ list.after < x[1]
        /\ Bare(x[2]) = Bare(entries[x[1]].shape)
    BY <1>1 DEF PageSane
  <2>2. x[1] \in Rows(list)
    BY DEF Rows
  <2>3. x[2] \in Shape /\ entries[x[1]].shape \in Shape /\ x[2] \in shapes
    BY <1>3, <2>1, CanonRowsAre
  <2>4. \A gone : Sound(x[2], gone) <=> Sound(entries[x[1]].shape, gone)
    BY <2>1, <2>3, Alike
  <2>5. /\ \A e \in Surviving(shapes, list.seen) : Sound(e, list.before)
        /\ \A e \in shapes \ Surviving(shapes, list.seen) : ~Sound(e, deleted)
    BY <1>3, <1>4, Judged
  <2>6. x[2] \in Surviving({x[2]}, list.seen) <=> x[2] \in Surviving(shapes, list.seen)
    BY <2>3 DEF Surviving
  <2> QED
    BY <2>1, <2>2, <2>3, <2>4, <2>5, <2>6
<1> DEFINE live == {x[1] : x \in {y \in list.page : y[2] \in Surviving({y[2]}, list.seen)}}
<1>6. Collected = list.items \cup live
  BY DEF Collected
<1>7. ASSUME NEW n \in live
      PROVE  /\ n \in CanonRows /\ n \in Rows(list) /\ list.after < n
             /\ Sound(entries[n].shape, list.before)
  BY <1>5
<1>8. ASSUME NEW n \in Rows(list), Sound(entries[n].shape, deleted)
      PROVE  n \in live
  <2>1. PICK x \in list.page : n = x[1]
    BY DEF Rows
  <2>2. x[2] \in Surviving({x[2]}, list.seen)
    BY <1>5, <1>8, <2>1
  <2> QED
    BY <2>1, <2>2
<1> HIDE DEF live
<1>9. \A n \in list.items :
        n \in CanonRows /\ Sound(entries[n].shape, list.before) /\ n <= list.after
  BY <1>1 DEF ShownSane
<1>10. Collected \subseteq CanonRows
  BY <1>6, <1>7, <1>9
<1>11. Collected \in SUBSET Nat /\ IsFiniteSet(Collected)
  <2>1. CanonRows \in SUBSET Nat /\ IsFiniteSet(CanonRows)
    BY CanonRowsAre
  <2> QED
    BY <1>10, <2>1, FS_Subset
<1>12. ASSUME NEW i \in DOMAIN list.shown, NEW m \in list.shown[i], NEW n \in Collected
       PROVE  m < n
  <2>1. m <= list.after /\ \A k \in list.items : m < k
    BY <1>1 DEF ShownSane
  <2>2. m \in Nat /\ n \in Nat
    <3>1. m \in CanonRows
      BY <1>1 DEF ShownSane
    <3> QED
      BY <1>11, <3>1, CanonRowsAre
  <2> QED
    BY <1>2, <1>6, <1>7, <2>1, <2>2
<1>13. ASSUME NEW n \in list.begun, Sound(entries[n].shape, deleted)
       PROVE  \/ n \in Collected \/ \E i \in DOMAIN list.shown : n \in list.shown[i]
              \/ list.more /\ list.after < n /\ \A m \in Rows(list) : m < n
  <2>1. CASE n <= list.after
    BY <1>1, <1>6, <1>13, <2>1 DEF ShownSane
  <2>2. CASE list.after < n
    <3>1. n \in Rows(list) \/ (list.more /\ \A m \in Rows(list) : m < n)
      BY <1>1, <2>2 DEF PageSane
    <3> QED
      BY <1>6, <1>8, <1>13, <2>2, <3>1
  <2> QED
    BY <1>2, <2>1, <2>2
<1> QED
  BY <1>6, <1>7, <1>9, <1>10, <1>11, <1>12, <1>13

\* A page is shown: the rows keep their order.
LEMMA PageShown ==
  ASSUME IInv, gen.pc = "live", list.asks = {}, UNCHANGED entries,
         NEW page \in SUBSET Collected, NEW n \in Nat, ShowPage(page, n)
  PROVE  /\ list' \in List /\ list'.items = {} /\ list'.after = n
         /\ list'.begun = list.begun /\ list'.before = list.before
         /\ DOMAIN list'.shown = 1 .. (Len(list.shown) + 1) /\ Len(list.shown) \in Nat
         /\ DOMAIN list.shown = 1 .. Len(list.shown)
         /\ \A i \in DOMAIN list.shown : list'.shown[i] = list.shown[i]
         /\ list'.shown[Len(list.shown) + 1] = page
         /\ \A i, j \in DOMAIN list'.shown :
              i < j => \A k \in list'.shown[i], m \in list'.shown[j] : k < m
         /\ \A i \in DOMAIN list'.shown : \A m \in list'.shown[i] :
              m \in CanonRows /\ Sound(entries[m].shape, list.before)
<1>1. /\ list \in List /\ list.shown \in Seq(SUBSET Nat) /\ list.begun \in SUBSET Nat
      /\ list.before \in SUBSET Records
  BY DEF IInv, TypeOK, List
<1>2. /\ Collected \in SUBSET Nat /\ Collected \subseteq CanonRows
      /\ \A i \in DOMAIN list.shown : \A k \in list.shown[i], m \in Collected : k < m
      /\ \A m \in Collected : Sound(entries[m].shape, list.before)
  BY CollectedIs
<1> DEFINE shown == Append(list.shown, page)
<1>3. page \in SUBSET Nat
  BY <1>2
<1>4. /\ shown \in Seq(SUBSET Nat) /\ DOMAIN shown = 1 .. (Len(list.shown) + 1)
      /\ DOMAIN list.shown = 1 .. Len(list.shown) /\ Len(list.shown) \in Nat
      /\ \A i \in DOMAIN list.shown : shown[i] = list.shown[i]
      /\ shown[Len(list.shown) + 1] = page
  BY <1>1, <1>3
<1>5. list' = [NoList EXCEPT !.begun = list.begun, !.before = list.before,
                 !.after = n, !.shown = shown]
  BY DEF ShowPage
<1> HIDE DEF shown
<1>6. /\ list' \in List /\ list'.items = {} /\ list'.after = n /\ list'.shown = shown
      /\ list'.begun = list.begun /\ list'.before = list.before
  BY <1>1, <1>4, <1>5, NoListIs DEF List
<1>7. ShownSane
  BY DEF IInv, ListSane
<1>8. ASSUME NEW i \in DOMAIN shown
      PROVE  \/ i \in DOMAIN list.shown /\ shown[i] = list.shown[i]
             \/ i = Len(list.shown) + 1 /\ shown[i] = page
  BY <1>4
<1>9. ASSUME NEW i \in DOMAIN shown, NEW j \in DOMAIN shown, i < j,
             NEW k \in shown[i], NEW m \in shown[j]
      PROVE  k < m
  <2>1. i \in DOMAIN list.shown /\ shown[i] = list.shown[i]
    BY <1>4, <1>9
  <2>2. CASE j \in DOMAIN list.shown /\ shown[j] = list.shown[j]
    BY <1>7, <1>9, <2>1, <2>2 DEF ShownSane
  <2>3. CASE shown[j] = page
    BY <1>2, <2>1, <2>3
  <2> QED
    BY <1>8, <2>2, <2>3
<1>10. ASSUME NEW i \in DOMAIN shown, NEW m \in shown[i]
       PROVE  m \in CanonRows /\ Sound(entries[m].shape, list.before)
  BY <1>2, <1>7, <1>8 DEF ShownSane
<1>11. \A i, j \in DOMAIN list'.shown :
         i < j => \A k \in list'.shown[i], m \in list'.shown[j] : k < m
  BY <1>6, <1>9
<1>12. \A i \in DOMAIN list'.shown : \A m \in list'.shown[i] :
         m \in CanonRows /\ Sound(entries[m].shape, list.before)
  BY <1>6, <1>10
<1>13. /\ DOMAIN list'.shown = 1 .. (Len(list.shown) + 1) /\ Len(list.shown) \in Nat
       /\ DOMAIN list.shown = 1 .. Len(list.shown)
       /\ \A i \in DOMAIN list.shown : list'.shown[i] = list.shown[i]
       /\ list'.shown[Len(list.shown) + 1] = page
  BY <1>4, <1>6
<1> QED
  BY <1>6, <1>11, <1>12, <1>13

\* A page of live entries, and the cursor behind the last of them.
LEMMA ListPageKeeps ==
  ASSUME IInv, ListPage
  PROVE  IInv'
<1> DEFINE page == Lowest(Collected)
           last == Max(page)
<1>1. /\ UNCHANGED <<deleted, worldOf, links, entries, req>> /\ gen.pc = "live"
      /\ gen' = [gen EXCEPT !.pc = "rows"] /\ list.asks = {}
      /\ Cardinality(Collected) > PageLimit /\ ShowPage(page, last)
  BY DEF ListPage, UnchangedByList
<1>2. /\ Collected \in SUBSET Nat /\ IsFiniteSet(Collected) /\ Collected \subseteq CanonRows
      /\ \A i \in DOMAIN list.shown : \A m \in list.shown[i], n \in Collected : m < n
      /\ \A n \in Collected : n <= list.after \/ n \in Rows(list)
      /\ \A n \in list.begun :
           Sound(entries[n].shape, deleted) =>
             \/ n \in Collected \/ \E i \in DOMAIN list.shown : n \in list.shown[i]
             \/ list.more /\ list.after < n /\ \A m \in Rows(list) : m < n
  BY <1>1, CollectedIs
<1>3. /\ page \subseteq Collected
      /\ \A m \in page, n \in Collected : n <= m => n \in page
      /\ Collected # {} => page # {}
  BY <1>2, LowestIs
<1>4. Collected # {}
  <2>1. PageLimit \in Nat \ {0} /\ Cardinality({}) = 0
    BY LibraryAssumption, FS_EmptySet
  <2> QED
    BY <1>1, <2>1
<1>5. page \in SUBSET Nat /\ page # {} /\ Len(entries) \in Nat /\ \A n \in page : n <= Len(entries)
  <2> HIDE DEF page
  <2>1. CanonRows \subseteq 1 .. Len(entries) /\ Len(entries) \in Nat
    BY CanonRowsAre
  <2> QED
    BY <1>2, <1>3, <1>4, <2>1
<1> HIDE DEF page
<1>6. last \in page /\ \A n \in page : n <= last
  BY <1>5, MaxIs
<1>7. last \in Nat /\ last \in Collected
  BY <1>3, <1>5, <1>6
<1> HIDE DEF last
<1>8. page \in SUBSET Collected
  BY <1>3
<1>9. /\ list' \in List /\ list'.items = {} /\ list'.after = last
      /\ list'.begun = list.begun /\ list'.before = list.before
      /\ DOMAIN list'.shown = 1 .. (Len(list.shown) + 1) /\ Len(list.shown) \in Nat
      /\ DOMAIN list.shown = 1 .. Len(list.shown)
      /\ \A i \in DOMAIN list.shown : list'.shown[i] = list.shown[i]
      /\ list'.shown[Len(list.shown) + 1] = page
      /\ \A i, j \in DOMAIN list'.shown :
           i < j => \A k \in list'.shown[i], m \in list'.shown[j] : k < m
      /\ \A i \in DOMAIN list'.shown : \A m \in list'.shown[i] :
           m \in CanonRows /\ Sound(entries[m].shape, list.before)
  BY <1>1, <1>7, <1>8, PageShown
<1>10. list \in List /\ list.after \in Nat /\ list.begun \in SUBSET Nat /\ ShownSane /\ PageSane
  BY <1>1 DEF IInv, TypeOK, ListSane, List
<1>11. ASSUME NEW i \in DOMAIN list'.shown, NEW m \in list'.shown[i]
       PROVE  m <= last
  <2>1. CASE i \in DOMAIN list.shown
    <3>1. m \in list.shown[i]
      BY <1>9, <1>11, <2>1
    <3>2. m < last /\ m \in CanonRows
      BY <1>2, <1>7, <1>10, <2>1, <3>1 DEF ShownSane
    <3>3. m \in Nat
      BY <3>2, CanonRowsAre
    <3> QED
      BY <1>7, <3>2, <3>3
  <2>2. CASE i = Len(list.shown) + 1
    BY <1>6, <1>9, <1>11, <2>2
  <2> QED
    BY <1>9, <2>1, <2>2
<1>12. ASSUME NEW n \in list.begun, n <= last, Sound(entries[n].shape, deleted)
       PROVE  \E i \in DOMAIN list'.shown : n \in list'.shown[i]
  <2>1. CASE n \in Collected
    <3>1. n \in page
      BY <1>3, <1>6, <1>12, <2>1
    <3> QED
      BY <1>9, <3>1
  <2>2. CASE \E i \in DOMAIN list.shown : n \in list.shown[i]
    BY <1>9, <2>2
  <2>3. ~(list.after < n /\ \A m \in Rows(list) : m < n)
    <3>1. n \in Nat
      BY <1>10
    <3> QED
      BY <1>2, <1>7, <1>10, <1>12, <3>1
  <2> QED
    BY <1>2, <1>12, <2>1, <2>2, <2>3
<1>13. CanonRows' = CanonRows
  BY <1>1 DEF CanonRows
<1>14. list.before \subseteq deleted /\ list.begun \subseteq CanonRows
  BY <1>10 DEF ShownSane
<1>15. ShownSane'
  BY <1>1, <1>9, <1>11, <1>12, <1>13, <1>14 DEF ShownSane
<1>16. gen'.pc = "rows"
  BY <1>1 DEF IInv, TypeOK, Gen
<1>17. ListSane'
  BY <1>15, <1>16 DEF ListSane
<1> QED
  BY <1>1, <1>9, <1>17, ListSteps

\* Rows are read on, behind the last one read.
LEMMA ListScanKeeps ==
  ASSUME IInv, ListScan
  PROVE  IInv'
<1>1. /\ UNCHANGED <<deleted, worldOf, links, entries, req>> /\ gen.pc = "live"
      /\ gen' = [gen EXCEPT !.pc = "rows"] /\ list.asks = {} /\ list.more
      /\ list' = [list EXCEPT !.items = Collected, !.after = LastRow]
  BY DEF ListScan, UnchangedByList
<1>2. /\ Collected \in SUBSET Nat /\ Collected \subseteq CanonRows
      /\ \A i \in DOMAIN list.shown : \A m \in list.shown[i], n \in Collected : m < n
      /\ \A n \in Collected : Sound(entries[n].shape, list.before)
      /\ \A n \in Collected : n <= list.after \/ n \in Rows(list)
      /\ \A n \in list.begun :
           Sound(entries[n].shape, deleted) =>
             \/ n \in Collected \/ \E i \in DOMAIN list.shown : n \in list.shown[i]
             \/ list.more /\ list.after < n /\ \A m \in Rows(list) : m < n
  BY <1>1, CollectedIs
<1>3. list \in List /\ list.after \in Nat /\ list.begun \in SUBSET Nat /\ ShownSane /\ PageSane
  BY <1>1 DEF IInv, TypeOK, ListSane, List
<1>4. /\ Rows(list) \in SUBSET Nat /\ Rows(list) # {} /\ Len(entries) \in Nat
      /\ \A n \in Rows(list) : n <= Len(entries) /\ list.after < n
  <2>1. list.page # {}
    BY <1>1, <1>3 DEF PageSane
  <2>2. \A n \in Rows(list) : n \in CanonRows /\ list.after < n
    BY <1>3 DEF PageSane, Rows
  <2>3. Rows(list) # {}
    BY <2>1 DEF Rows
  <2> QED
    BY <2>2, <2>3, CanonRowsAre
<1> DEFINE last == Max(Rows(list))
<1>5. LastRow = last
  BY DEF LastRow, Rows
<1>6. last \in Rows(list) /\ \A n \in Rows(list) : n <= last
  BY <1>4, MaxIs
<1>7. last \in Nat /\ list.after < last
  BY <1>4, <1>6
<1> HIDE DEF last
<1>8. /\ list' \in List /\ list'.items = Collected /\ list'.after = last
      /\ list'.shown = list.shown /\ list'.begun = list.begun /\ list'.before = list.before
  BY <1>1, <1>2, <1>3, <1>5, <1>7 DEF List
<1>9. \A n \in Collected : n <= last
  BY <1>2, <1>3, <1>6, <1>7
<1>10. ASSUME NEW i \in DOMAIN list.shown, NEW m \in list.shown[i]
       PROVE  /\ m \in CanonRows /\ Sound(entries[m].shape, list.before) /\ m <= last
              /\ \A n \in Collected : m < n
  <2>1. m \in CanonRows /\ Sound(entries[m].shape, list.before) /\ m <= list.after
    BY <1>3 DEF ShownSane
  <2>2. m \in Nat
    BY <2>1, CanonRowsAre
  <2> QED
    BY <1>2, <1>3, <1>7, <2>1, <2>2
<1>11. ASSUME NEW n \in list.begun, n <= last, Sound(entries[n].shape, deleted)
       PROVE  n \in Collected \/ \E i \in DOMAIN list.shown : n \in list.shown[i]
  <2>1. n \in Nat
    BY <1>3
  <2> QED
    BY <1>2, <1>6, <1>7, <1>11, <2>1
<1>12. CanonRows' = CanonRows
  BY <1>1 DEF CanonRows
<1>13. /\ list.before \subseteq deleted /\ list.begun \subseteq CanonRows
       /\ \A i, j \in DOMAIN list.shown :
            i < j => \A m \in list.shown[i], n \in list.shown[j] : m < n
  BY <1>3 DEF ShownSane
<1>14. ShownSane'
  BY <1>1, <1>2, <1>8, <1>9, <1>10, <1>11, <1>12, <1>13 DEF ShownSane
<1>15. gen'.pc = "rows"
  BY <1>1 DEF IInv, TypeOK, Gen
<1>16. ListSane'
  BY <1>14, <1>15 DEF ListSane
<1> QED
  BY <1>1, <1>8, <1>16, ListSteps

\* The last page has what is left.
LEMMA ListEndsKeeps ==
  ASSUME IInv, ListEnds
  PROVE  IInv'
<1>1. /\ UNCHANGED <<deleted, worldOf, links, entries, req>> /\ gen.pc = "live"
      /\ gen' = [gen EXCEPT !.pc = "listed"] /\ list.asks = {} /\ ~list.more
      /\ ShowPage(Collected, 0)
  BY DEF ListEnds, UnchangedByList
<1>2. \A n \in list.begun :
        Sound(entries[n].shape, deleted) =>
          n \in Collected \/ \E i \in DOMAIN list.shown : n \in list.shown[i]
  BY <1>1, CollectedIs
<1>3. ShownSane
  BY <1>1 DEF IInv, ListSane
<1>4. /\ list' \in List
      /\ list'.begun = list.begun /\ list'.before = list.before
      /\ DOMAIN list'.shown = 1 .. (Len(list.shown) + 1) /\ Len(list.shown) \in Nat
      /\ DOMAIN list.shown = 1 .. Len(list.shown)
      /\ \A i \in DOMAIN list.shown : list'.shown[i] = list.shown[i]
      /\ list'.shown[Len(list.shown) + 1] = Collected
      /\ \A i, j \in DOMAIN list'.shown :
           i < j => \A k \in list'.shown[i], m \in list'.shown[j] : k < m
      /\ \A i \in DOMAIN list'.shown : \A m \in list'.shown[i] :
           m \in CanonRows /\ Sound(entries[m].shape, list.before)
  <2>1. Collected \in SUBSET Collected /\ 0 \in Nat
    OBVIOUS
  <2> QED
    BY <1>1, <2>1, PageShown
<1>5. ASSUME NEW n \in list.begun, Sound(entries[n].shape, deleted)
      PROVE  \E i \in DOMAIN list'.shown : n \in list'.shown[i]
  <2>1. CASE n \in Collected
    BY <1>4, <2>1
  <2>2. CASE \E i \in DOMAIN list.shown : n \in list.shown[i]
    BY <1>4, <2>2
  <2> QED
    BY <1>2, <1>5, <2>1, <2>2
<1>6. CanonRows' = CanonRows
  BY <1>1 DEF CanonRows
<1>7. gen'.pc = "listed"
  BY <1>1 DEF IInv, TypeOK, Gen
<1>8. ListIsExact'
  BY <1>1, <1>4, <1>5 DEF ListIsExact
<1>9. list'.before \subseteq deleted' /\ list'.begun \subseteq CanonRows'
  BY <1>1, <1>3, <1>4, <1>6 DEF ShownSane
<1>10. \A i \in DOMAIN list'.shown : list'.shown[i] \subseteq CanonRows'
  BY <1>4, <1>6
<1>11. ListSane'
  BY <1>7, <1>8, <1>9, <1>10 DEF ListSane
<1> QED
  BY <1>1, <1>4, <1>11, ListSteps

-----------------------------------------------------------------------------
(* The invariant *)

LEMMA Initially == Init => IInv
<1> SUFFICES ASSUME Init
             PROVE  IInv
  OBVIOUS
<1>1. /\ deleted = {} /\ entries = <<>> /\ list = NoList
      /\ worldOf = [x \in Works \cup Characters |-> FirstWorld]
      /\ links = [l \in Works \X Characters |-> IF l \in FirstCast THEN 1 ELSE 0]
      /\ req = [r \in Requests |-> NewRequest]
      /\ gen = [pc |-> "new", scopes |-> {}, found |-> {}, asks |-> {}, seen |-> {},
                told |-> {}, cast |-> [c \in Characters |-> 0], world |-> Nothing,
                before |-> {}]
  BY DEF Init
<1>2. gen \in Gen /\ gen.pc = "new" /\ gen.seen = {} /\ gen.before = {}
  BY <1>1 DEF Gen
<1>3. TypeOK
  <2>1. worldOf \in [Works \cup Characters -> Worlds \cup {Nothing}]
    BY <1>1, LibraryAssumption
  <2>2. links \in [Works \X Characters -> 0 .. 1]
    BY <1>1
  <2>3. entries \in Seq(Entry)
    BY <1>1
  <2>4. req \in [Requests -> Request]
    BY <1>1, NewRequestIs
  <2> QED
    BY <1>1, <1>2, <2>1, <2>2, <2>3, <2>4, NoListIs DEF TypeOK
<1>4. RowsSane
  BY <1>1 DEF RowsSane
<1>5. GenSane
  BY <1>1, <1>2 DEF GenSane, RetrievedIsSound, OnlyOrphansExcluded, CastIsLive
<1>6. ListSane
  BY <1>2 DEF ListSane
<1>7. \A r \in Requests : RequestSane(r)
  BY <1>1, NewRequestIs DEF RequestSane
<1> QED
  BY <1>3, <1>4, <1>5, <1>6, <1>7 DEF IInv

LEMMA Inductive == IInv /\ [Next]_vars => IInv'
<1> SUFFICES ASSUME IInv, [Next]_vars
             PROVE  IInv'
  OBVIOUS
<1>1. CASE UNCHANGED vars
  <2>1. /\ UNCHANGED <<deleted, worldOf, links, entries, req, gen, list>>
        /\ TypeOK' /\ RowsSane' /\ \A r \in Requests : RequestSane(r)'
    BY <1>1 DEF vars, IInv, TypeOK, RowsSane, RequestSane
  <2>2. Grows
    BY <2>1 DEF Grows
  <2>3. GenSane' /\ ListSane'
    BY <2>1, <2>2, GenKept, ListKept DEF IInv
  <2> QED
    BY <2>1, <2>3 DEF IInv
<1>2. ASSUME NEW r \in Requests,
             \/ BeginCreate(r) \/ ValidateAnchor(r) \/ InsertProposal(r) \/ FlushAuthored(r)
             \/ BeginAccept(r) \/ CheckAnchors(r) \/ CommitCanon(r)
             \/ SoftDelete(r) \/ DeleteChapter(r) \/ Attach(r)
             \/ LinkRead(r) \/ LinkWrite(r) \/ Unlink(r)
      PROVE  IInv'
  BY <1>2, BeginCreateKeeps, ValidateAnchorKeeps, InsertProposalKeeps, FlushAuthoredKeeps,
     BeginAcceptKeeps, CheckAnchorsKeeps, CommitCanonKeeps, SoftDeleteKeeps,
     DeleteChapterKeeps, AttachKeeps, LinkReadKeeps, LinkWriteKeeps
<1>3. ASSUME \/ NovelGenerate
             \/ ChatBegin \/ ChatCandidates \/ ChatAnchors \/ ChatRetrieved
      PROVE  IInv'
  BY <1>3, NovelGenerateKeeps, ChatBeginKeeps, ChatCandidatesKeeps, ChatAnchorsKeeps,
     ChatRetrievedKeeps
<1>4. ASSUME \/ ListBegin \/ ListRows \/ ListAnchors \/ ListPage \/ ListScan \/ ListEnds
      PROVE  IInv'
  BY <1>4, ListBeginKeeps, ListRowsKeeps, ListAnchorsKeeps, ListPageKeeps, ListScanKeeps,
     ListEndsKeeps
<1> QED
  BY <1>1, <1>2, <1>3, <1>4 DEF Next

-----------------------------------------------------------------------------
(* Theorems *)

\* What every statement of every service leaves in the tables and in the
\* sessions agrees: IInv holds in every reachable state.
THEOREM Invariance == Spec => []IInv
BY Initially, Inductive, PTL DEF Spec

\* The tables and the sessions keep their types.
THEOREM TypeCorrect == Spec => []TypeOK
<1>1. IInv => TypeOK
  BY DEF IInv
<1> QED
  BY <1>1, Invariance, PTL

\* Nothing that was gone when a generation began speaks in it.
THEOREM RetrievalIsSound == Spec => []RetrievedIsSound
<1>1. IInv => RetrievedIsSound
  BY DEF IInv, GenSane
<1> QED
  BY <1>1, Invariance, PTL

\* The anchor checks never leave canon about what lives out of a generation.
THEOREM RetrievalIsComplete == Spec => []OnlyOrphansExcluded
<1>1. IInv => OnlyOrphansExcluded
  BY DEF IInv, GenSane
<1> QED
  BY <1>1, Invariance, PTL

\* The cast of a continuation is alive and nobody is in it twice.
THEOREM CastLives == Spec => []CastIsLive
<1>1. IInv => CastIsLive
  BY DEF IInv, GenSane
<1> QED
  BY <1>1, Invariance, PTL

\* A list that is read to its end is exact, for every length of a page and
\* every interleaving of its reads with the other requests.
THEOREM ListsAreExact == Spec => []ListIsExact
<1>1. IInv => ListIsExact
  BY DEF IInv, ListSane, ListIsExact
<1> QED
  BY <1>1, Invariance, PTL

Requested(r) ==
    \/ BeginCreate(r) \/ ValidateAnchor(r) \/ InsertProposal(r) \/ FlushAuthored(r)
    \/ BeginAccept(r) \/ CheckAnchors(r) \/ CommitCanon(r)
    \/ SoftDelete(r) \/ DeleteChapter(r) \/ Attach(r)
    \/ LinkRead(r) \/ LinkWrite(r) \/ Unlink(r)

\* A request changes no other, and it leaves the anchors only by CommitCanon.
LEMMA OneRequest ==
  ASSUME IInv, NEW q \in Requests, Requested(q), NEW r \in Requests,
         req[r].pc = "anchors", req'[r].pc = "ok"
  PROVE  CommitCanon(r)
<1>1. ASSUME NEW x, req' = [req EXCEPT ![q] = x], q # r
      PROVE  FALSE
  BY <1>1 DEF IInv, TypeOK
<1>2. ASSUME NEW outcome, Answered(q, outcome), q # r
      PROVE  FALSE
  BY <1>1, <1>2 DEF Answered
<1>3. CASE \/ InsertProposal(q) \/ SoftDelete(q) \/ DeleteChapter(q) \/ Attach(q)
           \/ LinkWrite(q) \/ Unlink(q)
  <2>1. q = r
    BY <1>2, <1>3 DEF InsertProposal, SoftDelete, DeleteChapter, Attach, LinkWrite, Unlink
  <2> QED
    BY <1>3, <2>1 DEF InsertProposal, Validated, SoftDelete, DeleteChapter, Attach, LinkWrite,
                      Unlink, Arrives
<1>4. CASE BeginCreate(q)
  <2>1. PICK op \in {"create", "author"} :
          \E shape \in IF op = "create" THEN Shapes ELSE {Authored(e) : e \in Shapes} :
            req' = [req EXCEPT ![q] = [NewRequest EXCEPT
                      !.pc = "validate", !.op = op, !.shape = shape,
                      !.loads = Loaded(shape), !.before = deleted]]
    BY <1>4, Zenon DEF BeginCreate
  <2>2. q = r
    BY <1>1, <2>1
  <2> QED
    BY <1>4, <2>2 DEF BeginCreate, Arrives
<1>5. CASE ValidateAnchor(q)
  <2>1. PICK l \in req[q].loads : IF l[2] \in deleted
                                 THEN Answered(q, "failed")
                                 ELSE req' = [req EXCEPT ![q].loads = {k \in @ : k[2] # l[2]}]
    BY <1>5, Zenon DEF ValidateAnchor
  <2>2. q = r
    BY <1>1, <1>2, <2>1
  <2> QED
    BY <1>5, <2>2 DEF ValidateAnchor
<1>6. CASE FlushAuthored(q)
  <2>1. \/ Answered(q, "failed")
        \/ req' = [req EXCEPT ![q].pc = "anchors",
                              ![q].asks = Queries(AcceptanceOrder, {req[q].shape})]
    BY <1>6 DEF FlushAuthored
  <2>2. q = r
    BY <1>1, <1>2, <2>1
  <2> QED
    BY <1>6, <2>2 DEF FlushAuthored, Validated
<1>7. CASE BeginAccept(q)
  <2>1. PICK n \in DOMAIN entries :
          req' = [req EXCEPT ![q] = [NewRequest EXCEPT
                    !.pc = "anchors", !.op = "accept", !.shape = entries[n].shape,
                    !.entry = n, !.before = deleted,
                    !.asks = Queries(AcceptanceOrder, {entries[n].shape})]]
    BY <1>7 DEF BeginAccept
  <2>2. q = r
    BY <1>1, <2>1
  <2> QED
    BY <1>7, <2>2 DEF BeginAccept, Arrives
<1>8. CASE CheckAnchors(q)
  <2>1. PICK i \in req[q].asks :
          req' = [req EXCEPT ![q].asks = @ \ {i},
                    ![q].seen = @ \cup Answer(AcceptanceOrder[i], {req[q].shape}, deleted)]
    BY <1>8 DEF CheckAnchors
  <2>2. q = r
    BY <1>1, <2>1
  <2>3. req[r] \in Request /\ req \in [Requests -> Request]
    BY DEF IInv, TypeOK
  <2>4. req'[r].pc = req[r].pc
    BY <2>1, <2>2, <2>3 DEF Request
  <2> QED
    BY <2>4
<1>9. CASE LinkRead(q)
  <2>1. PICK l \in DOMAIN links :
          req' = [req EXCEPT ![q].pc = "link", ![q].op = "link", ![q].link = l]
    BY <1>9 DEF LinkRead
  <2>2. q = r
    BY <1>1, <2>1
  <2> QED
    BY <1>9, <2>2 DEF LinkRead, Arrives
<1>10. CASE CommitCanon(q)
  BY <1>2, <1>10 DEF CommitCanon
<1> QED
  BY <1>3, <1>4, <1>5, <1>6, <1>7, <1>8, <1>9, <1>10 DEF Requested

\* Nothing becomes canon about what was gone when its request began.
THEOREM CanonRestsOnLive == Spec => CanonWasAnchored
<1>1. ASSUME IInv, [Next]_vars
      PROVE  [\A r \in Requests :
                req[r].pc = "anchors" /\ req'[r].pc = "ok" =>
                  /\ Sound(req[r].shape, req[r].before)
                  /\ req[r].shape.origin # Nothing =>
                       WorkOf[req[r].shape.origin] \notin req[r].before]_vars
  <2> SUFFICES ASSUME NEW r \in Requests, req[r].pc = "anchors", req'[r].pc = "ok"
               PROVE  /\ Sound(req[r].shape, req[r].before)
                      /\ req[r].shape.origin # Nothing =>
                           WorkOf[req[r].shape.origin] \notin req[r].before
    OBVIOUS
  <2>1. req' # req
    OBVIOUS
  <2>2. PICK q \in Requests : Requested(q)
    BY <1>1, <2>1 DEF vars, Next, Requested, NovelGenerate, ChatBegin, ChatCandidates, ChatAnchors,
                      ChatRetrieved, ListBegin, ListRows, ListAnchors, ListPage, ListScan,
                      ListEnds, UnchangedByList
  <2>3. CommitCanon(r)
    BY <1>1, <2>2, OneRequest
  <2>4. Acceptable(r)
    <3>1. CASE ~Acceptable(r)
      <4>1. req' = [req EXCEPT ![r] = [NewRequest EXCEPT !.pc = "failed"]]
        BY <2>3, <3>1 DEF CommitCanon, Answered
      <4>2. req'[r] = [NewRequest EXCEPT !.pc = "failed"]
        BY <1>1, <4>1 DEF IInv, TypeOK
      <4>3. req'[r].pc = "failed"
        BY <4>2 DEF NewRequest
      <4> QED
        BY <4>3
    <3> QED
      BY <3>1
  <2> QED
    BY <1>1, <2>4, Accepts
<1> QED
  BY <1>1, Invariance, PTL DEF CanonWasAnchored, Spec

=============================================================================
