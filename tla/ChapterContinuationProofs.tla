---------------------- MODULE ChapterContinuationProofs ----------------------
(***************************************************************************)
(* Theorems about ChapterContinuation on a database with row locks         *)
(* (PostgreSQL), for any number of continuations, saves, worker processes  *)
(* and tokens, and whatever texts clients write.                           *)
(***************************************************************************)
EXTENDS ChapterContinuation, NaturalLemmas, SequenceTheorems

-----------------------------------------------------------------------------
(* The inductive invariant *)

CaptureType ==
    [segment : Seq(Pieces) \ {<<>>}, offset : Nat, version : Nat,
     partial : BOOLEAN, after : Seq(Pieces) \cup {None}]

MemType ==
    [text : Seq(Pieces), doc : Seq(Pieces), version : Nat,
     pending : SUBSET Nat, partial : BOOLEAN]

BodyType ==
    [text : Seq(Pieces) \cup {None}, doc : Seq(Pieces) \cup {None}, version : Nat]

RowShape ==
    /\ exists \in BOOLEAN
    /\ text \in Seq(Pieces) /\ doc \in Seq(Pieces)
    /\ version \in Nat \ {0}
    /\ captures \in Seq(CaptureType)

RequestShape ==
    /\ pc \in [Reqs -> PCs]
    /\ mem \in [Reqs -> MemType]
    /\ body \in [Saves -> BodyType]
    /\ buffer \in [Streams -> Seq(Pieces)]
    /\ worker \in [Streams -> Workers \cup {None}]
    /\ rowLock \in Reqs \cup {None}

Shape == RowShape /\ RequestShape

\* A continuation between a locked load and its COMMIT holds the row, and what
\* it loaded is still what the row and the captures say.
Loaded(r) ==
    /\ pc[r] \in {"settling", "merge"} => exists /\ rowLock = r
    /\ pc[r] = "settling" => mem[r].text = text /\ mem[r].pending = Pending
    /\ pc[r] = "merge" => /\ mem[r].text = text
                          /\ mem[r].doc = doc
                          /\ mem[r].version = version

IInv == Shape /\ \A r \in Streams : Loaded(r)

-----------------------------------------------------------------------------
(* Facts about the data *)

\* The greatest and the least of a set of numbers.
LEMMA MaxIs ==
  ASSUME NEW S \in SUBSET Nat, NEW m \in S, \A x \in S : x <= m
  PROVE  Max(S) = m
<1>1. m \in S /\ \A y \in S : m >= y
  OBVIOUS
<1>2. Max(S) \in S /\ \A y \in S : Max(S) >= y
  BY <1>1 DEF Max
<1>3. Max(S) \in Nat /\ m \in Nat /\ Max(S) >= m /\ Max(S) <= m
  BY <1>2
<1>4. \A a, b \in Nat : a >= b /\ a <= b => a = b
  OBVIOUS
<1>. QED
  BY <1>3, <1>4, Zenon

LEMMA MinIs ==
  ASSUME NEW S \in SUBSET Nat, NEW m \in S, \A x \in S : m <= x
  PROVE  Min(S) = m
<1>1. Min(S) \in S /\ \A y \in S : Min(S) <= y
  BY DEF Min
<1>2. Min(S) \in Nat /\ m \in Nat /\ Min(S) >= m /\ Min(S) <= m
  BY <1>1
<1>3. \A a, b \in Nat : a >= b /\ a <= b => a = b
  OBVIOUS
<1>. QED
  BY <1>2, <1>3, Zenon

\* A text that is not all white space has a first and a last word.
LEMMA FirstAndLast ==
  ASSUME NEW t \in Seq(Pieces), WordsOf(t) # {}
  PROVE  /\ Min(WordsOf(t)) \in WordsOf(t) /\ Max(WordsOf(t)) \in WordsOf(t)
         /\ \A i \in WordsOf(t) : Min(WordsOf(t)) <= i /\ i <= Max(WordsOf(t))
         /\ Min(WordsOf(t)) \in 1 .. Len(t) /\ Max(WordsOf(t)) \in 1 .. Len(t)
<1>1. Len(t) \in Nat /\ DOMAIN t = 1 .. Len(t)
  BY LenProperties
<1>2. WordsOf(t) \in SUBSET Nat /\ \A i \in WordsOf(t) : i \in 1 .. Len(t) /\ i <= Len(t)
  BY <1>1 DEF WordsOf
<1>3. PICK m \in WordsOf(t) : \A i \in WordsOf(t) : m <= i
  BY <1>2, LeastNatural
<1>4. PICK n \in WordsOf(t) : \A i \in WordsOf(t) : i <= n
  BY <1>1, <1>2, GreatestNatural
<1>5. Min(WordsOf(t)) = m
  BY <1>2, <1>3, MinIs
<1>6. Max(WordsOf(t)) = n
  BY <1>2, <1>4, MaxIs
<1>. QED
  BY <1>2, <1>3, <1>4, <1>5, <1>6

\* The pieces of a text from one place to another.
LEMMA Part ==
  ASSUME NEW t \in Seq(Pieces), NEW m \in 1 .. Len(t), NEW n \in 1 .. Len(t), m <= n
  PROVE  /\ SubSeq(t, m, n) \in Seq(Pieces)
         /\ Len(SubSeq(t, m, n)) = n - m + 1
         /\ \A i \in 1 .. (n - m + 1) : SubSeq(t, m, n)[i] = t[m + i - 1]
<1>1. Len(t) \in Nat /\ \A i \in 1 .. Len(t) : t[i] \in Pieces
  BY LenProperties, ElementOfSeq
<1>2. \A i \in m .. n : t[i] \in Pieces
  BY <1>1
<1>. QED
  BY <1>1, <1>2, SubSeqProperties

\* strip() leaves a text that begins and ends with a word, or nothing.
Stripped(t) == t # <<>> => t[1] # Blank /\ t[Len(t)] # Blank

LEMMA StripStrips ==
  ASSUME NEW t \in Seq(Pieces)
  PROVE  Strip(t) \in Seq(Pieces) /\ Stripped(Strip(t))
<1>1. CASE WordsOf(t) = {}
  BY <1>1, EmptySeq DEF Strip, Stripped
<1>2. CASE WordsOf(t) # {}
  <2> DEFINE m == Min(WordsOf(t))
             n == Max(WordsOf(t))
             u == SubSeq(t, m, n)
  <2>1. /\ m \in 1 .. Len(t) /\ n \in 1 .. Len(t) /\ m <= n
        /\ t[m] # Blank /\ t[n] # Blank /\ Len(t) \in Nat
    BY <1>2, FirstAndLast, LenProperties DEF WordsOf
  <2>2. Strip(t) = u
    BY <1>2 DEF Strip
  <2>. HIDE DEF m, n
  <2>3. /\ u \in Seq(Pieces) /\ Len(u) = n - m + 1
        /\ \A i \in 1 .. (n - m + 1) : u[i] = t[m + i - 1]
    BY <2>1, Part
  <2>4. u[1] = t[m] /\ u[Len(u)] = t[n]
    <3>1. /\ 1 \in 1 .. (n - m + 1) /\ m + 1 - 1 = m
          /\ (n - m + 1) \in 1 .. (n - m + 1) /\ m + (n - m + 1) - 1 = n
      BY <2>1
    <3>2. u[1] = t[m + 1 - 1] /\ u[n - m + 1] = t[m + (n - m + 1) - 1]
      BY <2>3, <3>1
    <3>. QED
      BY <2>3, <3>1, <3>2
  <2>. QED
    BY <2>1, <2>2, <2>3, <2>4 DEF Stripped
<1>. QED
  BY <1>1, <1>2

\* rstrip() takes nothing but the white space at the end.
LEMMA RStripType ==
  ASSUME NEW t \in Seq(Pieces)
  PROVE  /\ RStrip(t) \in Seq(Pieces)
         /\ RStrip(t) = <<>> <=> WordsOf(t) = {}
         /\ WordsOf(t) # {} =>
               /\ Len(RStrip(t)) = Max(WordsOf(t))
               /\ \A i \in 1 .. Max(WordsOf(t)) : RStrip(t)[i] = t[i]
<1>1. CASE WordsOf(t) = {}
  BY <1>1, EmptySeq DEF RStrip
<1>2. CASE WordsOf(t) # {}
  <2> DEFINE n == Max(WordsOf(t))
             u == SubSeq(t, 1, n)
  <2>1. n \in 1 .. Len(t) /\ 1 \in 1 .. Len(t) /\ 1 <= n /\ Len(t) \in Nat
    BY <1>2, FirstAndLast, LenProperties
  <2>2. RStrip(t) = u
    BY <1>2 DEF RStrip
  <2>. HIDE DEF n
  <2>3. /\ u \in Seq(Pieces) /\ Len(u) = n - 1 + 1
        /\ \A i \in 1 .. (n - 1 + 1) : u[i] = t[1 + i - 1]
    BY <2>1, Part
  <2>4. Len(u) = n /\ \A i \in 1 .. n : u[i] = t[i]
    BY <2>1, <2>3
  <2>5. u # <<>>
    BY <2>1, <2>4, EmptySeq
  <2>. QED
    BY <1>2, <2>2, <2>3, <2>4, <2>5 DEF n
<1>. QED
  BY <1>1, <1>2

\* What a merge puts together is a text.
LEMMA JoinedType ==
  ASSUME NEW t \in Seq(Pieces), NEW g \in Seq(Pieces)
  PROVE  /\ Separator(t) \in Seq(Pieces)
         /\ t \o Separator(t) \in Seq(Pieces)
         /\ t \o Separator(t) \o g \in Seq(Pieces)
<1>1. Blank \in Pieces
  BY DEF Pieces
<1>2. Separator(t) \in Seq(Pieces)
  BY <1>1, EmptySeq DEF Separator
<1>3. t \o Separator(t) \in Seq(Pieces)
  BY <1>2, ConcatProperties
<1>. QED
  BY <1>2, <1>3, ConcatProperties

\* Every request is a continuation or a save, and None is neither.
LEMMA RequestNames ==
  /\ Streams \subseteq Reqs /\ Saves \subseteq Reqs
  /\ None \notin Reqs
  /\ \A r \in Streams, s \in Saves : r # s
BY ChapterAssumption DEF Reqs

\* The statements of a pass that ends: only the request's own entries change.
LEMMA EndStep ==
  ASSUME RequestShape, NEW r \in Streams, NEW how \in Ended, End(r, how),
         UNCHANGED <<body, buffer>>
  PROVE  /\ RequestShape'
         /\ pc'[r] = how
         /\ \A s \in Reqs \ {r} : pc'[s] = pc[s] /\ mem'[s] = mem[s]
         /\ \A s \in Reqs \ {r} : rowLock = s => rowLock' = s
<1>1. NoMem \in MemType
  BY EmptySeq DEF NoMem, MemType
<1>2. how \in PCs
  BY DEF PCs
<1>. QED
  BY <1>1, <1>2, RequestNames DEF RequestShape, End, Goto, FreeLock

\* Loaded survives a step of another request that leaves the row alone and
\* does not take the lock away.
LEMMA LoadedKept ==
  ASSUME NEW s \in Streams, Loaded(s), UNCHANGED row,
         pc'[s] = pc[s], mem'[s] = mem[s], rowLock = s => rowLock' = s
  PROVE  Loaded(s)'
BY DEF Loaded, row, Pending, Unsettled

\* Nothing is loaded by a continuation that does not hold the row.
LEMMA LoadedVoid ==
  ASSUME NEW s \in Streams, Loaded(s), rowLock # s, pc'[s] = pc[s]
  PROVE  Loaded(s)'
BY DEF Loaded

\* Nothing is loaded by a continuation outside its two transactions.
LEMMA LoadedOutside ==
  ASSUME NEW s \in Streams, pc'[s] \notin {"settling", "merge"}
  PROVE  Loaded(s)'
BY DEF Loaded

-----------------------------------------------------------------------------
(* The invariant, one lemma for each kind of step *)

\* A step of one request that does not write the row.
LEMMA PrivateStep ==
  ASSUME IInv, NEW r \in Reqs, UNCHANGED row, RequestShape',
         \A s \in Reqs \ {r} : /\ pc'[s] = pc[s] /\ mem'[s] = mem[s]
                               /\ rowLock = s => rowLock' = s,
         r \in Streams => Loaded(r)'
  PROVE  IInv'
<1>1. RowShape'
  BY DEF IInv, Shape, RowShape, row
<1>2. ASSUME NEW s \in Streams PROVE Loaded(s)'
  <2>1. CASE s = r
    BY <2>1
  <2>2. CASE s # r
    BY <2>2, LoadedKept, RequestNames DEF IInv
  <2>. QED
    BY <2>1, <2>2
<1>. QED
  BY <1>1, <1>2 DEF IInv, Shape

\* The steps of a continuation that end it.
LEMMA EndKeeps ==
  ASSUME IInv, NEW r \in Streams, NEW how \in Ended, End(r, how),
         UNCHANGED <<row, body, buffer>>
  PROVE  IInv'
<1>1. /\ RequestShape'
      /\ pc'[r] = how
      /\ \A s \in Reqs \ {r} : pc'[s] = pc[s] /\ mem'[s] = mem[s]
      /\ \A s \in Reqs \ {r} : rowLock = s => rowLock' = s
  BY EndStep DEF IInv, Shape
<1>2. Loaded(r)'
  BY <1>1, LoadedOutside DEF Ended
<1>. QED
  BY <1>1, <1>2, PrivateStep, RequestNames

\* The start of a continuation and what it does before it reads the chapter.
LEMMA StartKeeps ==
  ASSUME IInv, NEW r \in Streams,
         (\E w \in Workers : StartContinue(r, w)) \/ Prepare(r)
  PROVE  IInv'
<1>1. ASSUME NEW w \in Workers, StartContinue(r, w) PROVE IInv'
  <2>1. RequestShape'
    <3>1. /\ \E label \in PCs : pc' = [pc EXCEPT ![r] = label]
          /\ worker' \in {worker, [worker EXCEPT ![r] = w]}
          /\ UNCHANGED <<mem, body, buffer, rowLock>>
      BY <1>1, Zenon DEF StartContinue, Goto, PCs, Ended
    <3>2. RequestShape /\ r \in Reqs
      BY RequestNames DEF IInv, Shape
    <3>3. pc' \in [Reqs -> PCs] /\ worker' \in [Streams -> Workers \cup {None}]
      BY <3>1, <3>2 DEF RequestShape
    <3>. QED
      BY <3>1, <3>2, <3>3 DEF RequestShape
  <2>2. /\ pc'[r] \notin {"settling", "merge"}
        /\ \A s \in Reqs \ {r} : pc'[s] = pc[s] /\ mem'[s] = mem[s]
        /\ UNCHANGED <<row, rowLock>>
    BY <1>1, RequestNames DEF StartContinue, Goto, IInv, Shape, RequestShape
  <2>. QED
    BY <2>1, <2>2, LoadedOutside, PrivateStep, RequestNames
<1>2. ASSUME Prepare(r), ~End(r, "error") PROVE IInv'
  <2>1. RequestShape'
    BY <1>2, RequestNames DEF Prepare, Goto, IInv, Shape, RequestShape, PCs, Ended
  <2>2. /\ pc'[r] \notin {"settling", "merge"}
        /\ \A s \in Reqs \ {r} : pc'[s] = pc[s] /\ mem'[s] = mem[s]
        /\ UNCHANGED <<row, rowLock>>
    BY <1>2, RequestNames DEF Prepare, Goto, IInv, Shape, RequestShape
  <2>. QED
    BY <2>1, <2>2, LoadedOutside, PrivateStep, RequestNames
<1>3. ASSUME Prepare(r), End(r, "error") PROVE IInv'
  BY <1>3, EndKeeps DEF Prepare, Ended
<1>. QED
  BY <1>1, <1>2, <1>3

\* The settle pass loads the chapter under its lock.
LEMMA SettleLoadKeeps ==
  ASSUME IInv, RowLocking, NEW r \in Streams, SettleLoad(r)
  PROVE  IInv'
<1>. USE RequestNames DEF IInv, Shape
<1>1. Pending \in SUBSET Nat
  BY LenProperties DEF Pending, RowShape
<1>2. RequestShape'
  <2>1. CASE exists
    <3> DEFINE m == [mem[r] EXCEPT !.text = text, !.pending = Pending]
    <3>0. mem[r] \in MemType /\ text \in Seq(Pieces)
      BY DEF RequestShape, RowShape
    <3>2. m \in MemType
      BY <1>1, <3>0 DEF MemType
    <3>3. mem' = [mem EXCEPT ![r] = m]
      BY <2>1, <3>0 DEF SettleLoad, MemType, RequestShape
    <3>1. mem' \in [Reqs -> MemType]
      BY <3>2, <3>3 DEF RequestShape
    <3>. QED
      BY <2>1, <3>1 DEF SettleLoad, TakeLock, Goto, RequestShape, PCs
  <2>2. CASE ~exists
    BY <2>2 DEF SettleLoad, Goto, RequestShape, PCs
  <2>. QED
    BY <2>1, <2>2 DEF RowShape
<1>3. /\ UNCHANGED row
      /\ \A s \in Reqs \ {r} : /\ pc'[s] = pc[s] /\ mem'[s] = mem[s]
                               /\ rowLock = s => rowLock' = s
  BY DEF SettleLoad, TakeLock, CanLock, Goto, RequestShape
<1>4. Loaded(r)'
  <2>1. CASE exists
    <3>1. /\ pc'[r] = "settling" /\ rowLock' = r /\ exists'
          /\ mem'[r].text = text' /\ mem'[r].pending = Pending
      BY <2>1 DEF SettleLoad, TakeLock, Goto, RequestShape, MemType, row
    <3>2. Pending' = Pending
      BY <1>3 DEF Pending, Unsettled, row
    <3>. QED
      BY <3>1, <3>2 DEF Loaded
  <2>2. CASE ~exists
    BY <2>2, LoadedOutside DEF SettleLoad, Goto, RequestShape
  <2>. QED
    BY <2>1, <2>2
<1>. QED
  BY <1>2, <1>3, <1>4, PrivateStep

\* The settle pass commits: every settled capture gets the text of the chapter.
LEMMA SettleCommitKeeps ==
  ASSUME IInv, RowLocking, NEW r \in Streams, SettleCommit(r)
  PROVE  IInv'
<1>. USE RequestNames DEF IInv, Shape
<1>1. /\ exists /\ rowLock = r /\ mem[r].text = text
      /\ pc'[r] = "stream" /\ rowLock' = None
      /\ \A s \in Reqs \ {r} : pc'[s] = pc[s]
  BY DEF SettleCommit, Loaded, FreeLock, Goto, RequestShape
<1>2. captures' \in Seq(CaptureType)
  <2>1. /\ Len(captures) \in Nat
        /\ DOMAIN captures = 1 .. Len(captures)
        /\ \A k \in 1 .. Len(captures) : captures[k] \in CaptureType
    BY LenProperties DEF RowShape
  <2>2. text \in Seq(Pieces)
    BY DEF RowShape
  <2>3. captures' \in [1 .. Len(captures) -> CaptureType]
    BY <1>1, <2>1, <2>2 DEF SettleCommit, CaptureType
  <2>. QED
    BY <2>1, <2>3, SeqDef
<1>3. RowShape'
  BY <1>2 DEF SettleCommit, RowShape
<1>4. RequestShape'
  BY DEF SettleCommit, RequestShape, Goto, FreeLock, PCs
<1>5. ASSUME NEW s \in Streams PROVE Loaded(s)'
  <2>1. CASE s = r
    BY <2>1, <1>1, LoadedOutside
  <2>2. CASE s # r
    BY <2>2, <1>1, LoadedVoid
  <2>. QED
    BY <2>1, <2>2
<1>. QED
  BY <1>3, <1>4, <1>5

\* A settle pass that fails, and the stream.
LEMMA StreamKeeps ==
  ASSUME IInv, NEW r \in Streams,
         SettleFail(r) \/ Token(r) \/ StreamDone(r) \/ StreamFail(r)
  PROVE  IInv'
<1>. USE RequestNames DEF IInv, Shape
<1>1. ASSUME StreamFail(r), buffer[r] = <<>> PROVE IInv'
  BY <1>1, EndKeeps DEF StreamFail, Ended
<1>2. ASSUME \/ SettleFail(r) \/ Token(r) \/ StreamDone(r)
             \/ StreamFail(r) /\ buffer[r] # <<>>
      PROVE  IInv'
  <2>1. RequestShape'
    <3>1. CASE SettleFail(r)
      BY <3>1 DEF SettleFail, Goto, FreeLock, RequestShape, PCs
    <3>2. CASE Token(r)
      <4>1. PICK piece \in {<<r, Len(buffer[r]) + 1>>, Blank} :
               buffer' = [buffer EXCEPT ![r] = Append(@, piece)]
        BY <3>2 DEF Token
      <4>2. buffer[r] \in Seq(Pieces) /\ Len(buffer[r]) \in Nat
        BY LenProperties DEF RequestShape
      <4>3. Len(buffer[r]) + 1 \in 1 .. MaxTokens
        BY <3>2, <4>2, ChapterAssumption DEF Token
      <4>4. piece \in Pieces
        BY <4>1, <4>3 DEF Pieces
      <4>5. Append(buffer[r], piece) \in Seq(Pieces)
        BY <4>2, <4>4, AppendProperties
      <4>6. buffer' \in [Streams -> Seq(Pieces)]
        BY <4>1, <4>5 DEF RequestShape
      <4>. QED
        BY <3>2, <4>6 DEF Token, RequestShape
    <3>3. CASE StreamDone(r)
      BY <3>3 DEF StreamDone, Goto, RequestShape, PCs
    <3>4. CASE StreamFail(r) /\ buffer[r] # <<>>
      <4>1. buffer[r] # <<>>
        BY <3>4, ChapterAssumption DEF RequestShape
      <4> DEFINE m == [mem[r] EXCEPT !.partial = TRUE]
      <4>2. mem[r] \in MemType
        BY DEF RequestShape
      <4>3. m \in MemType
        BY <4>2 DEF MemType
      <4>4. mem' = [mem EXCEPT ![r] = m]
        BY <3>4, <4>1, <4>2, <4>3 DEF StreamFail, RequestShape, MemType
      <4>5. mem' \in [Reqs -> MemType]
        BY <4>3, <4>4 DEF RequestShape
      <4>. QED
        BY <3>4, <4>1, <4>5 DEF StreamFail, Goto, RequestShape, PCs
    <3>. QED
      BY <1>2, <3>1, <3>2, <3>3, <3>4
  <2>2. /\ pc'[r] \in {"stream", "append"}
        /\ \A s \in Reqs \ {r} : /\ pc'[s] = pc[s] /\ mem'[s] = mem[s]
                                 /\ rowLock = s => rowLock' = s
        /\ UNCHANGED row
    <3>1. CASE SettleFail(r)
      BY <3>1 DEF SettleFail, Goto, FreeLock, RequestShape
    <3>2. CASE Token(r)
      BY <3>2 DEF Token, RequestShape
    <3>3. CASE StreamDone(r)
      BY <3>3 DEF StreamDone, Goto, RequestShape
    <3>4. CASE StreamFail(r) /\ buffer[r] # <<>>
      <4>1. buffer[r] # <<>>
        BY <3>4, ChapterAssumption DEF RequestShape
      <4>. QED
        BY <3>4, <4>1 DEF StreamFail, Goto, RequestShape
    <3>. QED
      BY <1>2, <3>1, <3>2, <3>3, <3>4
  <2>. QED
    BY <2>1, <2>2, LoadedOutside, PrivateStep
<1>. QED
  BY <1>1, <1>2, ChapterAssumption DEF RequestShape

\* A disconnect, or a statement of the append that fails.
LEMMA FailureKeeps ==
  ASSUME IInv, NEW r \in Streams, Disconnect(r) \/ AppendFail(r)
  PROVE  IInv'
BY EndKeeps DEF Disconnect, AppendFail, Ended

\* The append loads the chapter under its lock.
LEMMA AppendLoadKeeps ==
  ASSUME IInv, RowLocking, NEW r \in Streams, AppendLoad(r)
  PROVE  IInv'
<1>. USE RequestNames DEF IInv, Shape
<1>1. CASE ~exists
  BY <1>1, EndKeeps DEF AppendLoad, Ended
<1>2. CASE exists
  <2> DEFINE m == [mem[r] EXCEPT !.text = text, !.doc = doc, !.version = version]
  <2>1. /\ mem[r] \in MemType /\ text \in Seq(Pieces) /\ doc \in Seq(Pieces)
        /\ version \in Nat
    BY DEF RequestShape, RowShape
  <2>2. m \in MemType
    BY <2>1 DEF MemType
  <2>3. mem' = [mem EXCEPT ![r] = m]
    BY <1>2, <2>1 DEF AppendLoad, MemType, RequestShape
  <2>4. mem' \in [Reqs -> MemType]
    BY <2>2, <2>3 DEF RequestShape
  <2>5. RequestShape'
    BY <1>2, <2>4 DEF AppendLoad, TakeLock, Goto, RequestShape, PCs
  <2>6. /\ UNCHANGED row
        /\ \A s \in Reqs \ {r} : /\ pc'[s] = pc[s] /\ mem'[s] = mem[s]
                                 /\ rowLock = s => rowLock' = s
    BY <1>2 DEF AppendLoad, TakeLock, CanLock, Goto, RequestShape
  <2>7. Loaded(r)'
    <3>1. mem'[r] = m
      BY <2>3 DEF RequestShape
    <3>2. m.text = text /\ m.doc = doc /\ m.version = version
      BY <2>1 DEF MemType
    <3>3. pc'[r] = "merge" /\ rowLock' = r /\ exists'
      BY <1>2 DEF AppendLoad, TakeLock, Goto, RequestShape, row
    <3>. QED
      BY <2>6, <3>1, <3>2, <3>3 DEF Loaded, row
  <2>. QED
    BY <2>5, <2>6, <2>7, PrivateStep
<1>. QED
  BY <1>1, <1>2

\* What a merge writes, on a database with row locks: the segment behind the
\* text as it is, and its capture.
LEMMA MergeStep ==
  ASSUME IInv, RowLocking, NEW r \in Streams, Merge(r)
  PROVE  /\ exists /\ rowLock = r
         /\ text' = Strip(text \o Separator(text) \o buffer[r])
         /\ doc' = IF Merged(r) = doc THEN doc ELSE Merged(r)
         /\ Merged(r) = Strip(text \o Separator(text) \o buffer[r])
         /\ version' = version + 1
         /\ captures' = IF buffer[r] = <<>> THEN captures ELSE Append(captures, Capture(r))
         /\ Capture(r) = [segment |-> buffer[r], offset |-> Len(text),
                          version |-> version + 1, partial |-> mem[r].partial,
                          after |-> None]
         /\ End(r, IF mem[r].partial THEN "error" ELSE "done")
         /\ UNCHANGED <<exists, body, buffer, settleFailed>>
<1>1. /\ exists /\ rowLock = r
      /\ mem[r].text = text /\ mem[r].doc = doc /\ mem[r].version = version
  BY DEF IInv, Loaded, Merge
<1>2. Merged(r) = Strip(text \o Separator(text) \o buffer[r])
  BY <1>1 DEF Merged
<1>3. /\ text' = Assign(text, Merged(r), text)
      /\ doc' = Assign(doc, Merged(r), doc)
      /\ version' = version + 1
      /\ MergeCapture(r)
      /\ End(r, IF mem[r].partial THEN "error" ELSE "done")
      /\ UNCHANGED <<exists, body, buffer, settleFailed>>
  BY <1>1 DEF Merge
<1>4. Capture(r) = [segment |-> buffer[r], offset |-> Len(text),
                    version |-> version + 1, partial |-> mem[r].partial,
                    after |-> None]
  BY <1>1 DEF Capture
<1>. QED
  BY <1>1, <1>2, <1>3, <1>4 DEF Assign, MergeCapture

LEMMA MergeKeeps ==
  ASSUME IInv, RowLocking, NEW r \in Streams, Merge(r)
  PROVE  IInv'
<1>. USE RequestNames DEF IInv, Shape
<1>1. buffer[r] \in Seq(Pieces) /\ text \in Seq(Pieces)
  BY DEF RequestShape, RowShape
<1>3. Merged(r) \in Seq(Pieces)
  <2>1. Strip(text \o Separator(text) \o buffer[r]) \in Seq(Pieces)
    BY <1>1, JoinedType, StripStrips
  <2>. QED
    BY <2>1, MergeStep
<1>4. PICK how \in Ended : End(r, how)
  BY MergeStep DEF Ended
<1>5. captures' \in Seq(CaptureType)
  <2>1. CASE buffer[r] = <<>>
    BY <2>1, MergeStep DEF RowShape
  <2>2. CASE buffer[r] # <<>>
    <3>1. Capture(r) \in CaptureType
      <4>1. Len(text) \in Nat /\ version + 1 \in Nat
        BY LenProperties DEF RowShape
      <4>2. mem[r].partial \in BOOLEAN
        BY DEF RequestShape, MemType
      <4>. QED
        BY <1>1, <2>2, <4>1, <4>2, MergeStep DEF CaptureType
    <3>2. captures \in Seq(CaptureType)
      BY DEF RowShape
    <3>3. Append(captures, Capture(r)) \in Seq(CaptureType)
      BY <3>1, <3>2, AppendProperties
    <3>. QED
      BY <2>2, <3>3, MergeStep
  <2>. QED
    BY <2>1, <2>2
<1>6. RowShape'
  <2>1. text' \in Seq(Pieces) /\ doc' \in Seq(Pieces)
    BY <1>3, MergeStep DEF RowShape
  <2>2. exists' \in BOOLEAN /\ version' \in Nat \ {0}
    BY MergeStep DEF RowShape
  <2>. QED
    BY <1>5, <2>1, <2>2 DEF RowShape
<1>7. /\ RequestShape'
      /\ pc'[r] = how
      /\ \A s \in Reqs \ {r} : pc'[s] = pc[s]
  BY <1>4, EndStep, MergeStep
<1>8. ASSUME NEW s \in Streams PROVE Loaded(s)'
  <2>1. CASE s = r
    BY <2>1, <1>7, LoadedOutside DEF Ended
  <2>2. CASE s # r
    BY <2>2, <1>7, MergeStep, LoadedVoid
  <2>. QED
    BY <2>1, <2>2
<1>. QED
  BY <1>6, <1>7, <1>8

\* A client loads the chapter and writes whatever it likes.
LEMMA OpenKeeps ==
  ASSUME IInv, NEW s \in Saves, Open(s)
  PROVE  IInv'
<1>. USE RequestNames DEF IInv, Shape
<1>1. PICK t \in Texts \cup {None}, d \in Texts \cup {None} :
         body' = [body EXCEPT ![s] = [text |-> t, doc |-> IF d = None THEN t ELSE d,
                                      version |-> version]]
  BY DEF Open
<1> DEFINE b == [text |-> t, doc |-> IF d = None THEN t ELSE d, version |-> version]
<1>2. b \in BodyType
  <2>1. t \in Seq(Pieces) \cup {None} /\ d \in Seq(Pieces) \cup {None} /\ version \in Nat
    BY ChapterAssumption DEF RowShape
  <2>. QED
    BY <2>1 DEF BodyType
<1>3. body' = [body EXCEPT ![s] = b]
  BY <1>1
<1>4. body' \in [Saves -> BodyType]
  BY <1>2, <1>3 DEF RequestShape
<1>5. RequestShape'
  BY <1>4 DEF Open, Goto, RequestShape, PCs
<1>6. /\ UNCHANGED <<row, rowLock>>
      /\ \A q \in Reqs \ {s} : pc'[q] = pc[q] /\ mem'[q] = mem[q]
  BY DEF Open, Goto, RequestShape
<1>. QED
  BY <1>5, <1>6, PrivateStep

\* A save compares the versions.
LEMMA SaveLoadKeeps ==
  ASSUME IInv, NEW s \in Saves, SaveLoad(s)
  PROVE  IInv'
<1>. USE RequestNames DEF IInv, Shape
<1> DEFINE m == [mem[s] EXCEPT !.text = text, !.doc = doc, !.version = version]
<1>1. /\ mem[s] \in MemType /\ text \in Seq(Pieces) /\ doc \in Seq(Pieces)
      /\ version \in Nat
  BY DEF RequestShape, RowShape
<1>2. m \in MemType
  BY <1>1 DEF MemType
<1>3. VersionMatches(s) => mem' = [mem EXCEPT ![s] = m]
  BY <1>1 DEF SaveLoad, MemType, RequestShape
<1>4. mem' \in [Reqs -> MemType]
  BY <1>2, <1>3 DEF SaveLoad, RequestShape
<1>5. RequestShape'
  BY <1>4 DEF SaveLoad, Goto, RequestShape, PCs, Ended
<1>6. /\ UNCHANGED <<row, rowLock>>
      /\ \A q \in Reqs \ {s} : pc'[q] = pc[q] /\ mem'[q] = mem[q]
  BY DEF SaveLoad, Goto, RequestShape
<1>. QED
  BY <1>5, <1>6, PrivateStep

\* A save writes; it waits for the row lock, so no continuation is between its
\* load and its COMMIT.
LEMMA SaveWriteKeeps ==
  ASSUME IInv, RowLocking, NEW s \in Saves, SaveWrite(s)
  PROVE  IInv'
<1>. USE RequestNames DEF IInv, Shape
<1>1. RowShape'
  <2>1. body[s] \in BodyType /\ mem[s] \in MemType
    BY DEF RequestShape
  <2>2. /\ Patched(body[s].text, mem[s].text) \in Seq(Pieces)
        /\ Patched(body[s].doc, mem[s].doc) \in Seq(Pieces)
        /\ mem[s].version + 1 \in Nat \ {0}
    BY <2>1 DEF Patched, BodyType, MemType
  <2>3. text \in Seq(Pieces) /\ doc \in Seq(Pieces) /\ version \in Nat \ {0}
    BY DEF RowShape
  <2>4. text' \in Seq(Pieces) /\ doc' \in Seq(Pieces) /\ version' \in Nat \ {0}
    BY <2>2, <2>3 DEF SaveWrite, Assign
  <2>. QED
    BY <2>4 DEF SaveWrite, RowShape
<1>2. RequestShape'
  BY DEF SaveWrite, Goto, RequestShape, PCs, Ended
<1>3. ASSUME NEW r \in Streams PROVE Loaded(r)'
  <2>1. rowLock # r /\ pc'[r] = pc[r]
    BY DEF SaveWrite, CanLock, Goto, RequestShape
  <2>. QED
    BY <2>1, LoadedVoid
<1>. QED
  BY <1>1, <1>2, <1>3

\* The chapter is deleted while nobody holds it.
LEMMA DeleteKeeps == ASSUME IInv, Delete PROVE IInv'
<1>. USE RequestNames DEF IInv, Shape
<1>1. RowShape'
  BY EmptySeq DEF Delete, RowShape
<1>2. RequestShape'
  BY DEF Delete, RequestShape
<1>3. ASSUME NEW r \in Streams PROVE Loaded(r)'
  BY LoadedVoid DEF Delete
<1>. QED
  BY <1>1, <1>2, <1>3

-----------------------------------------------------------------------------
\* On PostgreSQL IInv is an invariant: whoever is about to COMMIT holds the row,
\* and what it loaded is what the row still says.
THEOREM Invariance == ASSUME RowLocking PROVE Spec => []IInv
<1>1. Init => IInv
  <2> SUFFICES ASSUME Init PROVE IInv
    OBVIOUS
  <2>1. <<>> \in Seq(Pieces) /\ <<>> \in Seq(CaptureType)
    BY EmptySeq
  <2>2. NoMem \in MemType /\ NoBody \in BodyType
    BY <2>1 DEF NoMem, NoBody, MemType, BodyType
  <2>3. RowShape
    <3>1. \A t \in Texts \cup {<<>>} : t \in Seq(Pieces)
      BY <2>1, ChapterAssumption
    <3>2. text \in Seq(Pieces) /\ doc = text
      BY <3>1 DEF Init
    <3>. QED
      BY <2>1, <3>2 DEF Init, RowShape
  <2>4. RequestShape
    BY <2>2, ChapterAssumption DEF Init, RequestShape, PCs
  <2>5. \A r \in Streams : Loaded(r)
    BY RequestNames DEF Init, Loaded
  <2>. QED
    BY <2>3, <2>4, <2>5 DEF IInv, Shape
<1>2. IInv /\ [Next]_vars => IInv'
  <2> SUFFICES ASSUME IInv, [Next]_vars PROVE IInv'
    OBVIOUS
  <2>1. ASSUME NEW r \in Streams,
               (\E w \in Workers : StartContinue(r, w)) \/ Prepare(r)
        PROVE  IInv'
    BY <2>1, StartKeeps
  <2>2. ASSUME NEW r \in Streams, SettleLoad(r) \/ SettleCommit(r) PROVE IInv'
    BY <2>2, SettleLoadKeeps, SettleCommitKeeps
  <2>3. ASSUME NEW r \in Streams,
               SettleFail(r) \/ Token(r) \/ StreamDone(r) \/ StreamFail(r)
        PROVE  IInv'
    BY <2>3, StreamKeeps
  <2>4. ASSUME NEW r \in Streams, AppendLoad(r) \/ Merge(r) PROVE IInv'
    BY <2>4, AppendLoadKeeps, MergeKeeps
  <2>5. ASSUME NEW r \in Streams, Disconnect(r) \/ AppendFail(r) PROVE IInv'
    BY <2>5, FailureKeeps
  <2>6. ASSUME NEW s \in Saves, Open(s) \/ SaveStep(s) PROVE IInv'
    BY <2>6, OpenKeeps, SaveLoadKeeps, SaveWriteKeeps DEF SaveStep
  <2>7. CASE Delete
    BY <2>7, DeleteKeeps
  <2>8. CASE UNCHANGED vars
    <3>1. Shape'
      BY <2>8 DEF IInv, Shape, RowShape, RequestShape, vars, row
    <3>2. \A r \in Streams : Loaded(r)'
      BY <2>8, LoadedKept DEF IInv, vars, row
    <3>. QED
      BY <3>1, <3>2 DEF IInv
  <2>. QED
    BY <2>1, <2>2, <2>3, <2>4, <2>5, <2>6, <2>7, <2>8 DEF Next, StreamStep, StreamFault
<1>. QED
  BY <1>1, <1>2, PTL DEF Spec

\* Every variable stays in its type.
THEOREM TypeCorrect == ASSUME RowLocking PROVE Spec => []TypeOK
<1>1. ASSUME IInv PROVE TypeOK
  <2>1. \A k \in DOMAIN captures : captures[k] \in CaptureType
    BY <1>1, LenProperties DEF IInv, Shape, RowShape
  <2>2. \A k \in DOMAIN captures :
            /\ captures[k].segment \in Seq(Pieces) /\ captures[k].segment # <<>>
            /\ captures[k].offset \in Nat /\ captures[k].version \in Nat
            /\ captures[k].partial \in BOOLEAN
            /\ ~Unsettled(k) => captures[k].after \in Seq(Pieces)
    BY <2>1 DEF CaptureType, Unsettled
  <2>. QED
    BY <1>1, <2>2 DEF IInv, Shape, RowShape, RequestShape, TypeOK
<1>. QED
  BY <1>1, Invariance, PTL

-----------------------------------------------------------------------------
(* Captures *)

\* Only a settle pass, an append and the deletion of the chapter write captures.
LEMMA CaptureWrites ==
  ASSUME [Next]_vars
  PROVE  \/ UNCHANGED captures
         \/ \E r \in Streams : SettleCommit(r) \/ Merge(r)
         \/ Delete
<1>1. ASSUME NEW r \in Streams, StreamStep(r), ~SettleCommit(r), ~Merge(r)
      PROVE  UNCHANGED captures
  BY <1>1 DEF StreamStep, Prepare, SettleLoad, StreamDone, AppendLoad, row
<1>2. ASSUME NEW r \in Streams,
             (\E w \in Workers : StartContinue(r, w)) \/ Token(r) \/ StreamFault(r)
      PROVE  UNCHANGED captures
  BY <1>2 DEF StartContinue, Token, StreamFault, SettleFail, StreamFail, Disconnect,
              AppendFail, row
<1>3. ASSUME NEW s \in Saves, Open(s) \/ SaveStep(s) PROVE UNCHANGED captures
  BY <1>3 DEF Open, SaveStep, SaveLoad, SaveWrite, row
<1>4. UNCHANGED vars => UNCHANGED captures
  BY DEF vars, row
<1>. QED
  BY <1>1, <1>2, <1>3, <1>4 DEF Next

\* What a step does to the captures that are there before and after it: a settle
\* pass gives the unsettled ones the text of the chapter, nothing else changes
\* one of them.
LEMMA CaptureStep ==
  ASSUME RowLocking, IInv, [Next]_vars, NEW k \in DOMAIN captures \cap DOMAIN captures'
  PROVE  \/ captures'[k] = captures[k]
         \/ Unsettled(k) /\ captures'[k] = [captures[k] EXCEPT !.after = text]
<1>1. captures \in Seq(CaptureType)
  BY DEF IInv, Shape, RowShape
<1>2. ASSUME NEW r \in Streams, SettleCommit(r)
      PROVE  \/ captures'[k] = captures[k]
             \/ Unsettled(k) /\ captures'[k] = [captures[k] EXCEPT !.after = text]
  <2>1. mem[r].text = text /\ mem[r].pending = Pending
    BY <1>2 DEF SettleCommit, IInv, Loaded
  <2>. QED
    BY <1>2, <2>1 DEF SettleCommit, Pending
<1>3. ASSUME NEW r \in Streams, Merge(r) PROVE captures'[k] = captures[k]
  <2>1. buffer[r] # <<>> => captures' = Append(captures, Capture(r))
    BY <1>3, MergeStep
  <2>2. k \in 1 .. Len(captures) /\ Len(captures) \in Nat
    BY <1>1, LenProperties
  <2>3. captures' = captures \/ captures' = Append(captures, Capture(r))
    BY <1>3, MergeStep
  <2>. QED
    BY <1>1, <2>2, <2>3
<1>4. CASE Delete
  BY <1>4 DEF Delete
<1>. QED
  BY <1>2, <1>3, <1>4, CaptureWrites

\* A settled capture is never settled again: whatever settle passes of other
\* workers and appends run in between, settle_capture() writes a row once.
THEOREM SettledForGood == ASSUME RowLocking PROVE Spec => SettledOnce
<1>1. ASSUME IInv, [Next]_vars,
             NEW k \in DOMAIN captures \cap DOMAIN captures', ~Unsettled(k)
      PROVE  captures'[k].after = captures[k].after
  BY <1>1, CaptureStep
<1>2. IInv /\ [Next]_vars =>
        [\A k \in DOMAIN captures \cap DOMAIN captures' :
            ~Unsettled(k) => captures'[k].after = captures[k].after]_vars
  BY <1>1
<1>. QED
  BY <1>2, Invariance, PTL DEF Spec, SettledOnce

\* What a settle pass writes as the after-side is the chapter at that moment,
\* whatever saves and continuations race with it.
THEOREM SettledAsRead == ASSUME RowLocking PROVE Spec => SettledWithChapter
<1>1. ASSUME IInv, [Next]_vars,
             NEW k \in DOMAIN captures \cap DOMAIN captures',
             Unsettled(k), captures'[k].after # None
      PROVE  captures'[k].after = text
  <2>1. captures'[k] = [captures[k] EXCEPT !.after = text]
    BY <1>1, CaptureStep DEF Unsettled
  <2>2. captures[k] \in CaptureType
    BY <1>1, LenProperties DEF IInv, Shape, RowShape
  <2>. QED
    BY <2>1, <2>2 DEF CaptureType
<1>2. IInv /\ [Next]_vars =>
        [\A k \in DOMAIN captures \cap DOMAIN captures' :
            Unsettled(k) /\ captures'[k].after # None => captures'[k].after = text]_vars
  BY <1>1
<1>. QED
  BY <1>2, Invariance, PTL DEF Spec, SettledWithChapter

-----------------------------------------------------------------------------
(* Continuations alone *)

\* Only an append and a save write the text of a chapter that stays.
LEMMA TextWrites ==
  ASSUME [Next]_vars
  PROVE  \/ UNCHANGED <<text, doc, version>>
         \/ \E r \in Streams : Merge(r)
         \/ \E s \in Saves : SaveWrite(s)
<1>1. ASSUME NEW r \in Streams, StreamStep(r), ~Merge(r)
      PROVE  UNCHANGED <<text, doc, version>>
  BY <1>1 DEF StreamStep, Prepare, SettleLoad, SettleCommit, StreamDone, AppendLoad, row
<1>2. ASSUME NEW r \in Streams,
             (\E w \in Workers : StartContinue(r, w)) \/ Token(r) \/ StreamFault(r)
      PROVE  UNCHANGED <<text, doc, version>>
  BY <1>2 DEF StartContinue, Token, StreamFault, SettleFail, StreamFail, Disconnect,
              AppendFail, row
<1>3. ASSUME NEW s \in Saves, Open(s) \/ SaveLoad(s)
      PROVE  UNCHANGED <<text, doc, version>>
  BY <1>3 DEF Open, SaveLoad, row
<1>4. Delete \/ UNCHANGED vars => UNCHANGED <<text, doc, version>>
  BY DEF Delete, vars, row
<1>. QED
  BY <1>1, <1>2, <1>3, <1>4 DEF Next, SaveStep

\* A deleted chapter does not come back.
LEMMA Exists ==
  ASSUME [Next]_vars
  PROVE  exists' => exists
<1>1. ASSUME NEW r \in Streams, StreamStep(r) PROVE exists' => exists
  BY <1>1 DEF StreamStep, Prepare, SettleLoad, SettleCommit, StreamDone,
              AppendLoad, Merge, row
<1>2. ASSUME NEW r \in Streams,
             (\E w \in Workers : StartContinue(r, w)) \/ Token(r) \/ StreamFault(r)
      PROVE  exists' => exists
  BY <1>2 DEF StartContinue, Token, StreamFault, SettleFail, StreamFail,
              Disconnect, AppendFail, row
<1>3. ASSUME NEW s \in Saves, Open(s) \/ SaveStep(s) PROVE exists' => exists
  BY <1>3 DEF Open, SaveStep, SaveLoad, SaveWrite, row
<1>4. Delete \/ UNCHANGED vars => (exists' => exists)
  BY DEF Delete, vars, row
<1>. QED
  BY <1>1, <1>2, <1>3, <1>4 DEF Next

\* Continuations, of whatever workers, never give two texts one version number.
THEOREM VersionsAdvance ==
  ASSUME RowLocking, Saves = {}
  PROVE  Spec => VersionAdvances
<1>1. ASSUME IInv, [Next]_vars, <<text, doc>>' # <<text, doc>>
      PROVE  version' = version + 1
  BY <1>1, TextWrites, MergeStep
<1>2. IInv /\ [Next]_vars =>
        [exists' /\ <<text, doc>>' # <<text, doc>> => version' = version + 1]_vars
  BY <1>1
<1>. QED
  BY <1>2, Invariance, PTL DEF Spec, VersionAdvances

-----------------------------------------------------------------------------
(* Continuations and saves *)

\* Only the merge of r ends its transaction with a new version.
LEMMA MergeEnds ==
  ASSUME IInv, RowLocking, [Next]_vars, NEW r \in Streams,
         pc[r] = "merge", version' # version, pc'[r] # "merge"
  PROVE  Merge(r)
<1>1. ASSUME NEW q \in Streams, Merge(q) PROVE q = r
  <2>1. PICK how \in Ended : End(q, how)
    BY <1>1, MergeStep DEF Ended
  <2>. QED
    BY <2>1, RequestNames DEF End, Goto, IInv, Shape, RequestShape
<1>2. ASSUME NEW s \in Saves PROVE ~SaveWrite(s)
  BY RequestNames DEF SaveWrite, Goto, IInv, Shape, RequestShape
<1>. QED
  BY <1>1, <1>2, TextWrites

\* Whatever clients save while a continuation streams, deletes or moves, its
\* segment is put behind the text that is committed when it is appended, and the
\* capture filed with it says what was put there, where, and whether all of it.
THEOREM AppendsLatest == ASSUME RowLocking PROVE Spec => AppendsToLatest
<1> DEFINE Filed(r) == [segment |-> buffer[r], offset |-> Len(text),
                        version |-> version', partial |-> pc'[r] = "error",
                        after |-> None]
<1>1. ASSUME IInv, [Next]_vars, NEW r \in Streams,
             pc[r] = "merge", version' # version, pc'[r] # "merge"
      PROVE  /\ text' = Strip(text \o Separator(text) \o buffer[r])
             /\ version' = version + 1
             /\ captures' = IF buffer[r] = <<>> THEN captures
                            ELSE Append(captures, Filed(r))
  <2>1. Merge(r)
    BY <1>1, MergeEnds
  <2>2. mem[r].partial \in BOOLEAN
    BY <1>1, RequestNames DEF IInv, Shape, RequestShape, MemType
  <2>3. pc'[r] = IF mem[r].partial THEN "error" ELSE "done"
    <3>1. End(r, IF mem[r].partial THEN "error" ELSE "done")
      BY <1>1, <2>1, MergeStep
    <3>. QED
      BY <1>1, <3>1, RequestNames DEF End, Goto, IInv, Shape, RequestShape
  <2>4. mem[r].partial = (pc'[r] = "error")
    BY <2>2, <2>3
  <2>5. version' = version + 1
    BY <1>1, <2>1, MergeStep
  <2>6. Capture(r) = Filed(r)
    BY <1>1, <2>1, <2>4, <2>5, MergeStep
  <2>. QED
    BY <1>1, <2>1, <2>5, <2>6, MergeStep
<1>2. IInv /\ [Next]_vars =>
        [\A r \in Streams : pc[r] = "merge" /\ version' # version /\ pc'[r] # "merge" =>
            /\ text' = Strip(text \o Separator(text) \o buffer[r])
            /\ version' = version + 1
            /\ captures' = IF buffer[r] = <<>> THEN captures
                           ELSE Append(captures, Filed(r))]_vars
  BY <1>1
<1>. QED
  BY <1>2, Invariance, PTL DEF Spec, AppendsToLatest

-----------------------------------------------------------------------------
(* The captured segments are the chapter *)

TileInv ==
    /\ CapturesTile
    /\ exists => /\ Stripped(text)
                 /\ \A k \in DOMAIN captures : /\ EndOf(captures[k]) <= Len(text)
                                               /\ captures[k].version <= version

\* The n pieces of a text from offset m on.
LEMMA PiecesAt ==
  ASSUME NEW s \in Seq(Pieces), NEW m \in Nat, NEW n \in Nat, m + n <= Len(s)
  PROVE  /\ SubSeq(s, m + 1, m + n) \in Seq(Pieces)
         /\ Len(SubSeq(s, m + 1, m + n)) = n
         /\ \A i \in 1 .. n : SubSeq(s, m + 1, m + n)[i] = s[m + i]
<1>1. Len(s) \in Nat /\ \A i \in 1 .. Len(s) : s[i] \in Pieces
  BY LenProperties, ElementOfSeq
<1>2. \A i \in m + 1 .. m + n : s[i] \in Pieces
  BY <1>1
<1> DEFINE u == SubSeq(s, m + 1, m + n)
<1>3. /\ u \in Seq(Pieces)
      /\ Len(u) = IF m + 1 <= m + n THEN (m + n) - (m + 1) + 1 ELSE 0
      /\ \A i \in 1 .. (m + n) - (m + 1) + 1 : u[i] = s[(m + 1) + i - 1]
  BY <1>2, SubSeqProperties
<1>4. Len(u) = n
  BY <1>3
<1>5. ASSUME NEW i \in 1 .. n PROVE u[i] = s[m + i]
  <2>1. i \in 1 .. (m + n) - (m + 1) + 1 /\ (m + 1) + i - 1 = m + i
    OBVIOUS
  <2>. QED
    BY <1>3, <2>1
<1>. QED
  BY <1>3, <1>4, <1>5

\* Text put behind a text leaves what is there in place.
LEMMA SubSeqOfPrefix ==
  ASSUME NEW s \in Seq(Pieces), NEW t \in Seq(Pieces),
         NEW m \in Nat, NEW n \in Nat, m + n <= Len(s)
  PROVE  SubSeq(s \o t, m + 1, m + n) = SubSeq(s, m + 1, m + n)
<1>1. /\ Len(s) \in Nat /\ Len(t) \in Nat
      /\ s \o t \in Seq(Pieces) /\ m + n <= Len(s \o t)
      /\ \A i \in 1 .. Len(s) : (s \o t)[i] = s[i]
  BY LenProperties, ConcatProperties
<1>2. \A i \in 1 .. n : m + i \in 1 .. Len(s)
  BY <1>1
<1> DEFINE u == SubSeq(s, m + 1, m + n)
           v == SubSeq(s \o t, m + 1, m + n)
<1>3. /\ u \in Seq(Pieces) /\ Len(u) = n
      /\ \A i \in 1 .. n : u[i] = s[m + i]
  BY PiecesAt
<1>4. /\ v \in Seq(Pieces) /\ Len(v) = n
      /\ \A i \in 1 .. n : v[i] = (s \o t)[m + i]
  BY <1>1, PiecesAt
<1>. HIDE DEF u, v
<1>5. \A i \in 1 .. Len(u) : u[i] = v[i]
  BY <1>1, <1>2, <1>3, <1>4
<1>6. u = v
  BY <1>3, <1>4, <1>5, SeqEqual
<1>. QED
  BY <1>6 DEF u, v

\* What was put behind a text stands behind it.
LEMMA SubSeqOfSuffix ==
  ASSUME NEW s \in Seq(Pieces), NEW t \in Seq(Pieces)
  PROVE  SubSeq(s \o t, Len(s) + 1, Len(s) + Len(t)) = t
<1>1. /\ Len(s) \in Nat /\ Len(t) \in Nat
      /\ s \o t \in Seq(Pieces) /\ Len(s) + Len(t) <= Len(s \o t)
  BY LenProperties, ConcatProperties
<1>2. \A i \in 1 .. Len(t) : (s \o t)[Len(s) + i] = t[i]
  <2> TAKE i \in 1 .. Len(t)
  <2>1. /\ Len(s) + i \in 1 .. Len(s) + Len(t)
        /\ ~(Len(s) + i <= Len(s)) /\ (Len(s) + i) - Len(s) = i
    BY <1>1
  <2>. QED
    BY <2>1, ConcatProperties
<1> DEFINE v == SubSeq(s \o t, Len(s) + 1, Len(s) + Len(t))
<1>3. /\ v \in Seq(Pieces) /\ Len(v) = Len(t)
      /\ \A i \in 1 .. Len(t) : v[i] = (s \o t)[Len(s) + i]
  BY <1>1, PiecesAt
<1>. HIDE DEF v
<1>4. v = t
  BY <1>2, <1>3, SeqEqual
<1>. QED
  BY <1>4 DEF v

\* The words of two texts put together.
LEMMA WordsOfConcat ==
  ASSUME NEW s \in Seq(Pieces), NEW t \in Seq(Pieces)
  PROVE  WordsOf(s \o t) = WordsOf(s) \cup {Len(s) + i : i \in WordsOf(t)}
<1>1. /\ Len(s) \in Nat /\ Len(t) \in Nat
      /\ DOMAIN s = 1 .. Len(s) /\ DOMAIN t = 1 .. Len(t)
      /\ DOMAIN (s \o t) = 1 .. Len(s) + Len(t)
  BY LenProperties, ConcatProperties
<1>2. \A i \in 1 .. Len(s) + Len(t) :
         (s \o t)[i] = IF i <= Len(s) THEN s[i] ELSE t[i - Len(s)]
  BY ConcatProperties
<1> DEFINE u == s \o t
<1>. HIDE DEF u
<1>3. ASSUME NEW i \in WordsOf(u)
      PROVE  i \in WordsOf(s) \cup {Len(s) + j : j \in WordsOf(t)}
  <2>1. i \in 1 .. Len(s) + Len(t) /\ u[i] # Blank
    BY <1>1 DEF WordsOf, u
  <2>2. CASE i <= Len(s)
    BY <1>1, <1>2, <2>1, <2>2 DEF WordsOf, u
  <2>3. CASE ~(i <= Len(s))
    <3>1. i - Len(s) \in 1 .. Len(t) /\ i = Len(s) + (i - Len(s))
      BY <1>1, <2>1, <2>3
    <3>2. i - Len(s) \in WordsOf(t)
      BY <1>1, <1>2, <2>1, <2>3, <3>1 DEF WordsOf, u
    <3>. QED
      BY <3>1, <3>2
  <2>. QED
    BY <2>2, <2>3
<1>4. ASSUME NEW i \in WordsOf(s) PROVE i \in WordsOf(u)
  <2>1. i \in 1 .. Len(s) /\ s[i] # Blank
    BY <1>1 DEF WordsOf
  <2>2. i \in 1 .. Len(s) + Len(t) /\ i <= Len(s)
    BY <1>1, <2>1
  <2>. QED
    BY <1>1, <1>2, <2>1, <2>2 DEF WordsOf, u
<1>5. ASSUME NEW i \in WordsOf(t) PROVE Len(s) + i \in WordsOf(u)
  <2>1. i \in 1 .. Len(t) /\ t[i] # Blank
    BY <1>1 DEF WordsOf
  <2>2. /\ Len(s) + i \in 1 .. Len(s) + Len(t)
        /\ ~(Len(s) + i <= Len(s)) /\ (Len(s) + i) - Len(s) = i
    BY <1>1, <2>1
  <2>. QED
    BY <1>1, <1>2, <2>1, <2>2 DEF WordsOf, u
<1>6. WordsOf(u) = WordsOf(s) \cup {Len(s) + i : i \in WordsOf(t)}
  BY <1>3, <1>4, <1>5
<1>. QED
  BY <1>6 DEF u

\* strip() of a segment behind a text that begins and ends with a word: the white
\* space at the end goes, with the separator if there is nothing else.
LEMMA StripJoined ==
  ASSUME NEW t \in Seq(Pieces), t # <<>>, Stripped(t), NEW g \in Seq(Pieces)
  PROVE  Strip(t \o Separator(t) \o g) =
           IF RStrip(g) = <<>> THEN t ELSE t \o Separator(t) \o RStrip(g)
<1> DEFINE u == t \o Separator(t)
           v == u \o g
           W == WordsOf(v)
           m == Len(t)
           n == Len(u)
<1>1. /\ u \in Seq(Pieces) /\ v \in Seq(Pieces) /\ Separator(t) \in Seq(Pieces)
      /\ Separator(t) = <<Blank, Blank>>
  BY JoinedType DEF Separator
<1>2. /\ m \in Nat \ {0} /\ DOMAIN t = 1 .. m
      /\ t[1] # Blank /\ t[m] # Blank
  BY LenProperties, EmptySeq DEF Stripped
<1>3. WordsOf(u) = WordsOf(t)
  <2>1. WordsOf(<<Blank, Blank>>) = {}
    <3>1. \A i \in DOMAIN <<Blank, Blank>> : <<Blank, Blank>>[i] = Blank
      OBVIOUS
    <3>. QED
      BY <3>1 DEF WordsOf
  <2>2. WordsOf(u) = WordsOf(t) \cup {Len(t) + i : i \in WordsOf(Separator(t))}
    BY <1>1, WordsOfConcat
  <2>. QED
    BY <1>1, <2>1, <2>2
<1>4. W = WordsOf(t) \cup {n + i : i \in WordsOf(g)}
  BY <1>1, <1>3, WordsOfConcat
<1>5. 1 \in WordsOf(t) /\ m \in WordsOf(t) /\ \A i \in WordsOf(t) : i \in 1 .. m
  BY <1>2 DEF WordsOf
<1>6. n = m + 2 /\ n \in Nat
  <2>1. Len(Separator(t)) = 2
    BY <1>1
  <2>. QED
    BY <1>1, <1>2, <2>1, ConcatProperties
<1>7. \A i \in WordsOf(g) : i \in Nat \ {0}
  BY LenProperties DEF WordsOf
<1>8. W \in SUBSET Nat /\ 1 \in W /\ \A i \in W : 1 <= i
  BY <1>2, <1>4, <1>5, <1>6, <1>7
<1>9. Min(W) = 1
  BY <1>8, MinIs
<1>10. /\ Len(v) = n + Len(g) /\ Len(g) \in Nat
       /\ \A i \in 1 .. Len(v) : v[i] = IF i <= n THEN u[i] ELSE g[i - n]
  BY <1>1, ConcatProperties, LenProperties
<1>. HIDE DEF W, n, m, v, u
<1>11. CASE WordsOf(g) = {}
  <2>1. W = WordsOf(t)
    BY <1>4, <1>11
  <2>2. Max(W) = m
    BY <1>2, <1>5, <1>8, <2>1, MaxIs
  <2>3. Strip(v) = SubSeq(v, 1, m)
    BY <1>8, <1>9, <2>2 DEF Strip, W
  <2>4. 1 \in 1 .. Len(v) /\ m \in 1 .. Len(v) /\ 1 <= m /\ m - 1 + 1 = m
    BY <1>2, <1>6, <1>10
  <2>5. \A i \in 1 .. m : u[i] = t[i]
    BY <1>1, ConcatProperties DEF u, m
  <2>6. \A i \in 1 .. m : v[i] = t[i]
    BY <1>2, <1>6, <1>10, <2>5
  <2> DEFINE x == SubSeq(v, 1, m)
  <2>7. /\ x \in Seq(Pieces) /\ Len(x) = m - 1 + 1
        /\ \A i \in 1 .. (m - 1 + 1) : x[i] = v[1 + i - 1]
    BY <1>1, <2>4, Part
  <2>. HIDE DEF x
  <2>8. Len(x) = m /\ \A i \in 1 .. m : x[i] = t[i]
    <3>1. \A i \in 1 .. m : i \in 1 .. (m - 1 + 1) /\ 1 + i - 1 = i
      BY <1>2
    <3>. QED
      BY <2>4, <2>6, <2>7, <3>1
  <2>9. x = t
    BY <2>7, <2>8, SeqEqual DEF m
  <2>10. RStrip(g) = <<>>
    BY <1>11, RStripType
  <2>. QED
    BY <2>3, <2>9, <2>10 DEF x, v, u
<1>12. CASE WordsOf(g) # {}
  <2> DEFINE l == Max(WordsOf(g))
             h == RStrip(g)
             y == u \o h
             x == SubSeq(v, 1, n + l)
  <2>1. l \in WordsOf(g) /\ l \in 1 .. Len(g) /\ \A i \in WordsOf(g) : i <= l
    BY <1>12, FirstAndLast
  <2>2. /\ h \in Seq(Pieces) /\ h # <<>> /\ Len(h) = l
        /\ \A i \in 1 .. l : h[i] = g[i]
    BY <1>12, RStripType
  <2>. HIDE DEF l, h
  <2>3. n + l \in W /\ \A i \in W : i <= n + l
    BY <1>2, <1>4, <1>5, <1>6, <1>7, <1>10, <2>1
  <2>4. Max(W) = n + l
    BY <1>8, <2>3, MaxIs
  <2>5. Strip(v) = x
    BY <1>8, <1>9, <2>4 DEF Strip, W
  <2>6. /\ 1 \in 1 .. Len(v) /\ n + l \in 1 .. Len(v) /\ 1 <= n + l
        /\ (n + l) - 1 + 1 = n + l /\ l \in Nat
    BY <1>6, <1>10, <2>1
  <2>7. /\ x \in Seq(Pieces) /\ Len(x) = (n + l) - 1 + 1
        /\ \A i \in 1 .. ((n + l) - 1 + 1) : x[i] = v[1 + i - 1]
    BY <1>1, <2>6, Part
  <2>8. /\ y \in Seq(Pieces) /\ Len(y) = n + l
        /\ \A i \in 1 .. n + l : y[i] = IF i <= n THEN u[i] ELSE h[i - n]
    BY <1>1, <2>2, ConcatProperties DEF n
  <2>. HIDE DEF x, y
  <2>9. ASSUME NEW i \in 1 .. n + l PROVE x[i] = y[i]
    <3>1. i \in 1 .. ((n + l) - 1 + 1) /\ 1 + i - 1 = i /\ i \in 1 .. Len(v)
      BY <1>6, <2>6
    <3>2. x[i] = v[i]
      BY <2>7, <3>1
    <3>3. CASE i <= n
      BY <1>10, <2>8, <3>1, <3>2, <3>3
    <3>4. CASE ~(i <= n)
      <4>1. i - n \in 1 .. l
        BY <1>6, <2>6, <3>4
      <4>. QED
        BY <1>10, <2>2, <2>8, <3>1, <3>2, <3>4, <4>1
    <3>. QED
      BY <3>3, <3>4
  <2>10. x = y
    <3>1. Len(x) = Len(y) /\ \A i \in 1 .. Len(x) : x[i] = y[i]
      BY <2>6, <2>7, <2>8, <2>9
    <3>. QED
      BY <2>7, <2>8, <3>1, SeqEqual
  <2>. QED
    BY <2>2, <2>5, <2>10 DEF h, y, v, u
<1>. QED
  BY <1>11, <1>12

\* What of a capture the tiles are measured by.
LEMMA TileType ==
  ASSUME NEW c \in CaptureType
  PROVE  /\ Kept(c) \in Seq(Pieces) /\ Len(Kept(c)) \in Nat
         /\ Start(c) \in Nat /\ EndOf(c) \in Nat /\ c.offset \in Nat
         /\ c.offset <= EndOf(c)
<1>1. c.offset \in Nat /\ c.segment \in Seq(Pieces)
  BY DEF CaptureType
<1>2. Kept(c) \in Seq(Pieces) /\ Len(Kept(c)) \in Nat
  BY <1>1, StripStrips, RStripType, LenProperties DEF Kept
<1>. QED
  BY <1>1, <1>2 DEF Start, EndOf

\* No pieces of a text are an empty text.
LEMMA NoPieces ==
  ASSUME NEW t \in Seq(Pieces), NEW m \in Nat
  PROVE  SubSeq(t, m + 1, m + 0) = <<>>
<1> DEFINE u == SubSeq(t, m + 1, m + 0)
<1>1. \A i \in m + 1 .. m + 0 : t[i] \in Pieces
  OBVIOUS
<1>2. u \in Seq(Pieces) /\ Len(u) = 0
  BY <1>1, SubSeqProperties
<1>. HIDE DEF u
<1>3. u = <<>>
  BY <1>2, EmptySeq
<1>. QED
  BY <1>3 DEF u

\* A tile stays in place when something is put behind the text.
LEMMA TileKept ==
  ASSUME NEW t \in Seq(Pieces), NEW x \in Seq(Pieces), NEW c \in CaptureType,
         EndOf(c) <= Len(t),
         SubSeq(t, Start(c) + 1, Start(c) + Len(Kept(c))) = Kept(c)
  PROVE  SubSeq(t \o x, Start(c) + 1, Start(c) + Len(Kept(c))) = Kept(c)
<1> DEFINE o == Start(c)
           l == Len(Kept(c))
<1>1. o \in Nat /\ l \in Nat /\ Kept(c) \in Seq(Pieces)
  BY TileType
<1>2. t \o x \in Seq(Pieces)
  BY ConcatProperties
<1>3. CASE Kept(c) = <<>>
  <2>1. l = 0
    BY <1>3
  <2>. QED
    BY <1>1, <1>2, <1>3, <2>1, NoPieces
<1>4. CASE Kept(c) # <<>>
  <2>1. o + l <= Len(t)
    BY <1>4 DEF EndOf
  <2>. QED
    BY <1>1, <2>1, SubSeqOfPrefix
<1>. QED
  BY <1>3, <1>4

\* What a merge makes of a chapter that begins and ends with a word: the text
\* stays in place, and what is put behind it is the tile of the new capture.
LEMMA MergedTile ==
  ASSUME NEW t \in Seq(Pieces), Stripped(t), NEW c \in CaptureType, c.offset = Len(t)
  PROVE  LET u == Strip(t \o Separator(t) \o c.segment) IN
         /\ \E x \in Seq(Pieces) : u = t \o x
         /\ EndOf(c) = Len(u)
         /\ SubSeq(u, Start(c) + 1, Start(c) + Len(Kept(c))) = Kept(c)
<1> DEFINE g == c.segment
           u == Strip(t \o Separator(t) \o g)
<1>1. g \in Seq(Pieces) /\ Len(t) \in Nat /\ (t = <<>> <=> Len(t) = 0)
  BY LenProperties, EmptySeq DEF CaptureType
<1>2. u \in Seq(Pieces)
  BY <1>1, JoinedType, StripStrips
<1>3. Kept(c) \in Seq(Pieces) /\ Len(Kept(c)) \in Nat
  BY TileType
<1>4. CASE t = <<>>
  <2>1. t \o Separator(t) \o g = g
    BY <1>1, <1>4, ConcatEmptySeq, EmptySeq DEF Separator
  <2>2. u = Kept(c) /\ Start(c) = 0
    BY <1>1, <1>4, <2>1 DEF Kept, Start
  <2>. HIDE DEF u
  <2>3. u = t \o u
    BY <1>2, <1>4, ConcatEmptySeq
  <2>4. EndOf(c) = Len(u)
    BY <1>1, <1>3, <1>4, <2>2 DEF EndOf
  <2>5. SubSeq(u, 0 + 1, 0 + Len(u)) = u
    <3>1. /\ t \in Seq(Pieces) /\ Len(t) = 0
      BY <1>1, <1>4
    <3>2. SubSeq(t \o u, Len(t) + 1, Len(t) + Len(u)) = u
      BY <1>2, SubSeqOfSuffix
    <3>. QED
      BY <2>3, <3>1, <3>2
  <2>. QED
    BY <1>2, <2>2, <2>3, <2>4, <2>5 DEF u
<1>5. CASE t # <<>>
  <2> DEFINE h == RStrip(g)
             v == t \o Separator(t)
  <2>1. /\ Kept(c) = h /\ Start(c) = Len(t) + 2
        /\ u = IF h = <<>> THEN t ELSE v \o h
    BY <1>1, <1>5, StripJoined DEF Kept, Start
  <2>2. /\ v \in Seq(Pieces) /\ Separator(t) \in Seq(Pieces)
        /\ Separator(t) = <<Blank, Blank>> /\ Len(Separator(t)) = 2
    BY <1>5, JoinedType DEF Separator
  <2>3. h \in Seq(Pieces) /\ Len(h) \in Nat
    BY <1>3, <2>1
  <2>. HIDE DEF h, u
  <2>4. CASE h = <<>>
    <3>1. u = t \o <<>> /\ <<>> \in Seq(Pieces)
      BY <2>1, <2>4, ConcatEmptySeq, EmptySeq
    <3>2. EndOf(c) = Len(u)
      BY <2>1, <2>4 DEF EndOf
    <3>3. SubSeq(u, Start(c) + 1, Start(c) + 0) = <<>>
      BY <1>1, <1>2, <2>1, NoPieces DEF u
    <3>4. Kept(c) = <<>> /\ Len(Kept(c)) = 0
      BY <2>1, <2>4
    <3>5. SubSeq(u, Start(c) + 1, Start(c) + Len(Kept(c))) = Kept(c)
      BY <3>3, <3>4
    <3>. QED
      BY <3>1, <3>2, <3>5 DEF u
  <2>5. CASE h # <<>>
    <3>1. Separator(t) \o h \in Seq(Pieces)
      BY <2>2, <2>3, ConcatProperties
    <3>2. (t \o Separator(t)) \o h = t \o (Separator(t) \o h)
      BY <2>2, <2>3, ConcatAssociative
    <3>3. u = t \o (Separator(t) \o h) /\ Separator(t) \o h \in Seq(Pieces)
      BY <2>1, <2>5, <3>1, <3>2
    <3>4. Len(v) = Len(t) + 2
      BY <2>2, ConcatProperties
    <3>5. Len(u) = Len(v) + Len(h)
      BY <2>1, <2>2, <2>3, <2>5, ConcatProperties
    <3>6. EndOf(c) = Len(u)
      BY <2>1, <2>5, <3>4, <3>5 DEF EndOf
    <3>7. SubSeq(u, Len(v) + 1, Len(v) + Len(h)) = h
      BY <2>1, <2>2, <2>3, <2>5, SubSeqOfSuffix
    <3>. QED
      BY <2>1, <3>3, <3>4, <3>6, <3>7 DEF u
  <2>. QED
    BY <2>4, <2>5
<1>. QED
  BY <1>4, <1>5

\* A merge without a segment leaves such a chapter as it is.
LEMMA MergedNothing ==
  ASSUME NEW t \in Seq(Pieces), Stripped(t)
  PROVE  Strip(t \o Separator(t) \o <<>>) = t
<1>1. WordsOf(<<>>) = {} /\ <<>> \in Seq(Pieces)
  BY EmptySeq DEF WordsOf
<1>2. RStrip(<<>>) = <<>> /\ Strip(<<>>) = <<>>
  BY <1>1 DEF RStrip, Strip
<1>3. CASE t = <<>>
  BY <1>1, <1>2, <1>3, ConcatEmptySeq DEF Separator
<1>4. CASE t # <<>>
  BY <1>1, <1>2, <1>4, StripJoined
<1>. QED
  BY <1>3, <1>4

\* A merge adds a tile at the end.
LEMMA MergeTiles ==
  ASSUME RowLocking, IInv, TileInv, NEW r \in Streams, Merge(r)
  PROVE  TileInv'
<1> DEFINE g == buffer[r]
           c == Capture(r)
           n == Len(captures)
<1>1. /\ g \in Seq(Pieces) /\ text \in Seq(Pieces) /\ version \in Nat
      /\ captures \in Seq(CaptureType)
  BY DEF IInv, Shape, RequestShape, RowShape
<1>2. /\ exists /\ text' = Strip(text \o Separator(text) \o g) /\ version' = version + 1
      /\ captures' = IF g = <<>> THEN captures ELSE Append(captures, c)
      /\ c = [segment |-> g, offset |-> Len(text),
              version |-> version + 1, partial |-> mem[r].partial,
              after |-> None]
  BY MergeStep
<1>3. /\ n \in Nat /\ DOMAIN captures = 1 .. n
      /\ \A k \in 1 .. n : captures[k] \in CaptureType
  BY <1>1, LenProperties
<1>4. Stripped(text) /\ Stripped(text')
  BY <1>1, <1>2, JoinedType, StripStrips DEF TileInv
<1>. HIDE DEF g, c
<1>5. \A k \in 1 .. n : /\ captures[k].version \in Nat /\ captures[k].version <= version
                        /\ EndOf(captures[k]) \in Nat /\ EndOf(captures[k]) <= Len(text)
  <2> TAKE k \in 1 .. n
  <2>1. captures[k].version \in Nat /\ EndOf(captures[k]) \in Nat
    BY <1>3, TileType DEF CaptureType
  <2>. QED
    BY <1>2, <1>3, <2>1 DEF TileInv
<1>6. CASE g = <<>>
  <2>1. captures' = captures /\ text' = text
    BY <1>1, <1>2, <1>4, <1>6, MergedNothing
  <2>2. \A k \in 1 .. n : captures[k].version <= version + 1
    BY <1>1, <1>5
  <2>3. CapturesTile'
    BY <1>2, <2>1 DEF TileInv, CapturesTile
  <2>. QED
    BY <1>2, <1>3, <1>4, <1>5, <2>1, <2>2, <2>3 DEF TileInv
<1>7. CASE g # <<>>
  <2>1. c \in CaptureType
    <3>1. captures' = Append(captures, c) /\ captures' \in Seq(CaptureType)
      BY <1>2, <1>7, MergeKeeps DEF IInv, Shape, RowShape
    <3>2. Len(captures') = n + 1 /\ captures'[n + 1] = c
      BY <1>1, <3>1, <1>3
    <3>. QED
      BY <1>3, <3>1, <3>2, ElementOfSeq
  <2>2. /\ c.segment = g /\ c.offset = Len(text) /\ c.version = version + 1
    BY <1>2
  <2>3. /\ \E x \in Seq(Pieces) : text' = text \o x
        /\ EndOf(c) = Len(text')
        /\ SubSeq(text', Start(c) + 1, Start(c) + Len(Kept(c))) = Kept(c)
    BY <1>1, <1>2, <1>4, <2>1, <2>2, MergedTile
  <2>4. PICK x \in Seq(Pieces) : text' = text \o x
    BY <2>3
  <2>5. Len(text) \in Nat /\ Len(text') \in Nat /\ Len(text) <= Len(text')
    BY <1>1, <2>4, ConcatProperties, LenProperties
  <2>6. /\ DOMAIN captures' = 1 .. n + 1 /\ Len(captures') = n + 1
        /\ \A k \in 1 .. n : captures'[k] = captures[k]
        /\ captures'[n + 1] = c
    BY <1>1, <1>2, <1>3, <1>7
  <2>. HIDE DEF n
  <2>7. \A k \in 1 .. n + 1 : k \in 1 .. n \/ k = n + 1
    BY <1>3
  <2>8. ASSUME NEW k \in 1 .. n
        PROVE  SubSeq(text', Start(captures[k]) + 1,
                      Start(captures[k]) + Len(Kept(captures[k]))) = Kept(captures[k])
    <3>1. SubSeq(text, Start(captures[k]) + 1,
                 Start(captures[k]) + Len(Kept(captures[k]))) = Kept(captures[k])
      BY <1>2, <1>3 DEF TileInv, CapturesTile
    <3>. QED
      BY <1>1, <1>3, <1>5, <2>4, <3>1, TileKept
  <2>9. ASSUME NEW k \in 1 .. n
        PROVE  /\ k # n + 1
               /\ captures'[k] = captures[k] /\ captures[k].segment # <<>>
               /\ EndOf(captures[k]) = captures'[k + 1].offset
               /\ captures[k].version < captures'[k + 1].version
    <3>1. k # n + 1 /\ captures'[k] = captures[k] /\ captures[k].segment # <<>>
      BY <1>2, <1>3, <2>6 DEF TileInv, CapturesTile
    <3>2. CASE k = n
      <4>1. EndOf(captures[k]) = Len(text)
        BY <1>2, <1>3, <3>2 DEF TileInv, CapturesTile, n
      <4>2. captures[k].version < version + 1
        BY <1>1, <1>5
      <4>. QED
        BY <2>2, <2>6, <3>1, <3>2, <4>1, <4>2
    <3>3. CASE k # n
      <4>1. /\ EndOf(captures[k]) = captures[k + 1].offset
            /\ captures[k].version < captures[k + 1].version
        BY <1>2, <1>3, <3>3 DEF TileInv, CapturesTile, n
      <4>2. k + 1 \in 1 .. n
        BY <1>3, <3>3
      <4>. QED
        BY <2>6, <3>1, <4>1, <4>2
    <3>. QED
      BY <3>2, <3>3
  <2>10. captures'[1].offset = 0
    <3>1. CASE n = 0
      <4>1. captures = <<>>
        BY <1>1, <3>1, EmptySeq DEF n
      <4>2. text = <<>>
        BY <1>2, <4>1 DEF TileInv, CapturesTile
      <4>. QED
        BY <2>2, <2>6, <3>1, <4>2
    <3>2. CASE n # 0
      <4>1. 1 \in 1 .. n /\ captures # <<>>
        BY <1>3, <3>2, EmptySeq DEF n
      <4>2. captures[1].offset = 0
        BY <1>2, <4>1 DEF TileInv, CapturesTile
      <4>. QED
        BY <2>6, <4>1, <4>2
    <3>. QED
      BY <3>1, <3>2
  <2>11. captures' # <<>>
    BY <1>3, <2>6, EmptySeq
  <2>12. ASSUME NEW k \in 1 .. n + 1
         PROVE  /\ captures'[k].segment # <<>>
                /\ SubSeq(text', Start(captures'[k]) + 1,
                          Start(captures'[k]) + Len(Kept(captures'[k]))) = Kept(captures'[k])
                /\ IF k = n + 1
                   THEN EndOf(captures'[k]) = Len(text')
                   ELSE /\ EndOf(captures'[k]) = captures'[k + 1].offset
                        /\ captures'[k].version < captures'[k + 1].version
    <3>1. CASE k \in 1 .. n
      BY <2>8, <2>9, <3>1
    <3>2. CASE k = n + 1
      BY <1>7, <2>2, <2>3, <2>6, <3>2
    <3>. QED
      BY <2>7, <3>1, <3>2
  <2>13. CapturesTile'
    BY <2>6, <2>10, <2>11, <2>12 DEF CapturesTile
  <2>14. ASSUME NEW k \in 1 .. n + 1
         PROVE  EndOf(captures'[k]) <= Len(text') /\ captures'[k].version <= version'
    <3>1. CASE k \in 1 .. n
      <4>1. /\ captures[k].version \in Nat /\ captures[k].version <= version
            /\ EndOf(captures[k]) \in Nat /\ EndOf(captures[k]) <= Len(text)
        BY <1>5, <3>1
      <4>2. captures'[k] = captures[k]
        BY <2>6, <3>1
      <4>3. version' = version + 1
        BY <1>2
      <4>. QED
        BY <1>1, <2>5, <4>1, <4>2, <4>3
    <3>2. CASE k = n + 1
      <4>1. captures'[k] = c /\ version' = version + 1
        BY <1>2, <2>6, <3>2
      <4>. QED
        BY <1>1, <2>2, <2>3, <2>5, <4>1
    <3>. QED
      BY <2>7, <3>1, <3>2
  <2>. QED
    BY <1>4, <2>6, <2>13, <2>14 DEF TileInv
<1>. QED
  BY <1>6, <1>7

\* A chapter that only the AI writes is its captured segments with the separators
\* in between: however many workers continue it at once, _append_chapter() loses,
\* doubles and reorders nothing, and the recorded offsets find every segment.
THEOREM SegmentsTile ==
  ASSUME RowLocking, Saves = {}, Texts = {}
  PROVE  Spec => []CapturesTile
<1>1. Init => TileInv
  <2>. SUFFICES ASSUME Init
                PROVE  TileInv
    OBVIOUS
  <2>1. text = <<>> /\ captures = <<>> /\ DOMAIN captures = {}
    BY DEF Init
  <2>. QED
    BY <2>1 DEF TileInv, CapturesTile, Stripped
<1>2. ASSUME IInv, TileInv, [Next]_vars PROVE TileInv'
  <2>1. ASSUME NEW r \in Streams, Merge(r) PROVE TileInv'
    BY <1>2, <2>1, MergeTiles
  <2>2. ASSUME NEW r \in Streams, SettleCommit(r) PROVE TileInv'
    <3>1. /\ UNCHANGED <<exists, text, version>> /\ DOMAIN captures' = DOMAIN captures
      BY <2>2 DEF SettleCommit
    <3>2. ASSUME NEW k \in DOMAIN captures
          PROVE  /\ captures'[k].segment = captures[k].segment
                 /\ captures'[k].offset = captures[k].offset
                 /\ captures'[k].version = captures[k].version
      <4>1. captures[k] \in CaptureType
        BY <1>2, LenProperties DEF IInv, Shape, RowShape
      <4>. QED
        BY <2>2, <4>1 DEF SettleCommit, CaptureType
    <3>3. ASSUME NEW k \in DOMAIN captures
          PROVE  /\ Start(captures'[k]) = Start(captures[k])
                 /\ Kept(captures'[k]) = Kept(captures[k])
                 /\ EndOf(captures'[k]) = EndOf(captures[k])
      BY <3>2 DEF Start, Kept, EndOf
    <3>4. /\ captures \in Seq(CaptureType) /\ DOMAIN captures = 1 .. Len(captures)
          /\ Len(captures) \in Nat
      BY <1>2, LenProperties DEF IInv, Shape, RowShape
    <3>5. captures' \in Seq(CaptureType)
      BY <1>2, <2>2, SettleCommitKeeps DEF IInv, Shape, RowShape
    <3>6. Len(captures') = Len(captures) /\ (captures' = <<>> <=> captures = <<>>)
      BY <3>1, <3>4, <3>5, LenProperties, EmptySeq
    <3>7. CapturesTile'
      <4>. SUFFICES ASSUME exists'
                    PROVE  /\ captures' = <<>> => text' = <<>>
                           /\ captures' # <<>> => captures'[1].offset = 0
                           /\ \A k \in DOMAIN captures' :
                                 /\ captures'[k].segment # <<>>
                                 /\ SubSeq(text', Start(captures'[k]) + 1,
                                           Start(captures'[k]) + Len(Kept(captures'[k])))
                                      = Kept(captures'[k])
                                 /\ IF k = Len(captures')
                                    THEN EndOf(captures'[k]) = Len(text')
                                    ELSE /\ EndOf(captures'[k]) = captures'[k + 1].offset
                                         /\ captures'[k].version < captures'[k + 1].version
        BY DEF CapturesTile
      <4>1. captures # <<>> => 1 \in DOMAIN captures
        BY <3>4, EmptySeq
      <4>2. \A k \in DOMAIN captures : k # Len(captures) => k + 1 \in DOMAIN captures
        BY <3>4
      <4>. QED
        BY <1>2, <3>1, <3>2, <3>3, <3>6, <4>1, <4>2 DEF TileInv, CapturesTile
    <3>. QED
      BY <1>2, <3>1, <3>2, <3>3, <3>7 DEF TileInv
  <2>3. CASE Delete
    BY <2>3 DEF Delete, TileInv, CapturesTile
  <2>4. CASE UNCHANGED captures /\ ~\E r \in Streams : Merge(r)
    <3>1. UNCHANGED <<text, version>>
      BY <1>2, <2>4, TextWrites
    <3>2. exists' => exists
      BY <1>2, Exists
    <3>3. CapturesTile'
      BY <1>2, <2>4, <3>1, <3>2 DEF TileInv, CapturesTile
    <3>. QED
      BY <1>2, <2>4, <3>1, <3>2, <3>3 DEF TileInv
  <2>. QED
    BY <1>2, <2>1, <2>2, <2>3, <2>4, CaptureWrites
<1>3. TileInv => CapturesTile
  BY DEF TileInv
<1>. QED
  BY <1>1, <1>2, <1>3, Invariance, PTL DEF Spec

-----------------------------------------------------------------------------
(* One worker process *)

Active == {"prepare", "settle", "settling", "stream", "append", "merge"}

\* With one worker at most one continuation is under way, and once it is past
\* its settle pass nothing is unsettled unless the pass failed.
Alone ==
    /\ \A r \in Streams : pc[r] \in Active <=> worker[r] # None
    /\ \A q, r \in Streams : worker[q] # None /\ worker[r] # None => q = r
    /\ ~exists => captures = <<>>
    /\ settleFailed \/ \A r \in Streams :
          pc[r] \in {"stream", "append", "merge"} => Pending = {}
    /\ UnsettledIsLast

\* A step that writes neither row nor captures and admits nobody.
LEMMA AloneKept ==
  ASSUME IInv, Alone, UNCHANGED row, NEW r \in Reqs,
         \A s \in Reqs \ {r} : pc'[s] = pc[s],
         \A s \in Streams \ {r} : worker'[s] = worker[s],
         r \in Streams => /\ pc'[r] \in Active <=> worker'[r] # None
                          /\ worker'[r] # None => worker[r] # None
                          /\ pc'[r] \in {"stream", "append", "merge"} =>
                                \/ pc[r] \in {"stream", "append", "merge"}
                                \/ Pending = {} \/ settleFailed',
         settleFailed => settleFailed'
  PROVE  Alone'
<1>1. Pending' = Pending /\ (UnsettledIsLast /\ settleFailed = settleFailed' => UnsettledIsLast')
  BY DEF row, Pending, Unsettled, UnsettledIsLast
<1>2. UnsettledIsLast'
  BY DEF Alone, row, Unsettled, UnsettledIsLast
<1>3. \A s \in Streams : s # r => pc'[s] = pc[s] /\ worker'[s] = worker[s]
  BY RequestNames
<1>4. \A s \in Streams : pc'[s] \in Active <=> worker'[s] # None
  BY <1>3 DEF Alone
<1>5. \A s \in Streams : worker'[s] # None => worker[s] # None
  BY <1>3
<1>6. settleFailed' \/ \A s \in Streams :
         pc'[s] \in {"stream", "append", "merge"} => Pending' = {}
  BY <1>1, <1>3 DEF Alone
<1>. QED
  BY <1>2, <1>4, <1>5, <1>6 DEF Alone, row

\* A continuation that ends leaves the worker free.
LEMMA AloneEnd ==
  ASSUME IInv, Alone, UNCHANGED <<row, settleFailed>>,
         NEW r \in Streams, NEW how \in Ended, End(r, how)
  PROVE  Alone'
<1>1. /\ pc'[r] = how /\ worker'[r] = None
      /\ \A s \in Reqs \ {r} : pc'[s] = pc[s]
      /\ \A s \in Streams \ {r} : worker'[s] = worker[s]
  BY RequestNames DEF End, Goto, IInv, Shape, RequestShape
<1>2. how \notin Active /\ how \notin {"stream", "append", "merge"}
  BY DEF Ended, Active
<1>. QED
  BY <1>1, <1>2, AloneKept, RequestNames

\* A continuation that goes on.
LEMMA AloneGoto ==
  ASSUME IInv, Alone, UNCHANGED <<row, worker>>, NEW r \in Streams, NEW label \in Active,
         pc[r] \in Active, pc' = [pc EXCEPT ![r] = label],
         settleFailed => settleFailed',
         label \in {"stream", "append", "merge"} =>
            \/ pc[r] \in {"stream", "append", "merge"}
            \/ Pending = {} \/ settleFailed'
  PROVE  Alone'
<1>1. /\ pc'[r] = label
      /\ \A s \in Reqs \ {r} : pc'[s] = pc[s]
  BY RequestNames DEF IInv, Shape, RequestShape
<1>2. pc'[r] \in Active <=> worker'[r] # None
  BY <1>1 DEF Alone
<1>. QED
  BY <1>1, <1>2, AloneKept, RequestNames

\* The guard admits a continuation only if no other one is under way.
LEMMA AloneStart ==
  ASSUME IInv, Alone, \A v, w \in Workers : v = w,
         NEW r \in Streams, NEW w \in Workers, StartContinue(r, w)
  PROVE  Alone'
<1>1. /\ pc[r] = "new" /\ UNCHANGED <<row, settleFailed>>
      /\ \A s \in Reqs \ {r} : pc'[s] = pc[s]
      /\ \A s \in Streams \ {r} : worker'[s] = worker[s]
  BY RequestNames DEF StartContinue, Goto, IInv, Shape, RequestShape
<1>2. pc[r] \notin Active /\ worker[r] = None
  BY <1>1 DEF Alone, Active
<1>3. CASE ~Admitted(w)
  <2>1. pc'[r] = "refused" /\ worker' = worker
    BY <1>3, RequestNames DEF StartContinue, Goto, IInv, Shape, RequestShape
  <2>. QED
    BY <1>1, <1>2, <2>1, AloneKept, RequestNames DEF Active
<1>4. CASE Admitted(w)
  <2>1. pc'[r] = "prepare" /\ worker'[r] = w
    BY <1>4, RequestNames DEF StartContinue, Goto, IInv, Shape, RequestShape
  <2>2. w # None
    BY ChapterAssumption
  <2>3. \A s \in Streams : worker[s] = None
    BY <1>4 DEF Admitted, Generating, IInv, Shape, RequestShape
  <2>4. \A s \in Streams : s # r => worker'[s] = None /\ pc'[s] \notin Active
    BY <1>1, <2>3, RequestNames DEF Alone
  <2>5. \A s \in Streams : pc'[s] \notin {"stream", "append", "merge"}
    BY <2>1, <2>4 DEF Active
  <2>6. pc'[r] \in Active
    BY <2>1 DEF Active
  <2>7. UnsettledIsLast'
    BY <1>1 DEF Alone, row, Unsettled, UnsettledIsLast
  <2>. QED
    BY <1>1, <2>1, <2>2, <2>4, <2>5, <2>6, <2>7 DEF Alone, row
<1>. QED
  BY <1>3, <1>4

\* A settle pass that commits leaves nothing unsettled.
LEMMA AloneSettle ==
  ASSUME RowLocking, IInv, Alone, NEW r \in Streams, SettleCommit(r)
  PROVE  Alone'
<1>1. /\ exists /\ UNCHANGED <<exists, worker, settleFailed>>
      /\ pc[r] = "settling" /\ pc'[r] = "stream"
      /\ \A s \in Streams : s # r => pc'[s] = pc[s]
      /\ mem[r].text = text /\ mem[r].pending = Pending
      /\ text \in Seq(Pieces) /\ DOMAIN captures' = DOMAIN captures
  BY RequestNames DEF SettleCommit, Goto, IInv, Shape, RequestShape, RowShape, Loaded
<1>2. text # None
  BY <1>1, ChapterAssumption
<1>3. ASSUME NEW k \in DOMAIN captures PROVE captures'[k].after # None
  <2>1. captures[k] \in CaptureType
    BY LenProperties DEF IInv, Shape, RowShape
  <2>2. CASE k \in mem[r].pending
    <3>1. captures'[k].after = text
      BY <1>1, <2>1, <2>2 DEF SettleCommit, CaptureType
    <3>. QED
      BY <1>2, <3>1
  <2>3. CASE k \notin mem[r].pending
    BY <1>1, <2>3 DEF SettleCommit, Pending, Unsettled
  <2>. QED
    BY <2>2, <2>3
<1>4. Pending' = {} /\ UnsettledIsLast'
  BY <1>1, <1>3 DEF Pending, Unsettled, UnsettledIsLast
<1>5. \A s \in Streams : pc'[s] \in Active <=> worker'[s] # None
  BY <1>1 DEF Alone, Active
<1>. QED
  BY <1>1, <1>4, <1>5 DEF Alone

\* A merge adds one unsettled capture behind settled ones.
LEMMA AloneMerge ==
  ASSUME RowLocking, IInv, Alone, NEW r \in Streams, Merge(r)
  PROVE  Alone'
<1>1. PICK how \in Ended : End(r, how)
  BY MergeStep DEF Ended
<1>2. /\ exists /\ UNCHANGED <<exists, settleFailed>>
      /\ captures' = captures \/ captures' = Append(captures, Capture(r))
  BY MergeStep
<1>3. /\ pc'[r] \notin Active /\ worker'[r] = None
      /\ \A s \in Streams : s # r => pc'[s] = pc[s] /\ worker'[s] = worker[s]
  BY <1>1, RequestNames DEF End, Goto, IInv, Shape, RequestShape, Ended, Active
<1>4. pc[r] = "merge" /\ worker[r] # None
  BY DEF Merge, Alone, Active
<1>5. \A s \in Streams : worker'[s] = None /\ pc'[s] \notin Active
  BY <1>3, <1>4 DEF Alone
<1>6. \A s \in Streams : pc'[s] \notin {"stream", "append", "merge"}
  BY <1>5 DEF Active
<1>7. UnsettledIsLast'
  <2>1. CASE captures' = captures
    BY <1>2, <2>1 DEF Alone, UnsettledIsLast, Unsettled
  <2>2. CASE captures' = Append(captures, Capture(r)) /\ ~settleFailed
    <3>1. /\ captures \in Seq(CaptureType) /\ Len(captures) \in Nat
          /\ DOMAIN captures = 1 .. Len(captures)
      BY LenProperties DEF IInv, Shape, RowShape
    <3>2. /\ DOMAIN captures' = 1 .. Len(captures) + 1
          /\ Len(captures') = Len(captures) + 1
          /\ \A k \in 1 .. Len(captures) : captures'[k] = captures[k]
      BY <2>2, <3>1
    <3>3. \A k \in 1 .. Len(captures) : captures[k].after # None
      BY <1>4, <2>2, <3>1 DEF Alone, Pending, Unsettled
    <3>. QED
      BY <3>1, <3>2, <3>3 DEF UnsettledIsLast, Unsettled
  <2>3. CASE settleFailed
    BY <1>2, <2>3 DEF UnsettledIsLast
  <2>. QED
    BY <1>2, <2>1, <2>2, <2>3
<1>. QED
  BY <1>2, <1>5, <1>6, <1>7 DEF Alone

\* With one worker process an unsettled capture in front of a later one means
\* that a settle pass failed: the claim edit-diff-capture-design.md makes for any
\* deployment, and which fails of two processes: both may settle before either
\* appends.
THEOREM OnlyLastUnsettled ==
  ASSUME RowLocking, \A v, w \in Workers : v = w
  PROVE  Spec => []UnsettledIsLast
<1>1. Init => Alone
  BY RequestNames DEF Init, Alone, Active, UnsettledIsLast
<1>2. ASSUME IInv, Alone, [Next]_vars PROVE Alone'
  <2>. USE <1>2
  <2>1. ASSUME NEW r \in Streams, NEW w \in Workers, StartContinue(r, w) PROVE Alone'
    BY <2>1, AloneStart
  <2>2. ASSUME NEW r \in Streams, Prepare(r) PROVE Alone'
    <3>1. CASE End(r, "error")
      BY <2>2, <3>1, AloneEnd DEF Prepare, Ended
    <3>2. CASE ~End(r, "error")
      BY <2>2, <3>2, AloneGoto DEF Prepare, Goto, Active
    <3>. QED
      BY <3>1, <3>2
  <2>3. ASSUME NEW r \in Streams, SettleLoad(r) PROVE Alone'
    <3>1. CASE exists
      BY <2>3, <3>1, AloneGoto DEF SettleLoad, Goto, Active
    <3>2. CASE ~exists
      <4>1. Pending = {}
        BY <3>2 DEF Alone, Pending
      <4>. QED
        BY <2>3, <3>2, <4>1, AloneGoto DEF SettleLoad, Goto, Active
    <3>. QED
      BY <3>1, <3>2
  <2>4. ASSUME NEW r \in Streams, SettleCommit(r) PROVE Alone'
    BY <2>4, AloneSettle
  <2>5. ASSUME NEW r \in Streams, SettleFail(r) PROVE Alone'
    BY <2>5, AloneGoto DEF SettleFail, Goto, Active
  <2>6. ASSUME NEW r \in Streams, Token(r) PROVE Alone'
    <3>1. /\ pc' = [pc EXCEPT ![r] = "stream"] /\ pc[r] = "stream"
          /\ UNCHANGED <<row, worker, settleFailed>>
      BY <2>6, RequestNames DEF Token, IInv, Shape, RequestShape
    <3>. QED
      BY <3>1, AloneGoto DEF Active
  <2>7. ASSUME NEW r \in Streams, StreamDone(r) PROVE Alone'
    BY <2>7, AloneGoto DEF StreamDone, Goto, Active
  <2>8. ASSUME NEW r \in Streams, StreamFail(r) PROVE Alone'
    <3>1. CASE buffer[r] # <<>>
      BY <2>8, <3>1, AloneGoto DEF StreamFail, Goto, Active
    <3>2. CASE ~(buffer[r] # <<>>)
      BY <2>8, <3>2, AloneEnd DEF StreamFail, Ended
    <3>. QED
      BY <3>1, <3>2
  <2>9. ASSUME NEW r \in Streams, AppendLoad(r) PROVE Alone'
    <3>1. CASE exists
      BY <2>9, <3>1, AloneGoto DEF AppendLoad, Goto, Active
    <3>2. CASE ~exists
      BY <2>9, <3>2, AloneEnd DEF AppendLoad, Ended
    <3>. QED
      BY <3>1, <3>2
  <2>10. ASSUME NEW r \in Streams, Merge(r) PROVE Alone'
    BY <2>10, AloneMerge
  <2>11. ASSUME NEW r \in Streams, Disconnect(r) \/ AppendFail(r) PROVE Alone'
    BY <2>11, AloneEnd DEF Disconnect, AppendFail, Ended
  <2>12. ASSUME NEW s \in Saves, Open(s) \/ SaveLoad(s) PROVE Alone'
    <3>1. /\ UNCHANGED <<row, worker, settleFailed>>
          /\ \A q \in Reqs \ {s} : pc'[q] = pc[q]
      BY <2>12, RequestNames DEF Open, SaveLoad, Goto, IInv, Shape, RequestShape
    <3>. QED
      BY <3>1, AloneKept, RequestNames
  <2>13. ASSUME NEW s \in Saves, SaveWrite(s) PROVE Alone'
    <3>1. /\ UNCHANGED <<exists, captures, worker, settleFailed>>
          /\ \A q \in Streams : pc'[q] = pc[q]
      BY <2>13, RequestNames DEF SaveWrite, Goto, IInv, Shape, RequestShape
    <3>. QED
      BY <3>1 DEF Alone, Pending, Unsettled, UnsettledIsLast
  <2>14. CASE Delete
    BY <2>14 DEF Delete, Alone, Pending, Unsettled, UnsettledIsLast
  <2>15. CASE UNCHANGED vars
    BY <2>15 DEF vars, row, Alone, Pending, Unsettled, UnsettledIsLast
  <2>. QED
    BY <2>1, <2>2, <2>3, <2>4, <2>5, <2>6, <2>7, <2>8, <2>9, <2>10, <2>11, <2>12,
       <2>13, <2>14, <2>15 DEF Next, StreamStep, StreamFault, SaveStep
<1>3. Alone => UnsettledIsLast
  BY DEF Alone
<1>. QED
  BY <1>1, <1>2, <1>3, Invariance, PTL DEF Spec
=============================================================================
