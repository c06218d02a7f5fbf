----------------------------- MODULE ChatProofs -----------------------------
(***************************************************************************)
(* Theorems about Chat for any number of requests, retries and restarts    *)
(* and any threshold.                                                      *)
(***************************************************************************)
EXTENDS Chat, NaturalLemmas, SequenceTheorems

\* Where a request holds the session.
Flight == {"t1", "t2", "partial", "t3", "t4"}

\* Where T1 of a request is committed and its answer is not.
Answering == {"t2", "partial", "t3"}

Summary == [version : Nat, cover : Nat]

TypeOK ==
    /\ exists \in BOOLEAN /\ active \in BOOLEAN
    /\ messages \in Seq(Message) /\ summaries \in Seq(Summary)
    /\ pc \in [Requests -> PCs] /\ turn \in [Requests -> Turn]
    /\ jobs \in [Keys -> Job] /\ restarts \in Nat

\* The chat is in _active_streams exactly while one request streams, and
\* before the session is stored no turn gets past T1.
OneStream ==
    /\ \A r, q \in Requests : pc[r] \in Flight /\ pc[q] \in Flight => r = q
    /\ active <=> \E r \in Requests : pc[r] \in Flight
    /\ ~exists => \A r \in Requests : pc[r] \in {"new", "t1", "ended"}

\* A message is filed under an earlier one and answers an earlier one.  A user
\* message was there when an answer's prompt was read, at or before the one it
\* answers, or came later.  Behind a visible answer nothing is filed at or
\* before it.
Ordered ==
    /\ \A i \in 1 .. Len(messages) :
         messages[i].parent < i /\ messages[i].prompted < i
    /\ \A a, j \in 1 .. Len(messages) :
         messages[a].role = "assistant" /\ messages[j].role = "user" =>
           j <= messages[a].prompted \/ a < j
    /\ \A a, b \in 1 .. Len(messages) :
         (/\ messages[a].role = "assistant" /\ messages[b].role = "assistant"
          /\ messages[a].active /\ a < b) => a < messages[b].parent

\* A turn that will be answered saw the newest user message.  Nothing visible is
\* filed where its answer goes, and every visible answer stands before that.
InHand(r) ==
    pc[r] \in Answering =>
      /\ turn[r].parent <= Len(messages) /\ turn[r].prompted <= Len(messages)
      /\ \A j \in 1 .. Len(messages) :
           /\ messages[j].role = "user" => j <= turn[r].prompted
           /\ turn[r].parent > 0 /\ messages[j].active =>
                messages[j].parent # turn[r].parent
           /\ messages[j].role = "assistant" /\ messages[j].active =>
                j < turn[r].parent

\* A job is tried at most MaxRetries + 1 times, works from a stored summary, and
\* read a message after those it covers.
JobSane(k) ==
    /\ jobs[k].state # "over" => jobs[k].attempt <= MaxRetries
    /\ jobs[k].state \in {"reading", "calling"} =>
         \/ jobs[k].prev = NoSummary
         \/ \E l \in 1 .. Len(summaries) : summaries[l] = jobs[k].prev
    /\ jobs[k].state = "calling" => jobs[k].prev.cover < jobs[k].last

IInv ==
    /\ TypeOK /\ OneStream
    /\ Ordered /\ OneAnswerPerMessage /\ SummariesExtend
    /\ \A r \in Requests : InHand(r)
    /\ \A k \in Keys : JobSane(k)

-----------------------------------------------------------------------------
(* Helpers *)

\* Newest() returns the greatest element of a nonempty set of rows, else 0.
LEMMA NewestIs ==
  ASSUME NEW n \in Nat, NEW S \in SUBSET (1 .. n)
  PROVE  /\ S = {} => Newest(S) = 0
         /\ S # {} => Newest(S) \in S /\ \A j \in S : j <= Newest(S)
<1>1. S # {} => \E i \in S : \A j \in S : j <= i
  <2>1. S \in SUBSET Nat /\ \A m \in S : m <= n
    OBVIOUS
  <2> QED
    BY <2>1, GreatestNatural
<1> QED
  BY <1>1 DEF Newest

\* The newest user message comes after every other one.
LEMMA LastUserIs ==
  ASSUME TypeOK
  PROVE  /\ LastUser \in Nat /\ LastUser <= Len(messages)
         /\ \A j \in 1 .. Len(messages) : messages[j].role = "user" => j <= LastUser
<1> DEFINE S == {i \in DOMAIN messages : messages[i].role = "user"}
<1>1. Len(messages) \in Nat /\ DOMAIN messages = 1 .. Len(messages)
  BY DEF TypeOK
<1>2. S \in SUBSET (1 .. Len(messages)) /\ LastUser = Newest(S)
  BY <1>1 DEF LastUser
<1>3. \A j \in 1 .. Len(messages) : messages[j].role = "user" => j \in S
  BY <1>1
<1> HIDE DEF S
<1>4. (S = {} => Newest(S) = 0) /\ (S # {} => Newest(S) \in S /\ \A j \in S : j <= Newest(S))
  BY <1>1, <1>2, NewestIs
<1>5. /\ LastUser \in Nat /\ LastUser <= Len(messages)
      /\ \A j \in S : j <= LastUser
  <2>1. CASE S = {}
    BY <1>1, <1>2, <1>4, <2>1
  <2>2. CASE S # {}
    <3>1. \A i \in 1 .. Len(messages) : i \in Nat /\ i <= Len(messages)
      BY <1>1
    <3> QED
      BY <1>2, <1>4, <2>2, <3>1
  <2> QED
    BY <2>1, <2>2
<1> QED
  BY <1>3, <1>5

\* The answer regenerate() hides is the newest visible one, if there is one.
LEMMA LastActiveIs ==
  ASSUME TypeOK
  PROVE  /\ LastActiveAssistant = 0 \/
              /\ LastActiveAssistant \in 1 .. Len(messages)
              /\ messages[LastActiveAssistant].active
              /\ messages[LastActiveAssistant].role = "assistant"
         /\ \A j \in 1 .. Len(messages) :
              messages[j].role = "assistant" /\ messages[j].active =>
                j <= LastActiveAssistant
<1> DEFINE S == {i \in DOMAIN messages :
                   messages[i].role = "assistant" /\ messages[i].active}
<1>1. Len(messages) \in Nat /\ DOMAIN messages = 1 .. Len(messages)
  BY DEF TypeOK
<1>2. S \in SUBSET (1 .. Len(messages)) /\ LastActiveAssistant = Newest(S)
  BY <1>1 DEF LastActiveAssistant
<1>3. \A j \in S : /\ j \in 1 .. Len(messages) /\ messages[j].active
                   /\ messages[j].role = "assistant"
  BY <1>1
<1>4. \A j \in 1 .. Len(messages) :
        messages[j].role = "assistant" /\ messages[j].active => j \in S
  BY <1>1
<1> HIDE DEF S
<1>5. /\ S = {} => Newest(S) = 0
      /\ S # {} => Newest(S) \in S /\ \A j \in S : j <= Newest(S)
  BY <1>1, <1>2, NewestIs
<1>6. CASE S = {}
  BY <1>2, <1>4, <1>5, <1>6
<1>7. CASE S # {}
  BY <1>2, <1>3, <1>4, <1>5, <1>7
<1> QED
  BY <1>6, <1>7

\* What the latest summary is.
LEMMA LatestIs ==
  ASSUME TypeOK, NEW prev \in LatestSummaries
  PROVE  /\ prev \in Summary
         /\ prev = NoSummary \/ \E l \in 1 .. Len(summaries) : summaries[l] = prev
<1>1. NoSummary \in Summary
  BY DEF NoSummary, Summary
<1>2. CASE summaries = <<>>
  BY <1>1, <1>2 DEF LatestSummaries
<1>3. CASE summaries # <<>>
  <2>1. PICK l \in DOMAIN summaries : prev = summaries[l]
    BY <1>3 DEF LatestSummaries
  <2>2. l \in 1 .. Len(summaries) /\ summaries[l] \in Summary
    BY <2>1 DEF TypeOK
  <2> QED
    BY <2>1, <2>2
<1> QED
  BY <1>2, <1>3

\* A message more, filed where nothing is visible, behind every visible answer
\* and later than every user message its prompt missed, keeps the rows in order.
LEMMA OneMessageMore ==
  ASSUME TypeOK, Ordered, OneAnswerPerMessage, NEW m \in Message,
         messages' = Append(messages, m), m.parent <= Len(messages),
         m.prompted <= Len(messages),
         \A j \in 1 .. Len(messages) :
           /\ m.role = "assistant" /\ messages[j].role = "user" => j <= m.prompted
           /\ (/\ m.role = "assistant" /\ messages[j].role = "assistant"
               /\ messages[j].active) => j < m.parent
           /\ m.parent > 0 /\ messages[j].active => messages[j].parent # m.parent
  PROVE  Ordered' /\ OneAnswerPerMessage'
<1> DEFINE n == Len(messages)
<1>1. n \in Nat /\ \A i \in 1 .. n : messages[i] \in Message
  BY DEF TypeOK
<1>2. Len(messages') = n + 1 /\ DOMAIN messages' = 1 .. (n + 1)
  BY DEF TypeOK
<1>3. messages'[n + 1] = m /\ \A i \in 1 .. n : messages'[i] = messages[i]
  BY DEF TypeOK
<1>4. \A i \in 1 .. (n + 1) : i \in 1 .. n \/ i = n + 1
  BY <1>1
<1>5. m.parent \in Nat /\ m.prompted \in Nat /\ m.role \in {"user", "assistant"}
  BY DEF Message
<1>6. \A i \in 1 .. n : /\ messages[i].parent \in Nat /\ messages[i].parent < i
                        /\ messages[i].prompted \in Nat /\ messages[i].prompted < i
  BY <1>1 DEF Ordered, Message
<1>7. \A u \in 1 .. n : \A i, j \in 1 .. n :
        (/\ messages[i].parent = u /\ messages[j].parent = u
         /\ messages[i].active /\ messages[j].active) => i = j
  BY <1>1 DEF OneAnswerPerMessage, TypeOK
<1>8. \A a, j \in 1 .. n :
        messages[a].role = "assistant" /\ messages[j].role = "user" =>
          j <= messages[a].prompted \/ a < j
  BY DEF Ordered
<1>12. \A a, b \in 1 .. n :
         (/\ messages[a].role = "assistant" /\ messages[b].role = "assistant"
          /\ messages[a].active /\ a < b) => a < messages[b].parent
  BY DEF Ordered
<1> HIDE DEF n
<1>9. Ordered'
  <2>1. \A i \in 1 .. (n + 1) : messages'[i].parent < i /\ messages'[i].prompted < i
    BY <1>1, <1>3, <1>4, <1>5, <1>6 DEF n
  <2>2. ASSUME NEW a \in 1 .. (n + 1), NEW j \in 1 .. (n + 1),
               messages'[a].role = "assistant", messages'[j].role = "user"
        PROVE  j <= messages'[a].prompted \/ a < j
    <3>1. CASE a \in 1 .. n /\ j \in 1 .. n
      BY <1>3, <1>8, <2>2, <3>1
    <3>2. CASE a \in 1 .. n /\ j = n + 1
      BY <1>1, <3>2
    <3>3. CASE a = n + 1 /\ j \in 1 .. n
      BY <1>3, <2>2, <3>3 DEF n
    <3>4. CASE a = n + 1 /\ j = n + 1
      BY <2>2, <3>4
    <3> QED
      BY <1>4, <3>1, <3>2, <3>3, <3>4
  <2>3. ASSUME NEW a \in 1 .. (n + 1), NEW b \in 1 .. (n + 1), a < b,
               messages'[a].role = "assistant", messages'[b].role = "assistant",
               messages'[a].active
        PROVE  a < messages'[b].parent
    <3>1. CASE a \in 1 .. n /\ b \in 1 .. n
      BY <1>3, <1>12, <2>3, <3>1
    <3>2. CASE a \in 1 .. n /\ b = n + 1
      BY <1>3, <2>3, <3>2 DEF n
    <3>3. a # n + 1
      BY <1>1, <2>3
    <3> QED
      BY <1>4, <3>1, <3>2, <3>3
  <2> QED
    BY <1>2, <2>1, <2>2, <2>3 DEF Ordered
<1>10. ASSUME NEW u \in 1 .. (n + 1), NEW i \in 1 .. (n + 1), NEW j \in 1 .. (n + 1),
              messages'[i].parent = u, messages'[j].parent = u,
              messages'[i].active, messages'[j].active
       PROVE  i = j
  <2>1. CASE i \in 1 .. n /\ j \in 1 .. n
    <3>0. messages[i].parent = u
      BY <1>3, <1>10, <2>1
    <3>1. u \in 1 .. n
      BY <1>1, <1>6, <2>1, <3>0
    <3> QED
      BY <1>3, <1>7, <1>10, <2>1, <3>1
  <2>2. CASE i \in 1 .. n /\ j = n + 1
    BY <1>1, <1>3, <1>10, <2>2 DEF n
  <2>3. CASE i = n + 1 /\ j \in 1 .. n
    BY <1>1, <1>3, <1>10, <2>3 DEF n
  <2> QED
    BY <1>4, <2>1, <2>2, <2>3
<1>11. OneAnswerPerMessage'
  BY <1>2, <1>10 DEF OneAnswerPerMessage
<1> QED
  BY <1>9, <1>11

\* Hiding a message leaves the rows in order.
LEMMA OneMessageHidden ==
  ASSUME TypeOK, Ordered, OneAnswerPerMessage, NEW a \in 1 .. Len(messages),
         messages' = [messages EXCEPT ![a].active = FALSE]
  PROVE  /\ messages' \in Seq(Message) /\ Len(messages') = Len(messages)
         /\ \A i \in 1 .. Len(messages) :
              /\ messages'[i].role = messages[i].role
              /\ messages'[i].parent = messages[i].parent
              /\ messages'[i].active => messages[i].active /\ i # a
         /\ Ordered' /\ OneAnswerPerMessage'
<1> DEFINE n == Len(messages)
           m == [messages[a] EXCEPT !.active = FALSE]
<1>1. n \in Nat /\ \A i \in 1 .. n : messages[i] \in Message
  BY DEF TypeOK
<1>2. /\ m \in Message /\ m.role = messages[a].role /\ m.parent = messages[a].parent
      /\ m.prompted = messages[a].prompted /\ m.active = FALSE
  <2>1. messages[a] \in Message
    BY <1>1
  <2> QED
    BY <2>1 DEF Message
<1>0. messages \in Seq(Message)
  BY DEF TypeOK
<1>3. messages' = [messages EXCEPT ![a] = m]
  OBVIOUS
<1> HIDE DEF m
<1> DEFINE t == [messages EXCEPT ![a] = m]
<1>11. /\ t \in Seq(Message) /\ Len(t) = Len(messages)
      /\ \A i \in 1 .. Len(messages) : t[i] = IF i = a THEN m ELSE messages[i]
  <2>1. m \in Message
    BY <1>2
  <2> QED
    BY <1>0, <2>1, ExceptSeq
<1>10. messages' = t
  BY <1>3
<1> HIDE DEF t
<1>4. messages' \in Seq(Message) /\ Len(messages') = n
  BY <1>10, <1>11
<1>5. \A i \in 1 .. n : messages'[i] = IF i = a THEN m ELSE messages[i]
  BY <1>10, <1>11
<1>6. \A i \in 1 .. n :
        /\ messages'[i].role = messages[i].role
        /\ messages'[i].parent = messages[i].parent
        /\ messages'[i].prompted = messages[i].prompted
        /\ messages'[i].active => messages[i].active /\ i # a
  BY <1>2, <1>5
<1>7. DOMAIN messages = 1 .. n /\ DOMAIN messages' = 1 .. n
  BY <1>4 DEF TypeOK
<1>8. Ordered'
  BY <1>4, <1>6 DEF Ordered
<1>9. OneAnswerPerMessage'
  BY <1>4, <1>6, <1>7 DEF OneAnswerPerMessage
<1> QED
  BY <1>4, <1>6, <1>8, <1>9

\* A request that moves keeps the others where they are.
LEMMA Moved ==
  ASSUME TypeOK, NEW r \in Requests, NEW l \in PCs, Goto(r, l)
  PROVE  /\ pc' \in [Requests -> PCs] /\ pc'[r] = l
         /\ \A q \in Requests : q # r => pc'[q] = pc[q]
BY DEF TypeOK, Goto

\* The request that streams moves on or ends; no other one streams.
LEMMA StreamMoves ==
  ASSUME TypeOK, OneStream, NEW r \in Requests, NEW l \in PCs, Goto(r, l),
         pc[r] \in Flight, UNCHANGED exists,
         \/ l \in Flight \ {"t1"} /\ UNCHANGED active /\ exists
         \/ l = "ended" /\ active' = FALSE
  PROVE  /\ OneStream' /\ pc' \in [Requests -> PCs] /\ active' \in BOOLEAN
         /\ \A q \in Requests : q # r => pc'[q] \notin Flight
<1>1. /\ pc' \in [Requests -> PCs] /\ pc'[r] = l
      /\ \A q \in Requests : q # r => pc'[q] = pc[q]
  BY Moved
<1>2. \A q \in Requests : q # r => pc[q] \notin Flight /\ pc'[q] \notin Flight
  BY <1>1 DEF OneStream
<1>3. "ended" \notin Flight
  BY DEF Flight
<1>4. active' \in BOOLEAN
  BY DEF TypeOK
<1>7. \A p, q \in Requests : pc'[p] \in Flight /\ pc'[q] \in Flight => p = q
  BY <1>2
<1>8. active
  BY DEF OneStream
<1>5. CASE l \in Flight \ {"t1"} /\ UNCHANGED active /\ exists
  <2>1. active' <=> \E q \in Requests : pc'[q] \in Flight
    BY <1>1, <1>5, <1>8, Zenon
  <2>2. ~exists' => \A q \in Requests : pc'[q] \in {"new", "t1", "ended"}
    BY <1>5
  <2>3. OneStream'
    BY <1>7, <2>1, <2>2, Zenon DEF OneStream
  <2> QED
    BY <1>1, <1>2, <1>4, <2>3
<1>6. CASE l = "ended" /\ active' = FALSE
  <2>1. active' <=> \E q \in Requests : pc'[q] \in Flight
    BY <1>1, <1>2, <1>3, <1>6
  <2>2. ~exists' => \A q \in Requests : pc'[q] \in {"new", "t1", "ended"}
    <3>1. exists' = exists
      OBVIOUS
    <3> QED
      BY <1>1, <1>6, <3>1 DEF OneStream
  <2>3. OneStream'
    BY <1>7, <2>1, <2>2, Zenon DEF OneStream
  <2> QED
    BY <1>1, <1>2, <1>4, <2>3
<1> QED
  BY <1>5, <1>6

\* Summaries and jobs that no one touches stay as they are.
LEMMA JobsUntouched ==
  ASSUME TypeOK, SummariesExtend, \A k \in Keys : JobSane(k), UNCHANGED <<summaries, jobs>>
  PROVE  /\ jobs' \in [Keys -> Job] /\ summaries' \in Seq(Summary)
         /\ SummariesExtend' /\ \A k \in Keys : JobSane(k)'
BY DEF TypeOK, SummariesExtend, JobSane

\* So does enqueueing one.
LEMMA EnqueueKeeps ==
  ASSUME TypeOK, SummariesExtend, \A k \in Keys : JobSane(k), UNCHANGED summaries,
         NEW key, Enqueue(key)
  PROVE  /\ jobs' \in [Keys -> Job] /\ summaries' \in Seq(Summary)
         /\ SummariesExtend' /\ \A k \in Keys : JobSane(k)'
<1>1. CASE UNCHANGED jobs
  BY <1>1, JobsUntouched
<1>2. CASE jobs' = [jobs EXCEPT ![key].state = "queued"] /\ key \in Keys
              /\ jobs[key].state = "unseen"
  <2> DEFINE j == [jobs[key] EXCEPT !.state = "queued"]
  <2>1. /\ j \in Job /\ j.state = "queued" /\ j.attempt = jobs[key].attempt
    BY <1>2 DEF TypeOK, Job
  <2>2. jobs' = [jobs EXCEPT ![key] = j]
    BY <1>2
  <2> HIDE DEF j
  <2>3. jobs' \in [Keys -> Job] /\ \A k \in Keys : jobs'[k] = IF k = key THEN j ELSE jobs[k]
    BY <2>1, <2>2 DEF TypeOK
  <2>4. \A k \in Keys : JobSane(k)'
    BY <1>2, <2>1, <2>3 DEF JobSane
  <2> QED
    BY <2>3, <2>4 DEF TypeOK, SummariesExtend
<1>3. key \notin Keys => [jobs EXCEPT ![key].state = "queued"] = jobs
  BY DEF TypeOK
<1> QED
  BY <1>1, <1>2, <1>3 DEF Enqueue

\* The hands of a turn are those of its request: nobody else has any.
LEMMA HandsOf ==
  ASSUME NEW r \in Requests, InHand(r)',
         \A q \in Requests : q # r => pc'[q] \notin Flight
  PROVE  \A q \in Requests : InHand(q)'
BY DEF InHand, Flight, Answering

\* With nobody in flight, nothing is in hand.
LEMMA NothingInHand ==
  ASSUME \A q \in Requests : pc'[q] \notin Flight
  PROVE  \A q \in Requests : InHand(q)'
BY DEF InHand, Flight, Answering

\* A field of a turn is set.
LEMMA TurnSet ==
  ASSUME TypeOK, NEW r \in Requests, NEW t \in Turn, turn' = [turn EXCEPT ![r] = t]
  PROVE  turn' \in [Requests -> Turn] /\ turn'[r] = t
BY DEF TypeOK

\* Rows that no one touches stay in order.
LEMMA RowsUntouched ==
  ASSUME TypeOK, Ordered, OneAnswerPerMessage, UNCHANGED messages
  PROVE  messages' \in Seq(Message) /\ Ordered' /\ OneAnswerPerMessage'
BY DEF TypeOK, Ordered, OneAnswerPerMessage

\* A request that ends gives the session back.
LEMMA EndKeeps ==
  ASSUME TypeOK, OneStream, NEW r \in Requests, End(r), pc[r] \in Flight, UNCHANGED exists
  PROVE  /\ OneStream' /\ pc' \in [Requests -> PCs] /\ active' \in BOOLEAN
         /\ turn' \in [Requests -> Turn] /\ \A q \in Requests : InHand(q)'
<1>1. "ended" \in PCs /\ "ended" \notin Flight /\ Goto(r, "ended") /\ active' = FALSE
  BY DEF PCs, Flight, End
<1>2. /\ OneStream' /\ pc' \in [Requests -> PCs] /\ active' \in BOOLEAN
      /\ \A q \in Requests : q # r => pc'[q] \notin Flight
  BY <1>1, StreamMoves
<1>3. \A q \in Requests : pc'[q] \notin Flight
  BY <1>1, <1>2, Moved
<1>4. NoTurn \in Turn
  BY DEF NoTurn, Turn, Ops
<1>5. turn' \in [Requests -> Turn]
  BY <1>4, TurnSet DEF End
<1> QED
  BY <1>2, <1>3, <1>5, NothingInHand

LEMMA AcceptKeeps ==
  ASSUME IInv, NEW r \in Requests, NEW op \in Ops, Accept(r, op)
  PROVE  IInv'
<1> USE DEF IInv
<1> DEFINE t == [turn[r] EXCEPT !.op = op]
<1>1. t \in Turn
  BY DEF TypeOK, Turn
<1>2. turn' = [turn EXCEPT ![r] = t]
  BY DEF Accept
<1> HIDE DEF t
<1>3. /\ ~active /\ active' = TRUE /\ Goto(r, "t1") /\ pc[r] = "new" /\ exists' = exists
      /\ "t1" \in PCs /\ "t1" \in Flight /\ "t1" \notin Answering
  BY DEF Accept, Arrives, PCs, Flight, Answering
<1>4. turn' \in [Requests -> Turn]
  BY <1>1, <1>2, TurnSet
<1>5. /\ pc' \in [Requests -> PCs] /\ pc'[r] = "t1"
      /\ \A q \in Requests : q # r => pc'[q] = pc[q]
  BY <1>3, Moved
<1>6. \A q \in Requests : pc[q] \notin Flight
  BY <1>3 DEF OneStream
<1>7. OneStream'
  <2>1. \A p, q \in Requests : pc'[p] \in Flight /\ pc'[q] \in Flight => p = q
    BY <1>5, <1>6
  <2>2. active' <=> \E q \in Requests : pc'[q] \in Flight
    BY <1>3, <1>5
  <2>3. ~exists' => \A q \in Requests : pc'[q] \in {"new", "t1", "ended"}
    BY <1>3, <1>5 DEF OneStream
  <2> QED
    BY <2>1, <2>2, <2>3, Zenon DEF OneStream
<1>8. \A q \in Requests : InHand(q)'
  <2>1. Answering \subseteq Flight
    BY DEF Answering, Flight
  <2>2. \A q \in Requests : pc'[q] \notin Answering
    BY <1>3, <1>5, <1>6, <2>1
  <2> QED
    BY <2>2 DEF InHand
<1>9. UNCHANGED <<exists, messages, summaries, jobs, restarts>>
  BY DEF Accept
<1>10. exists' \in BOOLEAN /\ active' \in BOOLEAN /\ restarts' \in Nat
  BY <1>3, <1>9 DEF TypeOK
<1>11. /\ jobs' \in [Keys -> Job] /\ summaries' \in Seq(Summary)
       /\ SummariesExtend' /\ \A k \in Keys : JobSane(k)'
  BY <1>9, JobsUntouched
<1>12. messages' \in Seq(Message) /\ Ordered' /\ OneAnswerPerMessage'
  BY <1>9, RowsUntouched
<1>13. TypeOK'
  BY <1>4, <1>5, <1>10, <1>11, <1>12 DEF TypeOK
<1> QED
  BY <1>7, <1>8, <1>11, <1>12, <1>13

\* Requests that are turned away or only enqueue a summary never stream.
LEMMA AsideKeeps ==
  ASSUME IInv, NEW r \in Requests, Conflict(r) \/ ForceSummarize(r)
  PROVE  IInv'
<1> USE DEF IInv
<1>1. /\ pc[r] = "new" /\ Goto(r, "ended") /\ UNCHANGED <<exists, messages, active, turn, restarts>>
      /\ "ended" \in PCs /\ "ended" \notin Flight /\ "new" \notin Flight
      /\ "ended" \notin Answering
  BY DEF Conflict, ForceSummarize, Arrives, PCs, Flight, Answering
<1>2. /\ pc' \in [Requests -> PCs] /\ pc'[r] = "ended"
      /\ \A q \in Requests : q # r => pc'[q] = pc[q]
  BY <1>1, Moved
<1>3. \A q \in Requests : pc'[q] \in Flight <=> pc[q] \in Flight
  BY <1>1, <1>2
<1>4. OneStream'
  <2>1. \A p, q \in Requests : pc'[p] \in Flight /\ pc'[q] \in Flight => p = q
    BY <1>3 DEF OneStream
  <2>2. active' <=> \E q \in Requests : pc'[q] \in Flight
    <3>1. active' <=> active
      BY <1>1
    <3> QED
      BY <1>3, <3>1, Zenon DEF OneStream
  <2>3. ~exists' => \A q \in Requests : pc'[q] \in {"new", "t1", "ended"}
    BY <1>1, <1>2 DEF OneStream
  <2> QED
    BY <2>1, <2>2, <2>3, Zenon DEF OneStream
<1>5. \A q \in Requests : InHand(q)'
  <2> SUFFICES ASSUME NEW q \in Requests
               PROVE  InHand(q)'
    OBVIOUS
  <2>1. CASE q = r
    BY <1>1, <1>2, <2>1 DEF InHand
  <2>2. CASE q # r
    BY <1>1, <1>2, <2>2 DEF InHand
  <2> QED
    BY <2>1, <2>2
<1>6. /\ jobs' \in [Keys -> Job] /\ summaries' \in Seq(Summary)
      /\ SummariesExtend' /\ \A k \in Keys : JobSane(k)'
  BY JobsUntouched, EnqueueKeeps DEF Conflict, ForceSummarize
<1>7. messages' \in Seq(Message) /\ Ordered' /\ OneAnswerPerMessage'
  BY <1>1, RowsUntouched
<1>8. TypeOK'
  BY <1>1, <1>2, <1>6, <1>7 DEF TypeOK
<1> QED
  BY <1>4, <1>5, <1>6, <1>7, <1>8

LEMMA DropKeeps ==
  ASSUME IInv, NEW r \in Requests, RollBackTurn(r) \/ StreamIsLost(r) \/ PersistFails(r)
  PROVE  IInv'
<1> USE DEF IInv
<1>1. /\ pc[r] \in Flight /\ End(r) /\ UNCHANGED <<exists, messages, summaries, jobs, restarts>>
  BY DEF RollBackTurn, StreamIsLost, PersistFails, Flight
<1>2. /\ OneStream' /\ pc' \in [Requests -> PCs] /\ active' \in BOOLEAN
      /\ turn' \in [Requests -> Turn] /\ \A q \in Requests : InHand(q)'
  BY <1>1, EndKeeps
<1>3. /\ jobs' \in [Keys -> Job] /\ summaries' \in Seq(Summary)
      /\ SummariesExtend' /\ \A k \in Keys : JobSane(k)'
  BY <1>1, JobsUntouched
<1>4. messages' \in Seq(Message) /\ Ordered' /\ OneAnswerPerMessage'
  BY <1>1, RowsUntouched
<1>5. TypeOK'
  BY <1>1, <1>2, <1>3, <1>4 DEF TypeOK
<1> QED
  BY <1>2, <1>3, <1>4, <1>5

LEMMA StreamStepKeeps ==
  ASSUME IInv, NEW r \in Requests, StreamEnds(r) \/ ProviderFails(r)
  PROVE  IInv'
<1> USE DEF IInv
<1>1. PICK l \in {"t3", "partial"} : Goto(r, l)
  BY DEF StreamEnds, ProviderFails
<1>2. /\ pc[r] = "t2" /\ pc[r] \in Flight /\ pc[r] \in Answering /\ l \in Flight \ {"t1"}
      /\ l \in PCs /\ UNCHANGED <<exists, messages, summaries, active, turn, jobs, restarts>>
  BY DEF StreamEnds, ProviderFails, Flight, Answering, PCs
<1>3. exists
  <2>1. "t2" \notin {"new", "t1", "ended"}
    OBVIOUS
  <2> QED
    BY <1>2, <2>1 DEF OneStream
<1>4. /\ OneStream' /\ pc' \in [Requests -> PCs] /\ active' \in BOOLEAN
      /\ \A q \in Requests : q # r => pc'[q] \notin Flight
  BY <1>1, <1>2, <1>3, StreamMoves
<1>5. InHand(r)'
  BY <1>2 DEF InHand
<1>6. \A q \in Requests : InHand(q)'
  BY <1>4, <1>5, HandsOf
<1>7. /\ jobs' \in [Keys -> Job] /\ summaries' \in Seq(Summary)
      /\ SummariesExtend' /\ \A k \in Keys : JobSane(k)'
  BY <1>2, JobsUntouched
<1>8. messages' \in Seq(Message) /\ Ordered' /\ OneAnswerPerMessage'
  BY <1>2, RowsUntouched
<1>9. TypeOK'
  BY <1>2, <1>4, <1>7, <1>8 DEF TypeOK
<1> QED
  BY <1>4, <1>6, <1>7, <1>8, <1>9

LEMMA StoreKeeps ==
  ASSUME IInv, NEW r \in Requests, StoreUserMessage(r)
  PROVE  IInv'
<1> USE DEF IInv
<1> DEFINE m == [role |-> "user", parent |-> 0, active |-> TRUE, status |-> "complete",
                 tokens |-> 1, prompted |-> 0]
           n == Len(messages) + 1
           t == [turn[r] EXCEPT !.parent = n, !.prompted = n]
<1>1. /\ m \in Message /\ m.parent = 0 /\ m.prompted = 0 /\ m.role = "user" /\ n \in Nat
  BY DEF Message, TypeOK
<1>2. /\ pc[r] = "t1" /\ pc[r] \in Flight /\ "t2" \in Flight \ {"t1"} /\ "t2" \in PCs
      /\ Goto(r, "t2") /\ exists /\ UNCHANGED <<exists, summaries, active, jobs, restarts>>
      /\ messages' = Append(messages, m)
  BY DEF StoreUserMessage, Flight, PCs
<1> HIDE DEF m
<1>3. messages' \in Seq(Message) /\ Len(messages') = n /\ messages'[n] = m
      /\ \A i \in 1 .. Len(messages) : messages'[i] = messages[i]
  BY <1>1, <1>2 DEF TypeOK
<1>4. t \in Turn /\ t.parent = n /\ t.prompted = n
  BY <1>1 DEF TypeOK, Turn
<1>5. turn' = [turn EXCEPT ![r] = t]
  BY <1>3 DEF StoreUserMessage
<1> HIDE DEF t
<1>6. Ordered' /\ OneAnswerPerMessage'
  <2>1. m.parent <= Len(messages) /\ m.prompted <= Len(messages)
    BY <1>1 DEF TypeOK
  <2>2. \A j \in 1 .. Len(messages) :
           /\ m.role = "assistant" /\ messages[j].role = "user" => j <= m.prompted
           /\ (/\ m.role = "assistant" /\ messages[j].role = "assistant"
               /\ messages[j].active) => j < m.parent
           /\ m.parent > 0 /\ messages[j].active => messages[j].parent # m.parent
    BY <1>1
  <2> QED
    BY <1>1, <1>2, <2>1, <2>2, OneMessageMore
<1>7. turn' \in [Requests -> Turn] /\ turn'[r] = t
  BY <1>4, <1>5, TurnSet
<1>8. /\ OneStream' /\ pc' \in [Requests -> PCs] /\ active' \in BOOLEAN
      /\ \A q \in Requests : q # r => pc'[q] \notin Flight
  BY <1>2, StreamMoves
<1>9. InHand(r)'
  <2>1. \A j \in 1 .. n : messages'[j].parent # n /\ j <= n
    <3>1. \A j \in 1 .. n : messages'[j] \in Message /\ messages'[j].parent < j /\ j <= n
      BY <1>3, <1>6 DEF Ordered
    <3>2. \A j \in 1 .. n : messages'[j].parent \in Nat
      BY <3>1 DEF Message
    <3> QED
      BY <1>1, <3>1, <3>2
  <2>2. \A j \in 1 .. n : messages'[j].role = "assistant" => j < n
    BY <1>1, <1>3
  <2> QED
    BY <1>1, <1>3, <1>4, <1>7, <2>1, <2>2 DEF InHand
<1>10. \A q \in Requests : InHand(q)'
  BY <1>8, <1>9, HandsOf
<1>11. /\ jobs' \in [Keys -> Job] /\ summaries' \in Seq(Summary)
       /\ SummariesExtend' /\ \A k \in Keys : JobSane(k)'
  BY <1>2, JobsUntouched
<1>12. TypeOK'
  BY <1>2, <1>3, <1>7, <1>8, <1>11 DEF TypeOK
<1> QED
  BY <1>6, <1>8, <1>10, <1>11, <1>12

\* An answer is visible alone under its message, behind every visible answer
\* and before the next user message.
LEMMA AnswerKeeps ==
  ASSUME IInv, NEW r \in Requests, pc[r] \in Answering, NEW status \in {"complete", "partial"},
         messages' = Append(messages, Answer(r, status))
  PROVE  messages' \in Seq(Message) /\ Ordered' /\ OneAnswerPerMessage'
<1> USE DEF IInv
<1> DEFINE m == Answer(r, status)
<1>1. /\ m \in Message /\ m.role = "assistant" /\ m.parent = turn[r].parent
      /\ m.prompted = turn[r].prompted
  BY DEF Answer, Message, TypeOK, Turn
<1>2. messages' = Append(messages, m)
  OBVIOUS
<1> HIDE DEF m
<1>3. m.parent <= Len(messages) /\ m.prompted <= Len(messages)
  BY <1>1 DEF InHand
<1>4. \A j \in 1 .. Len(messages) :
         /\ m.role = "assistant" /\ messages[j].role = "user" => j <= m.prompted
         /\ (/\ m.role = "assistant" /\ messages[j].role = "assistant"
             /\ messages[j].active) => j < m.parent
         /\ m.parent > 0 /\ messages[j].active => messages[j].parent # m.parent
  BY <1>1 DEF InHand
<1>5. Ordered' /\ OneAnswerPerMessage'
  BY <1>1, <1>2, <1>3, <1>4, OneMessageMore
<1> QED
  BY <1>1, <1>2, <1>5 DEF TypeOK

LEMMA PersistKeeps ==
  ASSUME IInv, NEW r \in Requests, PersistPartial(r) \/ PersistComplete(r)
  PROVE  IInv'
<1> USE DEF IInv
<1>1. /\ pc[r] \in Flight /\ pc[r] \in Answering /\ pc[r] \notin {"new", "t1", "ended"}
      /\ UNCHANGED <<exists, summaries, jobs, restarts>>
  BY DEF PersistPartial, PersistComplete, Flight, Answering
<1>2. messages' \in Seq(Message) /\ Ordered' /\ OneAnswerPerMessage'
  BY <1>1, AnswerKeeps DEF PersistPartial, PersistComplete
<1>3. /\ OneStream' /\ pc' \in [Requests -> PCs] /\ active' \in BOOLEAN
      /\ turn' \in [Requests -> Turn] /\ \A q \in Requests : InHand(q)'
  <2>1. CASE PersistPartial(r)
    BY <1>1, <2>1, EndKeeps DEF PersistPartial
  <2>2. CASE PersistComplete(r)
    <3> DEFINE t == [turn[r] EXCEPT !.answer = Len(messages')]
    <3>1. t \in Turn
      <4>1. turn[r] \in Turn /\ Len(messages') \in Nat
        BY <1>2 DEF TypeOK
      <4> QED
        BY <4>1 DEF Turn
    <3>2. turn' = [turn EXCEPT ![r] = t]
      BY <2>2 DEF PersistComplete
    <3> HIDE DEF t
    <3>3. turn' \in [Requests -> Turn]
      BY <3>1, <3>2, TurnSet
    <3>4. "t4" \in Flight \ {"t1"} /\ "t4" \in PCs /\ "t4" \notin Answering
      BY DEF Flight, PCs, Answering
    <3>5. Goto(r, "t4") /\ UNCHANGED active /\ exists
      <4>1. exists
        BY <1>1 DEF OneStream
      <4> QED
        BY <2>2, <4>1 DEF PersistComplete
    <3>6. /\ OneStream' /\ pc' \in [Requests -> PCs] /\ active' \in BOOLEAN
          /\ \A q \in Requests : q # r => pc'[q] \notin Flight
      BY <1>1, <3>4, <3>5, StreamMoves
    <3>7. pc'[r] = "t4"
      BY <3>4, <3>5, Moved
    <3>8. InHand(r)'
      BY <3>4, <3>7 DEF InHand
    <3> QED
      BY <3>3, <3>6, <3>8, HandsOf
  <2> QED
    BY <2>1, <2>2
<1>4. /\ jobs' \in [Keys -> Job] /\ summaries' \in Seq(Summary)
      /\ SummariesExtend' /\ \A k \in Keys : JobSane(k)'
  BY <1>1, JobsUntouched
<1>5. TypeOK'
  BY <1>1, <1>2, <1>3, <1>4 DEF TypeOK
<1> QED
  BY <1>2, <1>3, <1>4, <1>5

LEMMA HideKeeps ==
  ASSUME IInv, NEW r \in Requests, HideLastAnswer(r)
  PROVE  IInv'
<1> USE DEF IInv
<1> DEFINE a == LastActiveAssistant
           u == LastUser
           p == IF a = 0 THEN 0 ELSE messages[a].parent
           t == [turn[r] EXCEPT !.prompted = u, !.parent = p]
<1>1. /\ pc[r] = "t1" /\ pc[r] \in Flight /\ "t2" \in Flight \ {"t1"} /\ "t2" \in PCs
      /\ Goto(r, "t2") /\ exists /\ UNCHANGED <<exists, summaries, active, jobs, restarts>>
  BY DEF HideLastAnswer, Flight, PCs
<1>2. turn' = [turn EXCEPT ![r] = t]
  BY DEF HideLastAnswer
<1>3. /\ a = 0 \/ (/\ a \in 1 .. Len(messages) /\ messages[a].active
                    /\ messages[a].role = "assistant")
      /\ \A j \in 1 .. Len(messages) :
           messages[j].role = "assistant" /\ messages[j].active => j <= a
  BY LastActiveIs
<1>4. /\ u \in Nat /\ u <= Len(messages) /\ Len(messages) \in Nat
      /\ \A j \in 1 .. Len(messages) : messages[j].role = "user" => j <= u
  BY LastUserIs DEF TypeOK
<1>5. a = 0 => messages' = messages
  BY DEF HideLastAnswer
<1>6. a # 0 => messages' = [messages EXCEPT ![a].active = FALSE]
  BY DEF HideLastAnswer
<1> HIDE DEF a, u
<1>7. /\ messages' \in Seq(Message) /\ Ordered' /\ OneAnswerPerMessage'
      /\ p \in Nat /\ p <= Len(messages') /\ Len(messages') = Len(messages)
      /\ \A j \in 1 .. Len(messages') :
           /\ messages'[j].role = "user" => j <= u
           /\ p > 0 /\ messages'[j].active => messages'[j].parent # p
           /\ messages'[j].role = "assistant" /\ messages'[j].active => j < p
  <2>1. CASE a = 0
    <3>1. messages' \in Seq(Message) /\ Ordered' /\ OneAnswerPerMessage'
      BY <1>5, <2>1, RowsUntouched
    <3>2. \A j \in 1 .. Len(messages) :
            ~(messages[j].role = "assistant" /\ messages[j].active)
      BY <1>3, <1>4, <2>1
    <3> QED
      BY <1>4, <1>5, <2>1, <3>1, <3>2
  <2>2. CASE a # 0
    <3>1. a \in 1 .. Len(messages) /\ messages[a].active /\ messages[a].role = "assistant"
      BY <1>3, <2>2
    <3>2. /\ messages' \in Seq(Message) /\ Len(messages') = Len(messages)
          /\ \A i \in 1 .. Len(messages) :
               /\ messages'[i].role = messages[i].role
               /\ messages'[i].parent = messages[i].parent
               /\ messages'[i].active => messages[i].active /\ i # a
          /\ Ordered' /\ OneAnswerPerMessage'
      BY <1>6, <2>2, <3>1, OneMessageHidden
    <3>3. p = messages[a].parent /\ p \in Nat /\ p < a /\ p <= Len(messages)
      <4>1. messages[a] \in Message /\ messages[a].parent < a
        BY <3>1 DEF TypeOK, Ordered
      <4>2. messages[a].parent \in Nat
        BY <4>1 DEF Message
      <4> QED
        BY <1>4, <2>2, <3>1, <4>1, <4>2
    <3>4. \A j \in 1 .. Len(messages) :
            p > 0 /\ messages[j].parent = p /\ messages[j].active => j = a
      <4>1. DOMAIN messages = 1 .. Len(messages) /\ (p > 0 => p \in 1 .. Len(messages))
        BY <1>4, <3>3 DEF TypeOK
      <4> QED
        BY <3>1, <3>3, <4>1 DEF OneAnswerPerMessage
    <3>5. \A j \in 1 .. Len(messages) :
            p > 0 /\ messages'[j].active => messages'[j].parent # p
      BY <3>2, <3>4
    <3>6. \A j \in 1 .. Len(messages) :
            messages'[j].role = "assistant" /\ messages'[j].active => j < p
      <4> SUFFICES ASSUME NEW j \in 1 .. Len(messages), messages'[j].role = "assistant",
                          messages'[j].active
                   PROVE  j < p
        OBVIOUS
      <4>1. messages[j].role = "assistant" /\ messages[j].active /\ j # a
        BY <3>2
      <4>2. j < a
        BY <1>3, <1>4, <3>1, <4>1
      <4> QED
        BY <3>1, <3>3, <4>1, <4>2 DEF Ordered
    <3> QED
      BY <1>4, <3>2, <3>3, <3>5, <3>6
  <2> QED
    BY <2>1, <2>2
<1> HIDE DEF p
<1>8. t \in Turn /\ t.prompted = u /\ t.parent = p
  BY <1>4, <1>7 DEF TypeOK, Turn
<1> HIDE DEF t
<1>9. turn' \in [Requests -> Turn] /\ turn'[r] = t
  BY <1>2, <1>8, TurnSet
<1>10. /\ OneStream' /\ pc' \in [Requests -> PCs] /\ active' \in BOOLEAN
       /\ \A q \in Requests : q # r => pc'[q] \notin Flight
  BY <1>1, StreamMoves
<1>11. InHand(r)'
  BY <1>4, <1>7, <1>8, <1>9 DEF InHand
<1>12. \A q \in Requests : InHand(q)'
  BY <1>10, <1>11, HandsOf
<1>13. /\ jobs' \in [Keys -> Job] /\ summaries' \in Seq(Summary)
       /\ SummariesExtend' /\ \A k \in Keys : JobSane(k)'
  BY <1>1, JobsUntouched
<1>14. TypeOK'
  BY <1>1, <1>7, <1>9, <1>10, <1>13 DEF TypeOK
<1> QED
  BY <1>7, <1>10, <1>12, <1>13, <1>14

LEMMA MaybeEnqueueKeeps ==
  ASSUME IInv, NEW r \in Requests, MaybeEnqueue(r)
  PROVE  IInv'
<1> USE DEF IInv
<1>1. /\ pc[r] \in Flight /\ End(r) /\ UNCHANGED <<exists, messages, summaries, restarts>>
      /\ Enqueue(turn[r].answer) \/ UNCHANGED jobs
  BY DEF MaybeEnqueue, Flight
<1>2. /\ OneStream' /\ pc' \in [Requests -> PCs] /\ active' \in BOOLEAN
      /\ turn' \in [Requests -> Turn] /\ \A q \in Requests : InHand(q)'
  BY <1>1, EndKeeps
<1>3. /\ jobs' \in [Keys -> Job] /\ summaries' \in Seq(Summary)
      /\ SummariesExtend' /\ \A k \in Keys : JobSane(k)'
  BY <1>1, JobsUntouched, EnqueueKeeps
<1>4. messages' \in Seq(Message) /\ Ordered' /\ OneAnswerPerMessage'
  BY <1>1, RowsUntouched
<1>5. TypeOK'
  BY <1>1, <1>2, <1>3, <1>4 DEF TypeOK
<1> QED
  BY <1>2, <1>3, <1>4, <1>5

LEMMA CreateKeeps ==
  ASSUME IInv, NEW greeting \in BOOLEAN, CreateSession(greeting)
  PROVE  IInv'
<1> USE DEF IInv
<1> DEFINE m == [role |-> "assistant", parent |-> 0, active |-> TRUE,
                 status |-> "complete", tokens |-> 0, prompted |-> 0]
<1>1. m \in Message /\ m.parent = 0 /\ m.prompted = 0 /\ m.role = "assistant"
  BY DEF Message
<1>2. /\ ~exists /\ exists' = TRUE /\ (messages' = <<m>> \/ messages' = <<>>)
      /\ UNCHANGED <<summaries, active, pc, turn, jobs, restarts>>
  BY DEF CreateSession
<1> HIDE DEF m
<1>3. messages' \in Seq(Message) /\ Ordered' /\ OneAnswerPerMessage'
  <2>1. CASE messages' = <<>>
    BY <2>1 DEF Ordered, OneAnswerPerMessage
  <2>2. CASE messages' = <<m>>
    <3>1. /\ messages' \in Seq(Message) /\ Len(messages') = 1 /\ messages'[1] = m
          /\ DOMAIN messages' = {1} /\ \A i \in 1 .. 1 : i = 1
      BY <1>1, <2>2
    <3>2. Ordered'
      BY <1>1, <3>1 DEF Ordered
    <3>3. OneAnswerPerMessage'
      BY <3>1 DEF OneAnswerPerMessage
    <3> QED
      BY <3>1, <3>2, <3>3
  <2> QED
    BY <1>2, <2>1, <2>2
<1>4. OneStream'
  BY <1>2 DEF OneStream
<1>5. \A q \in Requests : InHand(q)'
  <2>1. \A q \in Requests : pc'[q] \in {"new", "t1", "ended"}
    BY <1>2 DEF OneStream
  <2> QED
    BY <2>1 DEF InHand, Answering
<1>6. /\ jobs' \in [Keys -> Job] /\ summaries' \in Seq(Summary)
      /\ SummariesExtend' /\ \A k \in Keys : JobSane(k)'
  BY <1>2, JobsUntouched
<1>7. TypeOK'
  BY <1>2, <1>3, <1>6 DEF TypeOK
<1> QED
  BY <1>3, <1>4, <1>5, <1>6, <1>7

LEMMA RestartKeeps ==
  ASSUME IInv, Restart
  PROVE  IInv'
<1> USE DEF IInv
<1>1. /\ active' = FALSE /\ UNCHANGED <<exists, messages, summaries>>
      /\ pc' = [r \in Requests |-> IF pc[r] = "new" THEN "new" ELSE "ended"]
      /\ turn' = [r \in Requests |-> NoTurn] /\ jobs' = [k \in Keys |-> NoJob]
      /\ restarts' = restarts + 1
  BY DEF Restart
<1>2. "new" \notin Flight /\ "ended" \notin Flight /\ "new" \in PCs /\ "ended" \in PCs
  BY DEF Flight, PCs
<1>3. pc' \in [Requests -> PCs] /\ \A q \in Requests : pc'[q] \in {"new", "ended"}
  BY <1>1, <1>2
<1>4. \A q \in Requests : pc'[q] \notin Flight
  BY <1>2, <1>3
<1>5. OneStream'
  BY <1>1, <1>3, <1>4 DEF OneStream
<1>6. \A q \in Requests : InHand(q)'
  BY <1>4, NothingInHand
<1>7. NoTurn \in Turn /\ NoJob \in Job /\ NoJob.state = "unseen" /\ NoJob.attempt = 0
  BY ChatAssumption DEF NoTurn, Turn, Ops, NoJob, Job, NoSummary
<1>8. \A k \in Keys : JobSane(k)'
  <2>1. \A k \in Keys : jobs'[k].state = "unseen" /\ jobs'[k].attempt = 0
    BY <1>1, <1>7
  <2> QED
    BY <2>1, ChatAssumption DEF JobSane
<1>9. messages' \in Seq(Message) /\ Ordered' /\ OneAnswerPerMessage'
  BY <1>1, RowsUntouched
<1>10. TypeOK'
  <2>1. turn' \in [Requests -> Turn] /\ jobs' \in [Keys -> Job]
    BY <1>1, <1>7
  <2>2. exists' \in BOOLEAN /\ active' \in BOOLEAN
    BY <1>1, Zenon DEF TypeOK
  <2>3. restarts \in Nat /\ restarts' = restarts + 1
    BY <1>1 DEF TypeOK
  <2>4. summaries' \in Seq(Summary)
    BY <1>1, Zenon DEF TypeOK
  <2>5. /\ exists' \in BOOLEAN /\ active' \in BOOLEAN /\ summaries' \in Seq(Summary)
        /\ restarts' \in Nat
    BY <2>2, <2>3, <2>4
  <2>6. pc' \in [Requests -> PCs] /\ messages' \in Seq(Message)
    BY <1>3, <1>9
  <2> QED
    BY <2>1, <2>5, <2>6 DEF TypeOK
<1>11. SummariesExtend'
  BY <1>1 DEF SummariesExtend
<1> QED
  BY <1>5, <1>6, <1>8, <1>9, <1>10, <1>11

\* A job that moves to a sane state keeps the others sane.
LEMMA JobMoves ==
  ASSUME TypeOK, SummariesExtend, \A k \in Keys : JobSane(k), UNCHANGED summaries,
         NEW k \in Keys, NEW j \in Job, jobs' = [jobs EXCEPT ![k] = j],
         j.state # "over" => j.attempt <= MaxRetries,
         j.state \in {"reading", "calling"} =>
           j.prev = NoSummary \/ \E l \in 1 .. Len(summaries) : summaries[l] = j.prev,
         j.state = "calling" => j.prev.cover < j.last
  PROVE  /\ jobs' \in [Keys -> Job] /\ summaries' \in Seq(Summary)
         /\ SummariesExtend' /\ \A q \in Keys : JobSane(q)'
<1>1. jobs' \in [Keys -> Job] /\ \A q \in Keys : jobs'[q] = IF q = k THEN j ELSE jobs[q]
  BY DEF TypeOK
<1>2. ASSUME NEW q \in Keys
      PROVE  JobSane(q)'
  <2>1. CASE q = k
    BY <1>1, <2>1 DEF JobSane
  <2>2. CASE q # k
    BY <1>1, <2>2 DEF JobSane
  <2> QED
    BY <2>1, <2>2
<1> QED
  BY <1>1, <1>2 DEF TypeOK, SummariesExtend

\* A summary more, of the version after a stored one and covering more.
LEMMA OneSummaryMore ==
  ASSUME TypeOK, SummariesExtend, NEW s \in Summary, summaries' = Append(summaries, s),
         s.version > 1 => \E l \in 1 .. Len(summaries) :
                            /\ summaries[l].version = s.version - 1
                            /\ summaries[l].cover < s.cover
  PROVE  /\ summaries' \in Seq(Summary) /\ SummariesExtend'
         /\ Len(summaries') = Len(summaries) + 1
         /\ \A l \in 1 .. Len(summaries) : summaries'[l] = summaries[l]
<1> DEFINE n == Len(summaries)
<1>1. /\ summaries' \in Seq(Summary) /\ Len(summaries') = n + 1 /\ n \in Nat
      /\ summaries'[n + 1] = s /\ \A l \in 1 .. n : summaries'[l] = summaries[l]
      /\ DOMAIN summaries = 1 .. n /\ DOMAIN summaries' = 1 .. (n + 1)
  BY DEF TypeOK
<1> HIDE DEF n
<1>2. ASSUME NEW k \in 1 .. (n + 1), summaries'[k].version > 1
      PROVE  \E l \in 1 .. (k - 1) :
                /\ summaries'[l].version = summaries'[k].version - 1
                /\ summaries'[l].cover < summaries'[k].cover
  <2>1. CASE k \in 1 .. n
    <3>1. PICK l \in 1 .. (k - 1) : /\ summaries[l].version = summaries[k].version - 1
                                    /\ summaries[l].cover < summaries[k].cover
      BY <1>1, <1>2, <2>1 DEF SummariesExtend
    <3>2. l \in 1 .. n
      BY <1>1, <2>1, <3>1
    <3> QED
      BY <1>1, <2>1, <3>1, <3>2
  <2>2. CASE k = n + 1
    <3>1. s.version > 1
      BY <1>1, <1>2, <2>2
    <3>2. PICK l \in 1 .. n : /\ summaries[l].version = s.version - 1
                              /\ summaries[l].cover < s.cover
      BY <3>1 DEF n
    <3>3. l \in 1 .. (k - 1)
      BY <1>1, <2>2, <3>2
    <3> QED
      BY <1>1, <2>2, <3>2, <3>3
  <2> QED
    BY <1>1, <2>1, <2>2
<1>3. SummariesExtend'
  BY <1>1, <1>2 DEF SummariesExtend
<1> QED
  BY <1>1, <1>3 DEF n

\* What a job step leaves alone.
LEMMA JobsOnly ==
  ASSUME IInv, UnchangedByJobs, jobs' \in [Keys -> Job], summaries' \in Seq(Summary),
         SummariesExtend', \A k \in Keys : JobSane(k)'
  PROVE  IInv'
<1> USE DEF IInv
<1>1. UNCHANGED <<exists, messages, active, pc, turn, restarts>>
  BY DEF UnchangedByJobs
<1>2. messages' \in Seq(Message) /\ Ordered' /\ OneAnswerPerMessage'
  BY <1>1, RowsUntouched
<1>3. OneStream'
  BY <1>1 DEF OneStream
<1>4. \A r \in Requests : InHand(r)'
  BY <1>1 DEF InHand
<1>5. TypeOK'
  BY <1>1 DEF TypeOK
<1> QED
  BY <1>2, <1>3, <1>4, <1>5

LEMMA ReadSummaryKeeps ==
  ASSUME IInv, NEW k \in Keys, ReadSummary(k)
  PROVE  IInv'
<1>1. /\ TypeOK /\ SummariesExtend /\ \A q \in Keys : JobSane(q)
      /\ UNCHANGED summaries /\ UnchangedByJobs /\ jobs[k].state = "queued"
  BY DEF IInv, ReadSummary
<1>2. PICK prev \in LatestSummaries :
         jobs' = [jobs EXCEPT ![k].state = "reading", ![k].prev = prev]
  BY DEF ReadSummary
<1> DEFINE j == [jobs[k] EXCEPT !.state = "reading", !.prev = prev]
<1>3. /\ prev \in Summary
      /\ prev = NoSummary \/ \E l \in 1 .. Len(summaries) : summaries[l] = prev
  BY <1>1, LatestIs
<1>4. /\ j \in Job /\ j.state = "reading" /\ j.prev = prev /\ j.attempt = jobs[k].attempt
  <2>1. jobs[k] \in Job /\ prev \in [version : Nat, cover : Nat]
    BY <1>1, <1>3 DEF TypeOK, Summary
  <2> QED
    BY <2>1 DEF Job
<1>5. jobs' = [jobs EXCEPT ![k] = j]
  BY <1>2
<1> HIDE DEF j
<1>6. j.attempt <= MaxRetries
  BY <1>1, <1>4 DEF JobSane
<1>7. /\ jobs' \in [Keys -> Job] /\ summaries' \in Seq(Summary)
      /\ SummariesExtend' /\ \A q \in Keys : JobSane(q)'
  BY <1>1, <1>3, <1>4, <1>5, <1>6, JobMoves
<1> QED
  BY <1>1, <1>7, JobsOnly

LEMMA ReadMessagesKeeps ==
  ASSUME IInv, NEW k \in Keys, ReadMessages(k)
  PROVE  IInv'
<1> DEFINE p == jobs[k].prev
           found == Unsummarized(p)
           last == Newest(found)
           over == [jobs[k] EXCEPT !.state = "over"]
           calling == [jobs[k] EXCEPT !.state = "calling", !.last = last]
<1>1. /\ TypeOK /\ SummariesExtend /\ \A q \in Keys : JobSane(q)
      /\ UNCHANGED summaries /\ UnchangedByJobs /\ jobs[k].state = "reading"
  BY DEF IInv, ReadMessages
<1>2. jobs[k] \in Job /\ p \in [version : Nat, cover : Nat]
  BY <1>1 DEF TypeOK, Job
<1>3. found \in SUBSET (1 .. Len(messages)) /\ \A i \in found : i > p.cover
  BY <1>1 DEF TypeOK, Unsummarized
<1>4. /\ found = {} => jobs' = [jobs EXCEPT ![k] = over]
      /\ found # {} => jobs' = [jobs EXCEPT ![k] = calling]
  BY DEF ReadMessages
<1>5. over \in Job /\ over.state = "over"
  BY <1>2 DEF Job
<1>6. found # {} => last \in Nat /\ last > p.cover
  <2>1. Len(messages) \in Nat
    BY <1>1 DEF TypeOK
  <2> HIDE DEF found
  <2>2. found # {} => last \in found
    BY <1>3, <2>1, NewestIs
  <2> HIDE DEF last
  <2>3. ASSUME NEW i \in found
        PROVE  i \in Nat /\ i > p.cover
    BY <1>3, <2>1
  <2> QED
    BY <2>2, <2>3
<1> HIDE DEF found, last
<1>7. last \in Nat => /\ calling \in Job /\ calling.state = "calling" /\ calling.last = last
                      /\ calling.prev = p /\ calling.attempt = jobs[k].attempt
  BY <1>2 DEF Job
<1> HIDE DEF over, calling
<1>8. CASE found = {}
  <2>1. jobs' = [jobs EXCEPT ![k] = over]
    BY <1>4, <1>8
  <2>2. /\ jobs' \in [Keys -> Job] /\ summaries' \in Seq(Summary)
        /\ SummariesExtend' /\ \A q \in Keys : JobSane(q)'
    BY <1>1, <1>5, <2>1, JobMoves
  <2> QED
    BY <1>1, <2>2, JobsOnly
<1>9. CASE found # {}
  <2>1. jobs' = [jobs EXCEPT ![k] = calling]
    BY <1>4, <1>9
  <2>2. /\ calling \in Job /\ calling.state = "calling" /\ calling.prev.cover < calling.last
        /\ calling.prev = p /\ calling.attempt = jobs[k].attempt
    BY <1>2, <1>6, <1>7, <1>9
  <2>3. /\ calling.attempt <= MaxRetries
        /\ p = NoSummary \/ \E l \in 1 .. Len(summaries) : summaries[l] = p
    BY <1>1, <2>2 DEF JobSane
  <2>4. /\ jobs' \in [Keys -> Job] /\ summaries' \in Seq(Summary)
        /\ SummariesExtend' /\ \A q \in Keys : JobSane(q)'
    BY <1>1, <2>1, <2>2, <2>3, JobMoves
  <2> QED
    BY <1>1, <2>4, JobsOnly
<1> QED
  BY <1>8, <1>9

LEMMA InsertSummaryKeeps ==
  ASSUME IInv, NEW k \in Keys, InsertSummary(k)
  PROVE  IInv'
<1> DEFINE p == jobs[k].prev
           s == [version |-> p.version + 1, cover |-> jobs[k].last]
           over == [jobs[k] EXCEPT !.state = "over"]
<1>1. /\ TypeOK /\ SummariesExtend /\ \A q \in Keys : JobSane(q)
      /\ UnchangedByJobs /\ jobs[k].state = "calling"
      /\ summaries' = Append(summaries, s) /\ jobs' = [jobs EXCEPT ![k] = over]
  BY DEF IInv, InsertSummary
<1>2. jobs[k] \in Job /\ p \in [version : Nat, cover : Nat] /\ jobs[k].last \in Nat
  BY <1>1 DEF TypeOK, Job
<1>3. s \in Summary /\ s.version = p.version + 1 /\ s.cover = jobs[k].last
  BY <1>2 DEF Summary
<1>4. over \in Job /\ over.state = "over"
  BY <1>2 DEF Job
<1>5. /\ p = NoSummary \/ \E l \in 1 .. Len(summaries) : summaries[l] = p
      /\ p.cover < jobs[k].last
  BY <1>1 DEF JobSane
<1>6. s.version > 1 => p # NoSummary
  BY <1>2, <1>3 DEF NoSummary
<1>7. s.version - 1 = p.version
  BY <1>2, <1>3
<1> HIDE DEF s, over, p
<1>8. s.version > 1 => \E l \in 1 .. Len(summaries) :
                         /\ summaries[l].version = s.version - 1
                         /\ summaries[l].cover < s.cover
  BY <1>3, <1>5, <1>6, <1>7
<1>9. /\ summaries' \in Seq(Summary) /\ SummariesExtend'
      /\ Len(summaries') = Len(summaries) + 1
      /\ \A l \in 1 .. Len(summaries) : summaries'[l] = summaries[l]
  BY <1>1, <1>3, <1>8, OneSummaryMore
<1>10. jobs' \in [Keys -> Job] /\ \A q \in Keys : jobs'[q] = IF q = k THEN over ELSE jobs[q]
  BY <1>1, <1>4 DEF TypeOK
<1>11. \A l \in 1 .. Len(summaries) : l \in 1 .. Len(summaries')
  BY <1>1, <1>9 DEF TypeOK
<1>12. ASSUME NEW q \in Keys
       PROVE  JobSane(q)'
  <2>1. CASE q = k
    BY <1>4, <1>10, <2>1 DEF JobSane
  <2>2. CASE q # k
    <3>1. JobSane(q) /\ jobs'[q] = jobs[q]
      BY <1>1, <1>10, <2>2
    <3>2. ASSUME NEW l \in 1 .. Len(summaries), summaries[l] = jobs[q].prev
          PROVE  \E i \in 1 .. Len(summaries') : summaries'[i] = jobs'[q].prev
      BY <1>9, <1>11, <3>1, <3>2
    <3> QED
      BY <3>1, <3>2 DEF JobSane
  <2> QED
    BY <2>1, <2>2
<1> QED
  BY <1>1, <1>9, <1>10, <1>12, JobsOnly

LEMMA JobFailsKeeps ==
  ASSUME IInv, NEW k \in Keys, JobFails(k)
  PROVE  IInv'
<1> DEFINE n == jobs[k].attempt + 1
           l == IF n > MaxRetries THEN "over" ELSE "queued"
           j == [NoJob EXCEPT !.attempt = n, !.state = l]
<1>1. /\ TypeOK /\ SummariesExtend /\ \A q \in Keys : JobSane(q)
      /\ UNCHANGED summaries /\ UnchangedByJobs /\ jobs[k].state \in {"reading", "calling"}
      /\ jobs' = [jobs EXCEPT ![k] = j]
  BY DEF IInv, JobFails
<1>2. jobs[k].attempt \in 0 .. MaxRetries + 1 /\ jobs[k].attempt <= MaxRetries
  BY <1>1 DEF TypeOK, Job, JobSane
<1>3. n \in 0 .. MaxRetries + 1
  BY <1>2, ChatAssumption
<1>4. NoJob \in Job
  BY ChatAssumption DEF NoJob, Job, NoSummary
<1>7. l \in {"over", "queued"} /\ (l # "over" => n <= MaxRetries)
  BY <1>3, ChatAssumption
<1> HIDE DEF n, l
<1>5. /\ j \in Job /\ j.state \in {"over", "queued"}
      /\ j.state # "over" => j.attempt <= MaxRetries
  <2>1. j \in Job /\ j.state = l /\ j.attempt = n
    BY <1>3, <1>4, <1>7 DEF Job
  <2> QED
    BY <1>7, <2>1
<1> HIDE DEF j
<1>6. /\ jobs' \in [Keys -> Job] /\ summaries' \in Seq(Summary)
      /\ SummariesExtend' /\ \A q \in Keys : JobSane(q)'
  BY <1>1, <1>5, JobMoves
<1> QED
  BY <1>1, <1>6, JobsOnly

-----------------------------------------------------------------------------

LEMMA Initially == Init => IInv
<1> SUFFICES ASSUME Init
             PROVE  IInv
  OBVIOUS
<1>1. NoTurn \in Turn /\ NoJob \in Job /\ NoJob.state = "unseen" /\ NoJob.attempt = 0
  BY ChatAssumption DEF NoTurn, Turn, Ops, NoJob, Job, NoSummary
<1>2. TypeOK
  <2>1. pc \in [Requests -> PCs] /\ turn \in [Requests -> Turn] /\ jobs \in [Keys -> Job]
    BY <1>1 DEF Init, PCs
  <2>2. messages \in Seq(Message) /\ summaries \in Seq(Summary)
    BY DEF Init
  <2>3. exists \in BOOLEAN /\ active \in BOOLEAN /\ restarts \in Nat
    BY DEF Init
  <2> QED
    BY <2>1, <2>2, <2>3 DEF TypeOK
<1>3. \A r \in Requests : pc[r] = "new" /\ pc[r] \notin Flight /\ pc[r] \notin Answering
  BY DEF Init, Flight, Answering
<1>4. OneStream
  BY <1>3 DEF Init, OneStream
<1>5. Ordered /\ OneAnswerPerMessage /\ SummariesExtend
  BY DEF Init, Ordered, OneAnswerPerMessage, SummariesExtend
<1>6. \A r \in Requests : InHand(r)
  BY <1>3 DEF InHand
<1>7. \A k \in Keys : jobs[k].state = "unseen" /\ jobs[k].attempt = 0
  BY <1>1 DEF Init
<1>8. \A k \in Keys : JobSane(k)
  BY <1>7, ChatAssumption DEF JobSane
<1> QED
  BY <1>2, <1>4, <1>5, <1>6, <1>8 DEF IInv

LEMMA Inductive == IInv /\ [Next]_vars => IInv'
<1> SUFFICES ASSUME IInv, [Next]_vars
             PROVE  IInv'
  OBVIOUS
<1>1. CASE UNCHANGED vars
  BY <1>1 DEF vars, IInv, TypeOK, OneStream, Ordered, OneAnswerPerMessage,
     SummariesExtend, InHand, JobSane
<1>2. ASSUME NEW greeting \in BOOLEAN, CreateSession(greeting)
      PROVE  IInv'
  BY <1>2, CreateKeeps
<1>3. ASSUME NEW r \in Requests, RequestStep(r)
      PROVE  IInv'
  BY <1>3, AcceptKeeps, AsideKeeps, StoreKeeps, HideKeeps, DropKeeps, StreamStepKeeps,
     PersistKeeps, MaybeEnqueueKeeps DEF RequestStep
<1>4. ASSUME NEW k \in Keys, JobStep(k)
      PROVE  IInv'
  BY <1>4, ReadSummaryKeeps, ReadMessagesKeeps, InsertSummaryKeeps, JobFailsKeeps
     DEF JobStep
<1> QED
  BY <1>1, <1>2, <1>3, <1>4, RestartKeeps DEF Next

LEMMA Invariance == Spec => []IInv
BY Initially, Inductive, PTL DEF Spec

-----------------------------------------------------------------------------
(* Theorems *)

\* Every reachable state is a chat session: rows, requests and jobs have their
\* fields, and a job is tried at most MaxRetries + 1 times.
THEOREM TypeCorrect == Spec => []TypeOK
<1>1. IInv => TypeOK
  BY DEF IInv
<1> QED
  BY <1>1, Invariance, PTL

\* The chat is in _active_streams exactly while one of its requests streams, and
\* never two do: 409, the finally blocks and a restart together leave no stream
\* unguarded and no session locked.
THEOREM SessionGuarded == Spec => []OneStream
<1>1. IInv => OneStream
  BY DEF IInv
<1> QED
  BY <1>1, Invariance, PTL

\* No user message has two visible answers.
THEOREM OneVisibleAnswer == Spec => []OneAnswerPerMessage
<1>1. IInv => OneAnswerPerMessage
  BY DEF IInv
<1> QED
  BY <1>1, Invariance, PTL

\* Every answer stands behind the message whose text it answers and before the
\* next, and behind a visible answer nothing is filed at or before it, also when
\* a regeneration files its answer under an earlier message.
THEOREM AnswersFollow == Spec => []AnswersInOrder
<1>1. IInv => AnswersInOrder
  <2> SUFFICES ASSUME IInv, NEW a \in DOMAIN messages, NEW b \in DOMAIN messages,
                      messages[a].role = "assistant"
               PROVE  /\ messages[a].prompted < a
                      /\ messages[b].role = "user" => b <= messages[a].prompted \/ a < b
                      /\ (/\ messages[a].active /\ messages[b].role = "assistant"
                          /\ a < b) => a < messages[b].parent
    BY DEF AnswersInOrder
  <2>1. DOMAIN messages = 1 .. Len(messages) /\ Len(messages) \in Nat
    BY DEF IInv, TypeOK
  <2> QED
    BY <2>1 DEF IInv, Ordered
<1> QED
  BY <1>1, Invariance, PTL

\* Every summary continues one of the version before and covers more.
THEOREM SummariesGrow == Spec => []SummariesExtend
<1>1. IInv => SummariesExtend
  BY DEF IInv
<1> QED
  BY <1>1, Invariance, PTL

=============================================================================
