------------------------ MODULE ProviderStreamProofs ------------------------
(***************************************************************************)
(* Theorems about ProviderStream, for any number of calls, permits,        *)
(* retries and tokens.                                                     *)
(***************************************************************************)
EXTENDS ProviderStream, FiniteSetTheorems, SequenceTheorems, TLAPS

-----------------------------------------------------------------------------
(* The inductive invariant *)

\* Both variables have their types.
Shape == waiting \in Seq(Calls) /\ call \in [Calls -> Call]

\* What one call knows: an attempt that is not streaming knows nothing, a
\* finished candidate was reported so, the tokens are of the attempt and of the
\* candidate that are followed, and only an ended call has a result.
Sane(x) ==
    /\ x.pc # "stream" => x.tokens = <<>> /\ x.stream = Fresh
    /\ x.stream.terminal => x.said
    /\ \A i \in DOMAIN x.tokens :
         /\ x.tokens[i][1] = x.attempt
         /\ x.tokens[i][2] = IF x.adapter = "gemini" THEN x.stream.primary ELSE 0
    /\ IF x.pc = "ended" THEN x.adapter = "openai" ELSE x.result = "none"

Active == {"connect", "stream", "pause"}

\* The queue holds the calls that wait, each once.
InLine ==
    /\ \A c \in Calls : call[c].pc = "waiting" <=> \E n \in DOMAIN waiting : waiting[n] = c
    /\ \A m, n \in DOMAIN waiting : waiting[m] = waiting[n] => m = n

\* No more calls than permits talk to a provider or pause.
WithinPermits == Cardinality(Holders) <= Permits

IInv ==
    /\ Shape
    /\ \A c \in Calls : Sane(call[c])
    /\ InLine
    /\ WithinPermits

-----------------------------------------------------------------------------
(* Steps of one call *)

\* A Gemini answer may be reported complete.
Whole(c) == call[c].adapter = "gemini" => call[c].said /\ Started(c)

\* Call c becomes some sane record that stands at one of the labels, and is
\* complete only if it may be.
Becomes(c, labels) ==
    \E x \in Call : /\ Sane(x) /\ x.pc \in labels
                    /\ x.result = "complete" => Whole(c)
                    /\ call' = [call EXCEPT ![c] = x]

LEMMA EndStep ==
  ASSUME NEW c \in Calls, NEW result \in Results, result = "complete" => Whole(c),
         End(c, result)
  PROVE  Becomes(c, {"ended"})
<1> DEFINE x == [NewCall EXCEPT !.pc = "ended", !.result = result]
<1>1. 0 \in 0 .. MaxRetries
  BY ProviderAssumption
<1>2. /\ NewCall \in Call /\ NewCall.tokens = <<>> /\ NewCall.stream = Fresh
      /\ NewCall.adapter = "openai"
  BY <1>1 DEF Call, NewCall, Adapters, Results, Fresh, NoIndex
<1>3. /\ x \in Call /\ x.pc = "ended"
      /\ x.tokens = <<>> /\ x.stream = Fresh
      /\ x.adapter = "openai" /\ x.result = result
  BY <1>2 DEF Call
<1>4. Sane(x)
  BY <1>3 DEF Sane, Fresh
<1>5. call' = [call EXCEPT ![c] = x]
  BY DEF End
<1> QED
  BY <1>3, <1>4, <1>5 DEF Becomes

LEMMA RaiseStep ==
  ASSUME Shape, NEW c \in Calls, Sane(call[c]),
         NEW error \in Results \ {"complete"}, call[c].pc # "ended", Raise(c, error)
  PROVE  Becomes(c, {"ended", "pause"})
<1>1. CASE error = "other" \/ Started(c) \/ call[c].attempt >= MaxRetries
  <2>1. End(c, error)
    BY <1>1 DEF Raise
  <2> QED
    BY <2>1, EndStep DEF Becomes
<1>2. CASE ~(error = "other" \/ Started(c) \/ call[c].attempt >= MaxRetries)
  <2> DEFINE x == [call[c] EXCEPT !.pc = "pause", !.attempt = @ + 1, !.stream = Fresh]
  <2>1. call[c] \in Call /\ call[c].tokens = <<>>
    BY <1>2 DEF Shape, Started
  <2>2. call[c].attempt + 1 \in 0 .. MaxRetries
    BY <1>2, <2>1, ProviderAssumption DEF Call
  <2>3. x \in Call
    BY <2>1, <2>2 DEF Call, Fresh, NoIndex
  <2>4. x.pc = "pause" /\ x.tokens = <<>> /\ x.stream = Fresh /\ x.result = "none"
    BY <2>1 DEF Sane, Call
  <2>5. Sane(x)
    BY <2>4 DEF Sane, Fresh
  <2>6. call' = [call EXCEPT ![c] = x]
    BY <1>2, <2>1 DEF Raise, Shape, Call
  <2> QED
    BY <2>3, <2>4, <2>5, <2>6 DEF Becomes
<1> QED
  BY <1>1, <1>2

\* A delivered token is of the attempt, and of the candidate the stream follows.
LEMMA DeliverStep ==
  ASSUME Shape, NEW c \in Calls, Sane(call[c]), call[c].pc = "stream",
         NEW candidate \in {0, 1},
         NEW stream \in [primary : {NoIndex, 0, 1}, terminal : BOOLEAN],
         NEW said \in BOOLEAN,
         stream.terminal => said,
         candidate = IF call[c].adapter = "gemini" THEN stream.primary ELSE 0,
         Started(c) /\ call[c].adapter = "gemini" => stream.primary = call[c].stream.primary,
         Deliver(c, candidate, stream, said)
  PROVE  Becomes(c, {"stream"})
<1> DEFINE x == [call[c] EXCEPT !.tokens = Append(@, <<call[c].attempt, candidate>>),
                                !.stream = stream, !.said = said]
           token == <<call[c].attempt, candidate>>
<1>1. /\ call[c] \in Call
      /\ call[c].tokens \in Seq((0 .. MaxRetries) \X {0, 1})
      /\ call[c].attempt \in 0 .. MaxRetries
  BY DEF Shape, Call
<1>2. token \in (0 .. MaxRetries) \X {0, 1}
  BY <1>1
<1>3. Append(call[c].tokens, token) \in Seq((0 .. MaxRetries) \X {0, 1})
  BY <1>1, <1>2
<1>4. /\ x \in Call /\ x.pc = "stream" /\ x.attempt = call[c].attempt
      /\ x.tokens = Append(call[c].tokens, token)
      /\ x.stream = stream /\ x.said = said /\ x.adapter = call[c].adapter
      /\ x.result = "none"
  BY <1>1, <1>3 DEF Call, Sane
<1>5. ASSUME NEW i \in DOMAIN x.tokens
      PROVE  /\ x.tokens[i][1] = x.attempt
             /\ x.tokens[i][2] = IF x.adapter = "gemini" THEN x.stream.primary ELSE 0
  <2>1. CASE i = Len(call[c].tokens) + 1
    <3>1. x.tokens[i] = token
      BY <1>1, <1>4, <2>1
    <3> QED
      BY <3>1, <1>4
  <2>2. CASE i # Len(call[c].tokens) + 1
    <3>1. i \in DOMAIN call[c].tokens /\ x.tokens[i] = call[c].tokens[i]
      BY <1>1, <1>4, <2>2
    <3>2. Started(c)
      BY <1>1, <3>1 DEF Started
    <3> QED
      BY <1>4, <3>1, <3>2 DEF Sane
  <2> QED
    BY <2>1, <2>2
<1>6. Sane(x)
  BY <1>4, <1>5 DEF Sane
<1>7. call' = [call EXCEPT ![c] = x]
  BY DEF Deliver
<1> QED
  BY <1>4, <1>6, <1>7 DEF Becomes

\* Labels may be added.
LEMMA Wider ==
  ASSUME NEW c, NEW L, NEW M, L \subseteq M, Becomes(c, L)
  PROVE  Becomes(c, M)
BY DEF Becomes

\* What Picked() finds is a candidate of the event, and of the followed index.
LEMMA PickedCandidate ==
  ASSUME NEW candidates \in {<<c>> : c \in Candidate} \cup (TextCandidate \X TextCandidate),
         NEW primary \in {NoIndex, 0, 1}, NEW d \in Picked(candidates, primary)
  PROVE  /\ d \in Candidate
         /\ primary # NoIndex => d.index = primary
<1>1. TextCandidate \subseteq Candidate
  BY DEF Candidate, TextCandidate
<1>2. /\ 1 \in DOMAIN candidates
      /\ \A n \in DOMAIN candidates : candidates[n] \in Candidate
  <2>1. CASE candidates \in {<<c>> : c \in Candidate}
    BY <2>1
  <2>2. CASE candidates \in TextCandidate \X TextCandidate
    BY <1>1, <2>2
  <2> QED
    BY <2>1, <2>2
<1> QED
  BY <1>2 DEF Picked, NoIndex

Working == Active \cup {"ended"}

LEMMA CandidateStep ==
  ASSUME Shape, NEW c \in Calls, Sane(call[c]),
         call[c].pc = "stream", call[c].adapter = "gemini",
         NEW event \in GeminiEvents, event.kind = "candidates", GeminiCandidate(c, event)
  PROVE  Becomes(c, Working)
<1> DEFINE stream == call[c].stream
<1>1. /\ call[c] \in Call /\ stream \in [primary : {NoIndex, 0, 1}, terminal : BOOLEAN]
  BY DEF Shape, Call
<1>2. event.candidates \in {<<d>> : d \in Candidate} \cup (TextCandidate \X TextCandidate)
  BY DEF GeminiEvents
<1>3. "ProviderError" \in Results \ {"complete"} /\ {"ended", "pause"} \subseteq Working
      /\ {"stream"} \subseteq Working
  BY DEF Results, Working, Active
<1>4. CASE Raise(c, "ProviderError")
  <2>1. Becomes(c, {"ended", "pause"})
    BY <1>3, <1>4, RaiseStep
  <2> QED
    BY <1>3, <2>1, Wider
<1>5. ASSUME NEW d \in Picked(event.candidates, stream.primary),
             ~Unacceptable(d, stream),
             IF d.content = "text"
             THEN Deliver(c, d.index, Follow(stream, d), Follow(stream, d).terminal)
             ELSE call' = [call EXCEPT ![c].stream = Follow(stream, d), ![c].said = TRUE]
      PROVE  Becomes(c, Working)
  <2>1. d \in Candidate /\ (stream.primary # NoIndex => d.index = stream.primary)
    BY <1>1, <1>2, PickedCandidate
  <2>2. /\ Follow(stream, d) \in [primary : {NoIndex, 0, 1}, terminal : BOOLEAN]
        /\ Follow(stream, d).primary = d.index
        /\ d.index \in {0, 1}
    BY <2>1 DEF Follow, Candidate
  <2>3. Started(c) => stream.primary # NoIndex
    <3>1. SUFFICES ASSUME Started(c) PROVE stream.primary # NoIndex
      OBVIOUS
    <3>2. /\ call[c].tokens \in Seq((0 .. MaxRetries) \X {0, 1})
          /\ 1 \in DOMAIN call[c].tokens
      BY <1>1, <3>1 DEF Started, Call
    <3>3. call[c].tokens[1][2] \in {0, 1}
      BY <3>2
    <3> QED
      BY <3>2, <3>3 DEF Sane, NoIndex
  <2>4. CASE d.content = "text"
    <3>1. Deliver(c, d.index, Follow(stream, d), Follow(stream, d).terminal)
      BY <1>5, <2>4
    <3>2. Started(c) => Follow(stream, d).primary = call[c].stream.primary
      BY <2>1, <2>2, <2>3
    <3>3. Follow(stream, d).terminal \in BOOLEAN
      BY <2>2
    <3>4. Becomes(c, {"stream"})
      BY <2>2, <3>1, <3>2, <3>3, DeliverStep
    <3> QED
      BY <1>3, <3>4, Wider
  <2>5. CASE d.content # "text"
    <3> DEFINE x == [call[c] EXCEPT !.stream = Follow(stream, d), !.said = TRUE]
    <3>1. /\ x \in Call /\ x.pc = "stream" /\ x.said = TRUE /\ x.tokens = call[c].tokens
          /\ x.stream = Follow(stream, d) /\ x.adapter = "gemini"
          /\ x.attempt = call[c].attempt /\ x.result = "none"
      BY <1>1, <2>2 DEF Call, Sane
    <3>2. x.tokens # <<>> => x.stream.primary = stream.primary
      BY <2>1, <2>2, <2>3, <3>1 DEF Started
    <3>3. \A i \in DOMAIN x.tokens : x.tokens # <<>>
      BY <3>1
    <3>4. Sane(x)
      BY <3>1, <3>2, <3>3 DEF Sane
    <3>5. call' = [call EXCEPT ![c] = x]
      BY <1>1, <1>5, <2>5 DEF Shape, Call
    <3> QED
      BY <3>1, <3>4, <3>5, <1>3 DEF Becomes
  <2> QED
    BY <2>4, <2>5
<1> QED
  BY <1>4, <1>5 DEF GeminiCandidate

\* Any event of a stream leaves a call that streams, pauses or has ended.
LEMMA ReceiveStep ==
  ASSUME Shape, NEW c \in Calls, Sane(call[c]), Receive(c)
  PROVE  /\ call[c].pc = "stream" /\ UNCHANGED waiting
         /\ Becomes(c, Working) \/ UNCHANGED call
<1>1. /\ {"ended", "pause"} \subseteq Working /\ {"stream"} \subseteq Working
      /\ {"ended"} \subseteq Working
      /\ {"other", "ProviderError", "ProviderRateLimited"} \subseteq Results \ {"complete"}
      /\ "complete" \in Results /\ TransportError(c) \in Results \ {"complete"}
  BY DEF Working, Active, Results, TransportError
<1>2. CASE ReceiveText(c)
  <2>1. Deliver(c, 0, Fresh, FALSE) /\ call[c].pc = "stream" /\ call[c].adapter # "gemini"
    BY <1>2 DEF ReceiveText
  <2>2. Fresh \in [primary : {NoIndex, 0, 1}, terminal : BOOLEAN] /\ ~Fresh.terminal
    BY DEF Fresh
  <2>3. Becomes(c, {"stream"})
    BY <2>1, <2>2, DeliverStep
  <2> QED
    BY <1>1, <1>2, <2>1, <2>3, Wider DEF ReceiveText
<1>3. CASE ReceiveOddity(c)
  BY <1>1, <1>3, EndStep, Wider DEF ReceiveOddity
<1>4. CASE ReceiveStop(c)
  <2>1. Whole(c)
    BY <1>4 DEF ReceiveStop, Whole
  <2> QED
    BY <1>1, <1>4, <2>1, EndStep, Wider DEF ReceiveStop
<1>5. CASE ReceiveGemini(c)
  <2>1. call[c].pc = "stream" /\ call[c].adapter = "gemini" /\ UNCHANGED waiting
    BY <1>5 DEF ReceiveGemini
  <2>2. PICK event \in GeminiEvents :
          CASE event.kind = "metadata" -> UNCHANGED call
            [] event.kind = "error429" -> Raise(c, "ProviderRateLimited")
            [] event.kind \in {"error", "blockedPrompt", "malformed"} -> Raise(c, "ProviderError")
            [] event.kind = "candidates" -> GeminiCandidate(c, event)
    BY <1>5 DEF ReceiveGemini
  <2>3. event.kind \in {"error429", "error", "blockedPrompt", "malformed", "metadata", "candidates"}
    BY DEF GeminiEvents
  <2>4. CASE event.kind = "metadata"
    BY <2>1, <2>2, <2>4
  <2>5. CASE event.kind = "error429"
    <3>1. Raise(c, "ProviderRateLimited")
      BY <2>2, <2>5
    <3> QED
      BY <1>1, <2>1, <3>1, RaiseStep, Wider
  <2>6. CASE event.kind \in {"error", "blockedPrompt", "malformed"}
    <3>1. Raise(c, "ProviderError")
      BY <2>2, <2>6
    <3> QED
      BY <1>1, <2>1, <3>1, RaiseStep, Wider
  <2>7. CASE event.kind = "candidates"
    <3>1. GeminiCandidate(c, event)
      BY <2>2, <2>7
    <3> QED
      BY <2>1, <2>7, <3>1, CandidateStep
  <2> QED
    BY <2>3, <2>4, <2>5, <2>6, <2>7
<1>6. CASE EndOfStream(c)
  <2>1. CASE Raise(c, "ProviderError")
    BY <1>1, <1>6, <2>1, RaiseStep, Wider DEF EndOfStream
  <2>2. CASE /\ End(c, "complete")
             /\ call[c].adapter # "gemini" \/ (Started(c) /\ call[c].stream.terminal)
    <3>1. Whole(c)
      BY <2>2 DEF Whole, Sane
    <3> QED
      BY <1>1, <1>6, <2>2, <3>1, EndStep, Wider DEF EndOfStream
  <2> QED
    BY <1>6, <2>1, <2>2 DEF EndOfStream
<1>7. CASE Break(c)
  BY <1>1, <1>7, RaiseStep, Wider DEF Break
<1> QED
  BY <1>2, <1>3, <1>4, <1>5, <1>6, <1>7 DEF Receive

-----------------------------------------------------------------------------
(* Permits and the queue *)

LEMMA HoldersFinite ==
  ASSUME NEW S \in SUBSET Calls
  PROVE  IsFiniteSet(S) /\ Cardinality(S) \in Nat
<1>1. IsFiniteSet(Calls)
  BY ProviderAssumption, FS_Interval DEF Calls
<1> QED
  BY <1>1, FS_Subset, FS_CardinalityType

\* A call that holds a permit and goes on, or ends, disturbs nobody.
LEMMA HolderStep ==
  ASSUME IInv, NEW c \in Calls, call[c].pc \in Active,
         Becomes(c, Working), UNCHANGED waiting
  PROVE  IInv'
<1>1. PICK x \in Call : /\ Sane(x) /\ x.pc \in Working
                        /\ call' = [call EXCEPT ![c] = x]
  BY DEF Becomes
<1>2. call' \in [Calls -> Call]
  BY <1>1 DEF IInv, Shape
<1>3. Shape'
  BY <1>2 DEF IInv, Shape
<1>4. \A b \in Calls : call'[b] = IF b = c THEN x ELSE call[b]
  BY <1>1 DEF IInv, Shape
<1>5. \A b \in Calls : Sane(call[b])'
  BY <1>1, <1>4 DEF IInv
<1>6. InLine'
  <2>1. x.pc # "waiting" /\ call[c].pc # "waiting"
    BY <1>1 DEF Working, Active
  <2> QED
    BY <1>4, <2>1 DEF IInv, InLine
<1>7. WithinPermits'
  <2>1. Holders' \subseteq Holders
    BY <1>4 DEF Holders, Active
  <2>2. Holders \in SUBSET Calls /\ Holders' \in SUBSET Calls
    BY DEF Holders
  <2>3. Cardinality(Holders') <= Cardinality(Holders)
    BY <2>1, <2>2, HoldersFinite, FS_Subset
  <2>4. /\ Cardinality(Holders) \in Nat /\ Cardinality(Holders') \in Nat
        /\ Permits \in Nat
    BY <2>2, HoldersFinite, ProviderAssumption
  <2> QED
    BY <2>3, <2>4 DEF IInv, WithinPermits
<1> QED
  BY <1>3, <1>5, <1>6, <1>7 DEF IInv

\* A free permit may be taken by any one call.
LEMMA OneHolderMore ==
  ASSUME NEW c \in Calls, Cardinality(Holders) < Permits, Holders' = Holders \cup {c}
  PROVE  WithinPermits'
<1>1. Holders \in SUBSET Calls
  BY DEF Holders
<1>2. IsFiniteSet(Holders) /\ Cardinality(Holders) \in Nat /\ Permits \in Nat
  BY <1>1, HoldersFinite, ProviderAssumption
<1>3. Cardinality(Holders \cup {c}) <= Cardinality(Holders) + 1
  BY <1>2, FS_AddElement
<1>4. Cardinality(Holders \cup {c}) \in Nat
  BY <1>1, HoldersFinite
<1> QED
  BY <1>2, <1>3, <1>4 DEF WithinPermits

LEMMA ArriveKeeps ==
  ASSUME IInv, NEW c \in Calls, NEW adapter \in Adapters, Arrive(c, adapter)
  PROVE  IInv'
<1> USE DEF IInv
<1>1. call[c].pc = "new" /\ call[c] \in Call
  BY DEF Arrive, Shape
<1>2. ASSUME NEW label \in {"connect", "waiting"},
             call' = [call EXCEPT ![c].adapter = adapter, ![c].pc = label]
      PROVE  /\ call' \in [Calls -> Call]
             /\ \A b \in Calls : b # c => call'[b] = call[b]
             /\ call'[c].pc = label
             /\ \A b \in Calls : Sane(call[b])'
  <2> DEFINE x == [call[c] EXCEPT !.adapter = adapter, !.pc = label]
  <2>1. x \in Call /\ x.pc = label
    BY <1>1 DEF Call
  <2>2. /\ call[c].tokens = <<>> /\ call[c].stream = Fresh
        /\ call[c].result = "none"
    BY <1>1 DEF Sane
  <2>3. Sane(x)
    BY <1>1, <2>2 DEF Sane, Call, Fresh
  <2>4. call' = [call EXCEPT ![c] = x]
    BY <1>1, <1>2 DEF Shape, Call
  <2>5. \A b \in Calls : call'[b] = IF b = c THEN x ELSE call[b]
    BY <2>4 DEF Shape
  <2> QED
    BY <2>1, <2>3, <2>4, <2>5 DEF Shape
<1>3. CASE waiting = <<>> /\ Cardinality(Holders) < Permits
  <2>1. /\ call' = [call EXCEPT ![c].adapter = adapter, ![c].pc = "connect"]
        /\ UNCHANGED waiting
    BY <1>3 DEF Arrive
  <2>2. /\ call' \in [Calls -> Call]
        /\ \A b \in Calls : b # c => call'[b] = call[b]
        /\ call'[c].pc = "connect"
        /\ \A b \in Calls : Sane(call[b])'
    BY <1>2, <2>1
  <2>3. Shape' /\ InLine'
    BY <1>1, <2>1, <2>2 DEF Shape, InLine
  <2>4. Holders' = Holders \cup {c}
    BY <2>2 DEF Holders
  <2> QED
    BY <1>3, <2>2, <2>3, <2>4, OneHolderMore
<1>4. CASE ~(waiting = <<>> /\ Cardinality(Holders) < Permits)
  <2>1. /\ call' = [call EXCEPT ![c].adapter = adapter, ![c].pc = "waiting"]
        /\ waiting' = Append(waiting, c)
    BY <1>4 DEF Arrive
  <2>2. /\ call' \in [Calls -> Call]
        /\ \A b \in Calls : b # c => call'[b] = call[b]
        /\ call'[c].pc = "waiting"
        /\ \A b \in Calls : Sane(call[b])'
    BY <1>2, <2>1
  <2>3. Shape'
    BY <2>1, <2>2 DEF Shape
  <2>4. ~ \E n \in DOMAIN waiting : waiting[n] = c
    BY <1>1 DEF InLine
  <2>5. /\ waiting \in Seq(Calls) /\ DOMAIN waiting' = 1 .. (Len(waiting) + 1)
        /\ \A n \in DOMAIN waiting : waiting'[n] = waiting[n]
        /\ waiting'[Len(waiting) + 1] = c
    BY <2>1 DEF Shape
  <2>6. InLine'
    <3>1. ASSUME NEW b \in Calls
          PROVE  call'[b].pc = "waiting" <=> \E n \in DOMAIN waiting' : waiting'[n] = b
      <4>1. CASE b = c
        BY <2>2, <2>5, <4>1
      <4>2. CASE b # c
        BY <2>2, <2>5, <4>2 DEF InLine
      <4> QED
        BY <4>1, <4>2
    <3>2. \A m, n \in DOMAIN waiting' : waiting'[m] = waiting'[n] => m = n
      BY <2>4, <2>5 DEF InLine
    <3> QED
      BY <3>1, <3>2 DEF InLine
  <2>7. Holders' = Holders
    BY <1>1, <2>2 DEF Holders
  <2> QED
    BY <2>2, <2>3, <2>6, <2>7 DEF WithinPermits
<1> QED
  BY <1>3, <1>4

LEMMA AcquireKeeps ==
  ASSUME IInv, Acquire
  PROVE  IInv'
<1> USE DEF IInv
<1> DEFINE c == Head(waiting)
<1>1. c \in Calls /\ 1 \in DOMAIN waiting /\ waiting[1] = c
  BY DEF Acquire, Shape
<1>2. call[c].pc = "waiting" /\ call[c] \in Call
  BY <1>1 DEF InLine, Shape
<1> DEFINE x == [call[c] EXCEPT !.pc = "connect"]
<1>3. x \in Call /\ x.pc = "connect"
  BY <1>2 DEF Call
<1>4. Sane(x)
  BY <1>1, <1>2 DEF Sane, Call
<1>5. call' = [call EXCEPT ![c] = x]
  BY <1>1, <1>2 DEF Acquire, Shape, Call
<1>6. \A b \in Calls : call'[b] = IF b = c THEN x ELSE call[b]
  BY <1>5 DEF Shape
<1>7. waiting' = Tail(waiting)
  BY DEF Acquire
<1>8. Shape'
  BY <1>1, <1>3, <1>5, <1>7 DEF Shape
<1>9. \A n \in 1 .. (Len(waiting) - 1) : waiting'[n] = waiting[n + 1]
  BY <1>1, <1>7 DEF Shape
<1>10. DOMAIN waiting' = 1 .. (Len(waiting) - 1) /\ DOMAIN waiting = 1 .. Len(waiting)
       /\ Len(waiting) \in Nat
  BY <1>1, <1>7 DEF Shape
<1>11. InLine'
  <2>1. ASSUME NEW b \in Calls
        PROVE  call'[b].pc = "waiting" <=> \E n \in DOMAIN waiting' : waiting'[n] = b
    <3>1. CASE b = c
      <4>1. \A n \in DOMAIN waiting' : waiting[n + 1] # c
        BY <1>1, <1>10 DEF InLine
      <4> QED
        BY <1>3, <1>6, <1>9, <1>10, <3>1, <4>1
    <3>2. CASE b # c
      <4>1. \A n \in DOMAIN waiting : waiting[n] = b => n - 1 \in DOMAIN waiting'
        BY <1>1, <1>10, <3>2
      <4>2. (\E n \in DOMAIN waiting' : waiting'[n] = b) <=> \E n \in DOMAIN waiting : waiting[n] = b
        BY <1>9, <1>10, <4>1
      <4> QED
        BY <1>6, <3>2, <4>2 DEF InLine
    <3> QED
      BY <3>1, <3>2
  <2>2. \A m, n \in DOMAIN waiting' : waiting'[m] = waiting'[n] => m = n
    BY <1>9, <1>10 DEF InLine
  <2> QED
    BY <2>1, <2>2 DEF InLine
<1>12. Holders' = Holders \cup {c}
  <2>1. /\ \A b \in Calls : b # c => call'[b].pc = call[b].pc
        /\ call'[c].pc = "connect" /\ c \in Calls
    BY <1>1, <1>3, <1>6
  <2> HIDE DEF c
  <2> QED
    BY <2>1 DEF Holders
<1>13. WithinPermits'
  BY <1>1, <1>12, OneHolderMore DEF Acquire
<1>14. \A b \in Calls : Sane(call[b])'
  BY <1>4, <1>6
<1> QED
  BY <1>8, <1>11, <1>13, <1>14

\* A sequence without its k-th element.
LEMMA Removed ==
  ASSUME NEW S, NEW s \in Seq(S), NEW k \in 1 .. Len(s)
  PROVE  /\ RemoveAt(s, k) \in Seq(S)
         /\ DOMAIN RemoveAt(s, k) = 1 .. (Len(s) - 1)
         /\ \A n \in 1 .. (Len(s) - 1) :
              RemoveAt(s, k)[n] = IF n < k THEN s[n] ELSE s[n + 1]
<1> DEFINE u == SubSeq(s, 1, k - 1)
           v == SubSeq(s, k + 1, Len(s))
           t == RemoveAt(s, k)
<1>1. Len(s) \in Nat /\ DOMAIN s = 1 .. Len(s) /\ k \in Int /\ 1 <= k /\ k <= Len(s)
  OBVIOUS
<1>2. \A n \in 1 .. Len(s) : s[n] \in S
  OBVIOUS
<1>3. /\ u \in Seq(S) /\ Len(u) = IF 1 <= k - 1 THEN k - 1 - 1 + 1 ELSE 0
      /\ \A n \in 1 .. k - 1 - 1 + 1 : u[n] = s[1 + n - 1]
  <2>1. \A n \in 1 .. (k - 1) : s[n] \in S
    BY <1>1, <1>2
  <2>2. 1 \in Int /\ k - 1 \in Int
    BY <1>1
  <2> QED
    BY <2>1, <2>2, SubSeqProperties
<1>4. /\ v \in Seq(S) /\ Len(v) = IF k + 1 <= Len(s) THEN Len(s) - (k + 1) + 1 ELSE 0
      /\ \A n \in 1 .. Len(s) - (k + 1) + 1 : v[n] = s[k + 1 + n - 1]
  <2>1. \A n \in (k + 1) .. Len(s) : s[n] \in S
    BY <1>1, <1>2
  <2>2. k + 1 \in Int /\ Len(s) \in Int
    BY <1>1
  <2> QED
    BY <2>1, <2>2, SubSeqProperties
<1>4a. Len(v) = IF k + 1 <= Len(s) THEN Len(s) - (k + 1) + 1 ELSE 0
  BY <1>4
<1>5. t = u \o v
  BY DEF RemoveAt
<1> HIDE DEF u, v, t
<1>6. Len(u) = k - 1 /\ Len(v) = Len(s) - k
  <2>1. Len(u) = IF 1 <= k - 1 THEN k - 1 - 1 + 1 ELSE 0
    BY <1>3
  <2>2. Len(v) = IF k + 1 <= Len(s) THEN Len(s) - (k + 1) + 1 ELSE 0
    BY <1>4a
  <2>3. Len(u) = k - 1
    <3>1. CASE 1 <= k - 1
      BY <1>1, <2>1, <3>1
    <3>2. CASE ~(1 <= k - 1)
      BY <1>1, <2>1, <3>2
    <3> QED
      BY <3>1, <3>2
  <2>4. Len(v) = Len(s) - k
    <3>1. CASE k + 1 <= Len(s)
      BY <1>1, <2>2, <3>1
    <3>2. CASE ~(k + 1 <= Len(s))
      <4>1. k = Len(s)
        <5>1. \A n \in Nat : \A m \in Int : m <= n /\ ~(m + 1 <= n) => m = n
          OBVIOUS
        <5> QED
          BY <1>1, <3>2, <5>1, Zenon
      <4>2. Len(v) = 0
        BY <2>2, <3>2
      <4> QED
        BY <1>1, <4>1, <4>2
    <3> QED
      BY <3>1, <3>2
  <2> QED
    BY <2>3, <2>4
<1>7. /\ t \in Seq(S) /\ Len(t) = Len(u) + Len(v)
      /\ \A n \in 1 .. Len(u) + Len(v) : t[n] = IF n <= Len(u) THEN u[n] ELSE v[n - Len(u)]
  BY <1>3, <1>4, <1>5, ConcatProperties
<1>8. Len(t) = Len(s) - 1 /\ DOMAIN t = 1 .. Len(t)
  BY <1>1, <1>6, <1>7
<1>9. ASSUME NEW n \in 1 .. (Len(s) - 1)
      PROVE  t[n] = IF n < k THEN s[n] ELSE s[n + 1]
  <2>1. CASE n < k
    <3>1. n \in 1 .. Len(u) + Len(v) /\ n <= Len(u) /\ n \in 1 .. k - 1 - 1 + 1 /\ 1 + n - 1 = n
      BY <1>1, <1>6, <2>1
    <3>2. t[n] = u[n]
      BY <1>7, <3>1
    <3> QED
      BY <1>3, <2>1, <3>1, <3>2
  <2>2. CASE ~(n < k)
    <3>1. t[n] = v[n - (k - 1)]
      BY <1>1, <1>6, <1>7, <2>2
    <3>2. n - (k - 1) \in 1 .. Len(s) - (k + 1) + 1 /\ k + 1 + (n - (k - 1)) - 1 = n + 1
      BY <1>1, <2>2
    <3> QED
      BY <1>4, <2>2, <3>1, <3>2
  <2> QED
    BY <2>1, <2>2
<1> QED
  BY <1>1, <1>6, <1>7, <1>8, <1>9 DEF t

LEMMA CloseKeeps ==
  ASSUME IInv, NEW c \in Calls, Close(c)
  PROVE  IInv'
<1> USE DEF IInv
<1>1. Becomes(c, {"ended"})
  BY EndStep DEF Close, Results
<1>2. CASE call[c].pc # "waiting"
  <2>1. call[c].pc \in Active /\ UNCHANGED waiting
    BY <1>2 DEF Close, Active
  <2>2. Becomes(c, Working)
    BY <1>1, Wider DEF Working
  <2> QED
    BY <2>1, <2>2, HolderStep
<1>3. CASE call[c].pc = "waiting"
  <2>1. PICK x \in Call : /\ Sane(x) /\ x.pc = "ended" /\ call' = [call EXCEPT ![c] = x]
    BY <1>1 DEF Becomes
  <2>2. \A b \in Calls : call'[b] = IF b = c THEN x ELSE call[b]
    BY <2>1 DEF Shape
  <2> DEFINE k == CHOOSE n \in DOMAIN waiting : waiting[n] = c
  <2>3. k \in DOMAIN waiting /\ waiting[k] = c
    BY <1>3 DEF InLine
  <2>4. waiting' = RemoveAt(waiting, k)
    BY <1>3 DEF Close
  <2> HIDE DEF k
  <2>5. /\ waiting \in Seq(Calls) /\ Len(waiting) \in Nat
        /\ DOMAIN waiting = 1 .. Len(waiting) /\ k \in 1 .. Len(waiting)
    BY <2>3 DEF Shape
  <2>6. \A m, n \in 1 .. Len(waiting) : waiting[m] = waiting[n] => m = n
    BY <2>5 DEF InLine
  <2>7. /\ waiting' \in Seq(Calls)
        /\ DOMAIN waiting' = 1 .. (Len(waiting) - 1)
        /\ \A n \in 1 .. (Len(waiting) - 1) :
             waiting'[n] = IF n < k THEN waiting[n] ELSE waiting[n + 1]
    BY <2>3, <2>4, <2>5, Removed
  <2>8. Shape'
    BY <2>1, <2>7 DEF Shape
  <2>9. ASSUME NEW b \in Calls
        PROVE  call'[b].pc = "waiting" <=> \E n \in DOMAIN waiting' : waiting'[n] = b
    <3>1. CASE b = c
      <4>1. ASSUME NEW n \in DOMAIN waiting'
            PROVE  waiting'[n] # c
        <5>1. /\ n \in 1 .. Len(waiting) /\ n + 1 \in 1 .. Len(waiting)
              /\ (n < k => waiting'[n] = waiting[n])
              /\ (n >= k => waiting'[n] = waiting[n + 1])
          BY <2>5, <2>7
        <5> QED
          BY <2>3, <2>5, <2>6, <5>1
      <4> QED
        BY <2>1, <2>2, <3>1, <4>1
    <3>2. CASE b # c
      <4>1. ASSUME NEW n \in DOMAIN waiting, waiting[n] = b
            PROVE  \E m \in DOMAIN waiting' : waiting'[m] = b
        <5>1. CASE n < k
          BY <2>5, <2>7, <4>1, <5>1
        <5>2. CASE n > k
          <6>1. n - 1 \in DOMAIN waiting' /\ waiting'[n - 1] = b
            BY <2>5, <2>7, <4>1, <5>2
          <6> QED
            BY <6>1
        <5> QED
          BY <2>3, <2>5, <3>2, <4>1, <5>1, <5>2
      <4>2. ASSUME NEW n \in DOMAIN waiting', waiting'[n] = b
            PROVE  \E m \in DOMAIN waiting : waiting[m] = b
        BY <2>5, <2>7, <4>2
      <4> QED
        BY <2>2, <3>2, <4>1, <4>2 DEF InLine
    <3> QED
      BY <3>1, <3>2
  <2>10. \A m, n \in DOMAIN waiting' : waiting'[m] = waiting'[n] => m = n
    <3>1. ASSUME NEW m \in DOMAIN waiting', NEW n \in DOMAIN waiting', waiting'[m] = waiting'[n]
          PROVE  (IF m < k THEN m ELSE m + 1) = (IF n < k THEN n ELSE n + 1)
      <4> DEFINE p == IF m < k THEN m ELSE m + 1
                 q == IF n < k THEN n ELSE n + 1
      <4>1. /\ p \in 1 .. Len(waiting) /\ waiting'[m] = waiting[p]
            /\ q \in 1 .. Len(waiting) /\ waiting'[n] = waiting[q]
        BY <2>5, <2>7
      <4> HIDE DEF p, q
      <4>2. p = q
        BY <2>6, <3>1, <4>1
      <4> QED
        BY <4>2 DEF p, q
    <3>2. \A m, n \in DOMAIN waiting' :
            (IF m < k THEN m ELSE m + 1) = (IF n < k THEN n ELSE n + 1) => m = n
      BY <2>5, <2>7
    <3> QED
      BY <3>1, <3>2
  <2>11. InLine'
    BY <2>9, <2>10 DEF InLine
  <2>12. Holders' = Holders
    BY <1>3, <2>1, <2>2 DEF Holders
  <2>13. \A b \in Calls : Sane(call[b])'
    BY <2>1, <2>2
  <2> QED
    BY <2>8, <2>11, <2>12, <2>13 DEF WithinPermits
<1> QED
  BY <1>2, <1>3

LEMMA ConnectStep ==
  ASSUME Shape, NEW c \in Calls, Sane(call[c]), Connect(c)
  PROVE  Becomes(c, Working)
<1>1. /\ call[c] \in Call /\ call[c].pc = "connect"
      /\ {"ended", "pause"} \subseteq Working /\ {"stream"} \subseteq Working
      /\ {"ProviderError", "ProviderRateLimited"} \subseteq Results \ {"complete"}
      /\ TransportError(c) \in Results \ {"complete"}
  BY DEF Shape, Connect, Working, Active, Results, TransportError
<1>2. CASE call' = [call EXCEPT ![c].pc = "stream", ![c].said = FALSE]
  <2> DEFINE x == [call[c] EXCEPT !.pc = "stream", !.said = FALSE]
  <2>1. call[c].tokens = <<>> /\ call[c].stream = Fresh /\ call[c].result = "none"
    BY <1>1 DEF Sane
  <2>2. /\ x \in Call /\ x.pc = "stream" /\ x.tokens = <<>> /\ x.stream = Fresh
        /\ x.result = "none"
    BY <1>1, <2>1 DEF Call
  <2>3. Sane(x)
    BY <2>2 DEF Sane, Fresh
  <2>4. call' = [call EXCEPT ![c] = x]
    BY <1>1, <1>2 DEF Shape, Call
  <2> QED
    BY <1>1, <2>2, <2>3, <2>4 DEF Becomes
<1>3. CASE \/ Raise(c, "ProviderRateLimited") \/ Raise(c, "ProviderError")
           \/ Raise(c, TransportError(c))
  <2>1. Becomes(c, {"ended", "pause"})
    BY <1>1, <1>3, RaiseStep
  <2> QED
    BY <1>1, <2>1, Wider
<1> QED
  BY <1>2, <1>3 DEF Connect

LEMMA RetryStep ==
  ASSUME Shape, NEW c \in Calls, Sane(call[c]), Retry(c)
  PROVE  Becomes(c, Working)
<1> DEFINE x == [call[c] EXCEPT !.pc = "connect"]
<1>1. /\ call[c] \in Call /\ call[c].tokens = <<>> /\ call[c].stream = Fresh
      /\ call[c].result = "none" /\ "connect" \in Working
  BY DEF Shape, Retry, Sane, Working, Active
<1>2. /\ x \in Call /\ x.pc = "connect" /\ x.tokens = <<>> /\ x.stream = Fresh
      /\ x.result = "none"
  BY <1>1 DEF Call
<1>3. Sane(x)
  BY <1>2 DEF Sane, Fresh
<1>4. call' = [call EXCEPT ![c] = x]
  BY <1>1 DEF Retry, Shape, Call
<1> QED
  BY <1>1, <1>2, <1>3, <1>4 DEF Becomes

\* Every step keeps the invariant.
LEMMA Inductive ==
  ASSUME IInv, [Next]_vars
  PROVE  IInv'
<1>1. CASE Acquire
  BY <1>1, AcquireKeeps
<1>2. ASSUME NEW c \in Calls, NEW adapter \in Adapters, Arrive(c, adapter)
      PROVE  IInv'
  BY <1>2, ArriveKeeps
<1>3. ASSUME NEW c \in Calls, Connect(c)
      PROVE  IInv'
  BY <1>3, ConnectStep, HolderStep DEF IInv, Connect, Active
<1>4. ASSUME NEW c \in Calls, Receive(c)
      PROVE  IInv'
  <2>1. /\ call[c].pc = "stream" /\ UNCHANGED waiting
        /\ Becomes(c, Working) \/ UNCHANGED call
    BY <1>4, ReceiveStep DEF IInv
  <2>2. CASE Becomes(c, Working)
    BY <2>1, <2>2, HolderStep DEF Active
  <2>3. CASE UNCHANGED call
    BY <2>1, <2>3 DEF IInv, Shape, Sane, InLine, WithinPermits, Holders
  <2> QED
    BY <2>1, <2>2, <2>3
<1>5. ASSUME NEW c \in Calls, Retry(c)
      PROVE  IInv'
  BY <1>5, RetryStep, HolderStep DEF IInv, Retry, Active
<1>6. ASSUME NEW c \in Calls, Close(c)
      PROVE  IInv'
  BY <1>6, CloseKeeps
<1>7. CASE UNCHANGED vars
  BY <1>7 DEF vars, IInv, Shape, Sane, InLine, WithinPermits, Holders
<1> QED
  BY <1>1, <1>2, <1>3, <1>4, <1>5, <1>6, <1>7 DEF Next

-----------------------------------------------------------------------------
(* Theorems *)

\* The invariant that carries all the others: tokens and what a call knows of
\* its stream belong to one attempt, and permits and queue agree with the calls.
THEOREM Invariance == Spec => []IInv
<1>1. Init => IInv
  <2> SUFFICES ASSUME Init PROVE IInv
    OBVIOUS
  <2>1. 0 \in 0 .. MaxRetries
    BY ProviderAssumption
  <2>2. NewCall \in Call /\ Sane(NewCall) /\ NewCall.pc = "new"
    BY <2>1 DEF Call, NewCall, Adapters, Results, Fresh, NoIndex, Sane
  <2>3. Shape
    BY <2>2 DEF Init, Shape
  <2>4. \A c \in Calls : Sane(call[c]) /\ call[c].pc = "new"
    BY <2>2 DEF Init
  <2>5. InLine
    BY <2>4 DEF InLine, Init
  <2>6. Holders = {}
    BY <2>4 DEF Holders
  <2>7. WithinPermits
    BY <2>6, FS_EmptySet, ProviderAssumption DEF WithinPermits
  <2> QED
    BY <2>3, <2>4, <2>5, <2>7 DEF IInv
<1>2. IInv /\ [Next]_vars => IInv'
  <2> SUFFICES ASSUME IInv, [Next]_vars PROVE IInv'
    OBVIOUS
  <2> QED
    BY Inductive
<1> QED
  BY <1>1, <1>2, PTL DEF Spec

\* Both variables have their types throughout.
THEOREM TypeCorrect == Spec => []Shape
<1>1. IInv => Shape
  BY DEF IInv
<1> QED
  BY <1>1, Invariance, PTL

\* Whatever a consumer was given came from one stream: no retry doubles text.
THEOREM TokensOfOneAttempt == Spec => []OneAttempt
<1>1. IInv => OneAttempt
  BY DEF IInv, Sane, OneAttempt
<1> QED
  BY <1>1, Invariance, PTL

\* The text of a call is one candidate's, whatever arrives in between.
THEOREM TokensOfOneCandidate == Spec => []OneCandidate
<1>1. IInv => OneCandidate
  BY DEF IInv, Sane, OneCandidate
<1> QED
  BY <1>1, Invariance, PTL

\* At most as many calls as there are permits hold one, through retries and
\* cancellations, and the queue holds exactly the calls that wait, each once: no
\* permit is lost and no waiter forgotten.
THEOREM PermitsAndQueueAgree == Spec => [](WithinPermits /\ InLine)
<1>1. IInv => WithinPermits /\ InLine
  BY DEF IInv
<1> QED
  BY <1>1, Invariance, PTL

\* A Gemini call that is reported complete was said to be complete and gave text.
THEOREM GeminiWhole == Spec => GeminiAnswersAreWhole
<1>1. ASSUME IInv, Next, NEW c \in Calls, call[c].adapter = "gemini",
             call'[c].result = "complete"
      PROVE  call[c].said /\ Started(c)
  <2>1. call[c] \in Call /\ Sane(call[c]) /\ call[c].result # "complete"
    BY <1>1 DEF IInv, Shape, Sane
  <2>2. ASSUME NEW b \in Calls, Becomes(b, Working \cup {"waiting"})
        PROVE  call[c].said /\ Started(c)
    <3>1. b = c
      BY <1>1, <2>1, <2>2 DEF Becomes, IInv, Shape
    <3> QED
      BY <1>1, <2>2, <3>1 DEF Becomes, Whole, IInv, Shape
  <2>3. ASSUME NEW b \in Calls, Sane(call[b]),
               Connect(b) \/ Receive(b) \/ Retry(b) \/ Close(b)
        PROVE  Becomes(b, Working \cup {"waiting"}) \/ UNCHANGED call
    <3>1. Close(b) => Becomes(b, {"ended"})
      BY EndStep DEF Close, Results
    <3>4. Connect(b) => Becomes(b, Working) \/ Becomes(b, {"ended"})
      BY <1>1, <2>3, ConnectStep DEF IInv
    <3>5. Receive(b) => Becomes(b, Working) \/ Becomes(b, {"ended"}) \/ UNCHANGED call
      BY <1>1, <2>3, ReceiveStep DEF IInv
    <3>6. Retry(b) => Becomes(b, Working) \/ Becomes(b, {"ended"})
      BY <1>1, <2>3, RetryStep DEF IInv
    <3>2. Becomes(b, Working) \/ Becomes(b, {"ended"}) \/ UNCHANGED call
      BY <2>3, <3>1, <3>4, <3>5, <3>6
    <3>3. {"ended"} \subseteq Working \cup {"waiting"} /\ Working \subseteq Working \cup {"waiting"}
      BY DEF Working
    <3> QED
      BY <3>2, <3>3, Wider
  <2>4. ASSUME NEW b \in Calls, call'[c].result = call[c].result
        PROVE  call[c].said /\ Started(c)
    BY <1>1, <2>1, <2>4
  <2>5. CASE Acquire
    <3>1. Head(waiting) \in Calls
      BY <1>1, <2>5 DEF Acquire, IInv, Shape
    <3>2. call'[c].result = call[c].result
      BY <1>1, <2>1, <2>5, <3>1 DEF Acquire, IInv, Shape, Call
    <3> QED
      BY <1>1, <2>1, <3>2
  <2>6. ASSUME NEW b \in Calls, NEW adapter \in Adapters, Arrive(b, adapter)
        PROVE  call[c].said /\ Started(c)
    <3>1. call'[c].result = call[c].result
      <4>1. call \in [Calls -> Call] /\ call[b] \in Call
        BY <1>1 DEF IInv, Shape
      <4>2. CASE call' = [call EXCEPT ![b].adapter = adapter, ![b].pc = "connect"]
        BY <4>1, <4>2 DEF Call
      <4>3. CASE call' = [call EXCEPT ![b].adapter = adapter, ![b].pc = "waiting"]
        BY <4>1, <4>3 DEF Call
      <4> QED
        BY <2>6, <4>2, <4>3 DEF Arrive
    <3> QED
      BY <1>1, <2>1, <3>1
  <2>7. ASSUME NEW b \in Calls, Connect(b) \/ Receive(b) \/ Retry(b) \/ Close(b)
        PROVE  call[c].said /\ Started(c)
    <3>1. Sane(call[b])
      BY <1>1 DEF IInv
    <3>2. Becomes(b, Working \cup {"waiting"}) \/ UNCHANGED call
      BY <2>3, <2>7, <3>1
    <3>3. UNCHANGED call => call'[c].result = call[c].result
      OBVIOUS
    <3> QED
      BY <1>1, <2>1, <2>2, <3>2, <3>3
  <2> QED
    BY <1>1, <2>5, <2>6, <2>7 DEF Next
<1>2. IInv /\ [Next]_vars =>
        [\A c \in Calls : call[c].adapter = "gemini" /\ call'[c].result = "complete" =>
                            call[c].said /\ Started(c)]_vars
  BY <1>1
<1> QED
  BY <1>2, Invariance, PTL DEF Spec, GeminiAnswersAreWhole

=============================================================================
