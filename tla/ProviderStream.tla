--------------------------- MODULE ProviderStream ---------------------------
(***************************************************************************)
(* Calls of language-model providers (adapters/).  A streaming call waits  *)
(* for a permit of ProviderRegistry, opens a stream, turns what the        *)
(* provider sends into tokens, and on a provider error opens another       *)
(* stream, while nothing was delivered yet.  It keeps its permit all the   *)
(* time, also while it pauses before a retry.  A summary calls the adapter *)
(* directly: no permit, no retry.                                          *)
(*                                                                         *)
(* What a provider sends is chosen freely among the cases the adapters     *)
(* tell apart.  Text is left out: a token is <<attempt, candidate>>.       *)
(***************************************************************************)
EXTENDS Integers, Sequences, FiniteSets, SequencesExt

CONSTANTS
    MaxCalls,       \* bound: calls
    Permits,        \* PROVIDER_MAX_CONCURRENCY
    MaxRetries,     \* max_retries of stream_with_resilience()
    MaxTokens       \* bound: tokens one stream delivers

ASSUME ProviderAssumption ==
    /\ MaxCalls \in Nat /\ Permits \in Nat \ {0}
    /\ MaxRetries \in Nat /\ MaxTokens \in Nat

VARIABLES
    waiting,        \* the waiters of the semaphore, in their order
    call            \* the calls, numbered as they arrive

vars == <<waiting, call>>

-----------------------------------------------------------------------------
(* Data *)

Calls == 1 .. MaxCalls

Adapters == {"openai", "anthropic", "gemini"}

NoIndex == -1

\* What stream_chat() knows about its stream: the candidate it follows and
\* whether that was reported finished.
Fresh == [primary |-> NoIndex, terminal |-> FALSE]

Results == {"none", "complete", "ProviderRateLimited", "ProviderError", "other", "closed"}

Call == [adapter : Adapters,
         pc : {"new", "waiting", "connect", "stream", "pause", "ended"},
         attempt : 0 .. MaxRetries,
         tokens : Seq((0 .. MaxRetries) \X {0, 1}),
         stream : [primary : {NoIndex, 0, 1}, terminal : BOOLEAN],
         said : BOOLEAN,        \* history: the provider said the answer is whole
         result : Results]

NewCall == [adapter |-> "openai", pc |-> "new", attempt |-> 0, tokens |-> <<>>,
            stream |-> Fresh, said |-> FALSE, result |-> "none"]

Holders == {c \in Calls : call[c].pc \in {"connect", "stream", "pause"}}

Started(c) == call[c].tokens # <<>>

-----------------------------------------------------------------------------
(* Gemini responses *)

Candidate == [index : {0, 1}, finish : {"", "success", "blocked", "unknown"},
              content : {"absent", "malformed", "text", "empty", "notText"}]

TextCandidate == [index : {0, 1}, finish : {"", "success"}, content : {"text"}]

\* An event is an error, something to pass over, or a list of candidates.
GeminiEvents ==
    [kind : {"error429", "error", "blockedPrompt", "malformed", "metadata"},
     candidates : {<<>>}]
    \cup [kind : {"candidates"},
          candidates : {<<c>> : c \in Candidate} \cup (TextCandidate \X TextCandidate)]

\* The first candidate of the followed index; at first that of index 0, and
\* without one the first of all.
Picked(candidates, primary) ==
    LET wanted == IF primary = NoIndex THEN 0 ELSE primary
        found == {n \in DOMAIN candidates :
                    /\ candidates[n].index = wanted
                    /\ \A m \in 1 .. (n - 1) : candidates[m].index # wanted}
    IN  IF found # {} THEN {candidates[n] : n \in found}
        ELSE IF primary = NoIndex THEN {candidates[1]} ELSE {}

\* _candidate() does not accept it, or it breaks the order of a stream.
Unacceptable(c, stream) ==
    \/ c.finish \in {"blocked", "unknown"}
    \/ stream.terminal
    \/ c.content = "malformed"
    \/ c.content = "absent" /\ c.finish = ""
    \/ c.content = "empty" /\ c.finish = ""
    \/ c.content = "notText"

\* Fault: every event is searched for index 0 first.
FollowFault(stream, c) == [primary |-> NoIndex, terminal |-> c.finish = "success"]

\* The stream after an acceptable candidate.
Follow(stream, c) == [primary |-> c.index, terminal |-> c.finish = "success"]

-----------------------------------------------------------------------------
(* Ends of an attempt *)

Init ==
    /\ waiting = <<>>
    /\ call = [c \in Calls |-> NewCall]

\* The generator returns or raises; `async with' releases the permit.  What it
\* knew is forgotten.
End(c, result) ==
    call' = [call EXCEPT ![c] = [NewCall EXCEPT !.pc = "ended", !.result = result]]

\* Fault: a stream that already delivered text is retried.
RaiseFault(c, error) ==
    IF error = "other" \/ call[c].attempt >= MaxRetries
    THEN End(c, error)
    ELSE call' = [call EXCEPT ![c].pc = "pause", ![c].attempt = @ + 1,
                    ![c].stream = Fresh]

\* The adapter raises: a provider error is retried before the first token.
Raise(c, error) ==
    IF error = "other" \/ Started(c) \/ call[c].attempt >= MaxRetries
    THEN End(c, error)
    ELSE call' = [call EXCEPT ![c].pc = "pause", ![c].attempt = @ + 1,
                    ![c].stream = Fresh]

\* Only the Gemini adapter turns a transport error of httpx into ProviderError.
TransportError(c) ==
    IF call[c].adapter = "gemini" THEN "ProviderError" ELSE "other"

Deliver(c, candidate, stream, said) ==
    /\ Len(call[c].tokens) < MaxTokens
    /\ call' = [call EXCEPT ![c].tokens = Append(@, <<call[c].attempt, candidate>>),
                  ![c].stream = stream, ![c].said = said]

-----------------------------------------------------------------------------
(* Actions *)

\* stream_with_resilience() asks for a permit; a free one is taken only if
\* nobody waits.
Arrive(c, adapter) ==
    /\ call[c].pc = "new"
    /\ \A b \in 1 .. (c - 1) : call[b].pc # "new"
    /\ IF waiting = <<>> /\ Cardinality(Holders) < Permits
       THEN /\ call' = [call EXCEPT ![c].adapter = adapter, ![c].pc = "connect"]
            /\ UNCHANGED waiting
       ELSE /\ call' = [call EXCEPT ![c].adapter = adapter, ![c].pc = "waiting"]
            /\ waiting' = Append(waiting, c)

\* Fault: a release wakes a waiter only when it was the last one.
AcquireFault ==
    /\ waiting # <<>> /\ Holders = {}
    /\ call' = [call EXCEPT ![Head(waiting)].pc = "connect"]
    /\ waiting' = Tail(waiting)

\* A permit was released: the first waiter gets it.
Acquire ==
    /\ waiting # <<>> /\ Cardinality(Holders) < Permits
    /\ call' = [call EXCEPT ![Head(waiting)].pc = "connect"]
    /\ waiting' = Tail(waiting)

\* The response, or none.  A missing Gemini key counts as a refusal.
Connect(c) ==
    /\ call[c].pc = "connect"
    /\ \/ call' = [call EXCEPT ![c].pc = "stream", ![c].said = FALSE]
       \/ Raise(c, "ProviderRateLimited")
       \/ Raise(c, "ProviderError")
       \/ Raise(c, TransportError(c))
    /\ UNCHANGED waiting

\* OpenAI and Anthropic: a line with text is a token.  Lines without text, that
\* are not data, or that do not parse are passed over and change nothing.
ReceiveText(c) ==
    /\ call[c].pc = "stream" /\ call[c].adapter # "gemini"
    /\ Deliver(c, 0, Fresh, FALSE)
    /\ UNCHANGED waiting

\* A line that parses but has an unexpected shape, such as an empty `choices',
\* raises what nobody catches.
ReceiveOddity(c) ==
    /\ call[c].pc = "stream" /\ call[c].adapter # "gemini"
    /\ End(c, "other")
    /\ UNCHANGED waiting

\* [DONE] or message_stop: the rest of the stream is not read.
ReceiveStop(c) ==
    /\ call[c].pc = "stream" /\ call[c].adapter # "gemini"
    /\ End(c, "complete")
    /\ UNCHANGED waiting

\* One candidate of an event is followed; a list without it is an error.
GeminiCandidate(c, event) ==
    LET stream == call[c].stream IN
    \/ /\ Picked(event.candidates, stream.primary) = {}
       /\ Raise(c, "ProviderError")
    \/ \E d \in Picked(event.candidates, stream.primary) :
        IF Unacceptable(d, stream)
        THEN Raise(c, "ProviderError")
        ELSE IF d.content = "text"
        THEN Deliver(c, d.index, Follow(stream, d), Follow(stream, d).terminal)
        ELSE call' = [call EXCEPT ![c].stream = Follow(stream, d), ![c].said = TRUE]

ReceiveGemini(c) ==
    /\ call[c].pc = "stream" /\ call[c].adapter = "gemini"
    /\ \E event \in GeminiEvents :
         CASE event.kind = "metadata" -> UNCHANGED call
           [] event.kind = "error429" -> Raise(c, "ProviderRateLimited")
           [] event.kind \in {"error", "blockedPrompt", "malformed"} -> Raise(c, "ProviderError")
           [] event.kind = "candidates" -> GeminiCandidate(c, event)
    /\ UNCHANGED waiting

\* Fault: a Gemini stream that ends is an answer.
EndOfStreamFault(c) ==
    /\ call[c].pc = "stream"
    /\ End(c, "complete")
    /\ UNCHANGED waiting

\* The connection is closed in order.  Only Gemini asks whether the answer was
\* finished, and whether there was one.
EndOfStream(c) ==
    /\ call[c].pc = "stream"
    /\ IF call[c].adapter = "gemini" /\ ~(Started(c) /\ call[c].stream.terminal)
       THEN Raise(c, "ProviderError")
       ELSE End(c, "complete")
    /\ UNCHANGED waiting

\* The connection breaks.
Break(c) ==
    /\ call[c].pc = "stream"
    /\ Raise(c, TransportError(c))
    /\ UNCHANGED waiting

\* The pause before a retry is over.
Retry(c) ==
    /\ call[c].pc = "pause"
    /\ call' = [call EXCEPT ![c].pc = "connect"]
    /\ UNCHANGED waiting

\* The consumer closes the generator, or its task is cancelled; a waiter leaves
\* the queue.
Close(c) ==
    /\ call[c].pc \in {"waiting", "connect", "stream", "pause"}
    /\ End(c, "closed")
    /\ waiting' = IF call[c].pc = "waiting"
                  THEN RemoveAt(waiting, CHOOSE n \in DOMAIN waiting : waiting[n] = c)
                  ELSE waiting

-----------------------------------------------------------------------------
Receive(c) ==
    \/ ReceiveText(c) \/ ReceiveOddity(c) \/ ReceiveStop(c)
    \/ ReceiveGemini(c) \/ EndOfStream(c) \/ Break(c)

Next ==
    \/ Acquire
    \/ \E c \in Calls :
        \/ \E adapter \in Adapters : Arrive(c, adapter)
        \/ Connect(c) \/ Receive(c) \/ Retry(c) \/ Close(c)

Spec == Init /\ [][Next]_vars

\* Fairness of the process, and of nobody else: a waiter is woken and a pause
\* ends.  The adapters stream with timeout=None, so a provider that neither
\* answers nor hangs up is waited for without end.
FairSpec == Spec /\ WF_vars(Acquire) /\ WF_vars(\E c \in Calls : Retry(c))

-----------------------------------------------------------------------------
(* Properties *)

\* A retry never doubles text: whatever a consumer was given came from one
\* stream, although each attempt starts the answer anew.
OneAttempt ==
    \A c \in Calls : \A i, j \in DOMAIN call[c].tokens :
        call[c].tokens[i][1] = call[c].tokens[j][1]

\* The text of one call is one candidate's: candidates of other indices that
\* arrive in between are never mixed in.
OneCandidate ==
    \A c \in Calls : \A i, j \in DOMAIN call[c].tokens :
        call[c].tokens[i][2] = call[c].tokens[j][2]

\* An answer of Gemini is reported complete only if the provider said so and gave
\* some text; a stream cut short is an error.
GeminiAnswersAreWhole ==
    [][\A c \in Calls :
        call[c].adapter = "gemini" /\ call'[c].result = "complete" =>
            call[c].said /\ Started(c)]_vars

\* Permits are not lost and waiters not forgotten: in the end nobody waits for a
\* permit or for a retry, unless as many providers as there are permits are
\* silent.
WaitersServed ==
    <>[](\/ \A c \in Calls : call[c].pc \notin {"waiting", "pause"}
         \/ Permits = Cardinality({c \in Calls : call[c].pc \in {"connect", "stream"}}))

=============================================================================
