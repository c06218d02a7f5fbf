-------------------------------- MODULE Chat --------------------------------
(***************************************************************************)
(* One chat session (services/chat_service.py), the background job queue   *)
(* (core/jobs.py) and the rolling summaries it runs                        *)
(* (engines/memory/engine.py).                                             *)
(*                                                                         *)
(* A turn is four separate pieces of work with no transaction around them: *)
(* T1 stores the user message or hides the last answer, T2 streams, T3     *)
(* stores the answer, T4 may enqueue a summary.  The server may restart    *)
(* and the client may leave between any two; jobs run among all of them.   *)
(*                                                                         *)
(* Message i is the i-th row by created_at.  Its text is left out; what a  *)
(* turn answers is `prompted', the user message whose text T1 read.  The   *)
(* tokens of a stream are left out with the text.  A greeting has          *)
(* token_count 0, every other message 1.                                   *)
(***************************************************************************)
EXTENDS Naturals, Sequences, FiniteSets

CONSTANTS
    MaxRequests,    \* bound: POSTs to the session
    MaxRetries,     \* Job.max_retries
    Threshold,      \* context_window * SUMMARY_TOKEN_THRESHOLD_RATIO
    MaxRestarts     \* bound: restarts of the server

ASSUME ChatAssumption ==
    /\ MaxRequests \in Nat
    /\ MaxRetries \in Nat
    /\ Threshold \in Nat /\ MaxRestarts \in Nat

VARIABLES
    \* the database
    exists,         \* the chat_sessions row is committed
    messages,       \* messages rows
    summaries,      \* memories rows of kind "summary"
    \* the memory of the server process
    active,         \* the chat is in _active_streams
    pc, turn,       \* the requests
    jobs,           \* _seen_keys and _tasks of the queue
    \* bound
    restarts

vars == <<exists, messages, summaries, active, pc, turn, jobs, restarts>>

-----------------------------------------------------------------------------
(* Data *)

\* Requests are numbered in the order in which the server takes them up.
Requests == 1 .. MaxRequests

Ops == {"send", "regenerate"}

Message == [role : {"user", "assistant"}, parent : Nat, active : BOOLEAN,
            status : {"complete", "partial"}, tokens : {0, 1}, prompted : Nat]

\* What a streaming request keeps in its frame; 0 stands for None.
Turn == [op : Ops, parent : Nat, prompted : Nat, answer : Nat]

NoTurn == [op |-> "send", parent |-> 0, prompted |-> 0, answer |-> 0]

PCs == {"new", "t1", "t2", "partial", "t3", "t4", "ended"}

\* Idempotency keys: "summarize:{chat}:force" and "summarize:{chat}:{message}".
Keys == 0 .. 2 * MaxRequests + 1

NoSummary == [version |-> 0, cover |-> 0]

Job == [state : {"unseen", "queued", "reading", "calling", "over"},
        attempt : 0 .. MaxRetries + 1, prev : [version : Nat, cover : Nat],
        last : Nat]

NoJob == [state |-> "unseen", attempt |-> 0, prev |-> NoSummary, last |-> 0]

Newest(S) == IF S = {} THEN 0 ELSE CHOOSE i \in S : \A j \in S : j <= i

LastActiveAssistant ==
    Newest({i \in DOMAIN messages :
              messages[i].role = "assistant" /\ messages[i].active})

LastUser == Newest({i \in DOMAIN messages : messages[i].role = "user"})

\* _latest_summary(): any of the rows with the highest version.
LatestSummaries ==
    IF summaries = <<>> THEN {NoSummary}
    ELSE {summaries[k] : k \in {k \in DOMAIN summaries :
            \A l \in DOMAIN summaries : summaries[l].version <= summaries[k].version}}

\* Fault: the covered message is read again.
UnsummarizedFault(prev) ==
    {i \in DOMAIN messages : messages[i].active /\ i >= prev.cover}

\* _unsummarized(): active messages created after the covered one.
Unsummarized(prev) ==
    {i \in DOMAIN messages : messages[i].active /\ i > prev.cover}

\* needs_summary()
NeedsSummary(prev) ==
    Cardinality({i \in Unsummarized(prev) : messages[i].tokens = 1}) >= Threshold

\* InProcessJobQueue.enqueue(): a key seen before is skipped, whatever became
\* of its job.
Enqueue(k) ==
    jobs' = IF jobs[k].state = "unseen"
            THEN [jobs EXCEPT ![k].state = "queued"] ELSE jobs

Arrives(r) == pc[r] = "new" /\ \A q \in 1 .. (r - 1) : pc[q] # "new"

Goto(r, label) == pc' = [pc EXCEPT ![r] = label]

\* Fault: _active_streams is left only by a stream that came to its end.
EndFault(r) ==
    /\ Goto(r, "ended")
    /\ turn' = [turn EXCEPT ![r] = NoTurn]
    /\ active' = (active /\ pc[r] # "t4")

\* The request ends; its finally discards the chat from _active_streams.
End(r) ==
    /\ Goto(r, "ended")
    /\ turn' = [turn EXCEPT ![r] = NoTurn]
    /\ active' = FALSE

-----------------------------------------------------------------------------
(* State *)

Init ==
    /\ exists = FALSE /\ active = FALSE
    /\ messages = <<>> /\ summaries = <<>>
    /\ pc = [r \in Requests |-> "new"]
    /\ turn = [r \in Requests |-> NoTurn]
    /\ jobs = [k \in Keys |-> NoJob]
    /\ restarts = 0

-----------------------------------------------------------------------------
(* Requests *)

\* create_session(): the greeting of the character, if any, is the first
\* assistant message.
CreateSession(greeting) ==
    /\ ~exists
    /\ exists' = TRUE
    /\ messages' = IF greeting
                   THEN <<[role |-> "assistant", parent |-> 0, active |-> TRUE,
                           status |-> "complete", tokens |-> 0, prompted |-> 0]>>
                   ELSE <<>>
    /\ UNCHANGED <<summaries, active, pc, turn, jobs, restarts>>

\* Fault: the session is not looked up in _active_streams.
AcceptFault(r, op) ==
    /\ Arrives(r)
    /\ active' = TRUE
    /\ Goto(r, "t1")
    /\ turn' = [turn EXCEPT ![r].op = op]
    /\ UNCHANGED <<exists, messages, summaries, jobs, restarts>>

\* stream_message() and regenerate() up to _stream_impl().
Accept(r, op) ==
    /\ Arrives(r)
    /\ ~active
    /\ active' = TRUE
    /\ Goto(r, "t1")
    /\ turn' = [turn EXCEPT ![r].op = op]
    /\ UNCHANGED <<exists, messages, summaries, jobs, restarts>>

\* 409: a response is already streaming.
Conflict(r) ==
    /\ Arrives(r) /\ active
    /\ Goto(r, "ended")
    /\ UNCHANGED <<exists, messages, summaries, active, turn, jobs, restarts>>

\* T1 of stream_message(): the user message is flushed and committed with the
\* rest of T1.
StoreUserMessage(r) ==
    /\ pc[r] = "t1" /\ turn[r].op = "send" /\ exists
    /\ messages' = Append(messages,
         [role |-> "user", parent |-> 0, active |-> TRUE, status |-> "complete",
          tokens |-> 1, prompted |-> 0])
    /\ turn' = [turn EXCEPT ![r].parent = Len(messages'), ![r].prompted = Len(messages')]
    /\ Goto(r, "t2")
    /\ UNCHANGED <<exists, summaries, active, jobs, restarts>>

\* T1 of regenerate(): the last active answer is hidden and its parent kept; the
\* text comes from the last user message.
HideLastAnswer(r) ==
    /\ pc[r] = "t1" /\ turn[r].op = "regenerate" /\ exists
    /\ LET a == LastActiveAssistant IN
       /\ messages' = IF a = 0 THEN messages
                      ELSE [messages EXCEPT ![a].active = FALSE]
       /\ turn' = [turn EXCEPT ![r].prompted = LastUser,
                     ![r].parent = IF a = 0 THEN 0 ELSE messages[a].parent]
    /\ Goto(r, "t2")
    /\ UNCHANGED <<exists, summaries, active, jobs, restarts>>

\* T1 raises: no such session, no usable model configuration, or a prompt that
\* does not fit.  Nothing of it is committed.
RollBackTurn(r) ==
    /\ pc[r] = "t1"
    /\ End(r)
    /\ UNCHANGED <<exists, messages, summaries, jobs, restarts>>

\* T2: the tokens of ChatEngine.stream() were buffered and sent.
StreamEnds(r) ==
    /\ pc[r] = "t2"
    /\ Goto(r, "t3")
    /\ UNCHANGED <<exists, messages, summaries, active, turn, jobs, restarts>>

\* The stream raises an AppError.
ProviderFails(r) ==
    /\ pc[r] = "t2"
    /\ Goto(r, "partial")
    /\ UNCHANGED <<exists, messages, summaries, active, turn, jobs, restarts>>

\* The client leaves while an event is sent, in T2 or between T3 and T4, or the
\* stream raises something else: `except AppError' does not see it.
StreamIsLost(r) ==
    /\ pc[r] \in {"t2", "t4"}
    /\ End(r)
    /\ UNCHANGED <<exists, messages, summaries, jobs, restarts>>

Answer(r, status) ==
    [role |-> "assistant", parent |-> turn[r].parent, active |-> TRUE,
     status |-> status, tokens |-> 1, prompted |-> turn[r].prompted]

\* The answer is stored as partial, an empty one too, and the stream ends with
\* an error event.
PersistPartial(r) ==
    /\ pc[r] = "partial"
    /\ messages' = Append(messages, Answer(r, "partial"))
    /\ End(r)
    /\ UNCHANGED <<exists, summaries, jobs, restarts>>

\* Fault: T3 is inside the try, and a failure after its commit stores the
\* answer again.
PersistCompleteFault(r) ==
    /\ pc[r] = "t3"
    /\ messages' = Append(messages, Answer(r, "complete"))
    /\ \E label \in {"t4", "partial"} : Goto(r, label)
    /\ turn' = [turn EXCEPT ![r].answer = Len(messages')]
    /\ UNCHANGED <<exists, summaries, active, jobs, restarts>>

\* T3
PersistComplete(r) ==
    /\ pc[r] = "t3"
    /\ messages' = Append(messages, Answer(r, "complete"))
    /\ Goto(r, "t4")
    /\ turn' = [turn EXCEPT ![r].answer = Len(messages')]
    /\ UNCHANGED <<exists, summaries, active, jobs, restarts>>

\* T3 raises: _persist_assistant() rolls back and the answer is gone.
PersistFails(r) ==
    /\ pc[r] \in {"partial", "t3"}
    /\ End(r)
    /\ UNCHANGED <<exists, messages, summaries, jobs, restarts>>

\* T4: _maybe_enqueue_summary()
MaybeEnqueue(r) ==
    /\ pc[r] = "t4"
    /\ \E prev \in LatestSummaries :
         IF NeedsSummary(prev) THEN Enqueue(turn[r].answer) ELSE UNCHANGED jobs
    /\ End(r)
    /\ UNCHANGED <<exists, messages, summaries, restarts>>

\* force_summarize()
ForceSummarize(r) ==
    /\ Arrives(r) /\ exists
    /\ Enqueue(0)
    /\ Goto(r, "ended")
    /\ UNCHANGED <<exists, messages, summaries, active, turn, restarts>>

-----------------------------------------------------------------------------
(* Jobs *)

UnchangedByJobs == UNCHANGED <<exists, messages, active, pc, turn, restarts>>

\* maybe_summarize(): the latest summary is read, ...
ReadSummary(k) ==
    /\ jobs[k].state = "queued"
    /\ \E prev \in LatestSummaries :
         jobs' = [jobs EXCEPT ![k].state = "reading", ![k].prev = prev]
    /\ UNCHANGED summaries /\ UnchangedByJobs

\* ... then the messages after it.  Without one there is nothing to do.
ReadMessages(k) ==
    /\ jobs[k].state = "reading"
    /\ LET found == Unsummarized(jobs[k].prev) IN
       jobs' = IF found = {}
               THEN [jobs EXCEPT ![k].state = "over"]
               ELSE [jobs EXCEPT ![k].state = "calling", ![k].last = Newest(found)]
    /\ UNCHANGED summaries /\ UnchangedByJobs

\* The summarizer answered: the row is inserted and committed.
InsertSummary(k) ==
    /\ jobs[k].state = "calling"
    /\ summaries' = Append(summaries,
         [version |-> jobs[k].prev.version + 1, cover |-> jobs[k].last])
    /\ jobs' = [jobs EXCEPT ![k].state = "over"]
    /\ UnchangedByJobs

\* Fault: a failed attempt is not counted.
JobFailsFault(k) ==
    /\ jobs[k].state \in {"reading", "calling"}
    /\ jobs' = [jobs EXCEPT ![k] = [NoJob EXCEPT !.state = "queued"]]
    /\ UNCHANGED summaries /\ UnchangedByJobs

\* The handler raises; _run() tries again after a pause, max_retries times.
JobFails(k) ==
    /\ jobs[k].state \in {"reading", "calling"}
    /\ LET attempt == jobs[k].attempt + 1 IN
       jobs' = [jobs EXCEPT ![k] =
                  [NoJob EXCEPT !.attempt = attempt,
                     !.state = IF attempt > MaxRetries THEN "over" ELSE "queued"]]
    /\ UNCHANGED summaries /\ UnchangedByJobs

-----------------------------------------------------------------------------

\* The process dies and is started again: its requests, its queue and its
\* locks are gone, the rows stay.
Restart ==
    /\ restarts < MaxRestarts
    /\ restarts' = restarts + 1
    /\ active' = FALSE
    /\ pc' = [r \in Requests |-> IF pc[r] = "new" THEN "new" ELSE "ended"]
    /\ turn' = [r \in Requests |-> NoTurn]
    /\ jobs' = [k \in Keys |-> NoJob]
    /\ UNCHANGED <<exists, messages, summaries>>

RequestStep(r) ==
    \/ \E op \in Ops : Accept(r, op)
    \/ Conflict(r) \/ StoreUserMessage(r) \/ HideLastAnswer(r) \/ RollBackTurn(r)
    \/ StreamEnds(r) \/ ProviderFails(r) \/ StreamIsLost(r)
    \/ PersistPartial(r) \/ PersistComplete(r) \/ PersistFails(r)
    \/ MaybeEnqueue(r) \/ ForceSummarize(r)

JobStep(k) ==
    ReadSummary(k) \/ ReadMessages(k) \/ InsertSummary(k) \/ JobFails(k)

Next ==
    \/ \E greeting \in BOOLEAN : CreateSession(greeting)
    \/ \E r \in Requests : RequestStep(r)
    \/ \E k \in Keys : JobStep(k)
    \/ Restart

Spec == Init /\ [][Next]_vars

\* A turn goes on except while it waits for its provider: the adapters stream
\* with timeout=None.  The call of a summary is bounded (timeout=60), and the
\* event loop goes on with some task of the queue.
TurnStep(r) == pc[r] \notin {"new", "t2"} /\ RequestStep(r)

FairSpec ==
    /\ Spec
    /\ WF_vars(\E r \in Requests : TurnStep(r))
    /\ WF_vars(\E k \in Keys : JobStep(k))

-----------------------------------------------------------------------------
(* Properties *)

\* However turns, regenerations, failures and restarts interleave, no user
\* message has two visible answers: one answer is stored per stream, and a
\* regeneration hides the one it replaces.  Both rest on _active_streams.
OneAnswerPerMessage ==
    \A u \in 1 .. Len(messages) : \A i, j \in DOMAIN messages :
        (/\ messages[i].parent = u /\ messages[j].parent = u
         /\ messages[i].active /\ messages[j].active) => i = j

\* Every answer, visible or hidden, stands behind the message whose text it
\* answers and before the next user message.  Behind a visible answer nothing is
\* filed at or before it: it is the newest of its message, and no other message
\* between the two has a visible answer.  The message it is filed under may be
\* an earlier one than the one it answers: regenerate() takes it from the answer
\* it hides, and the newest turn may have lost its own.
AnswersInOrder ==
    \A a, b \in DOMAIN messages : messages[a].role = "assistant" =>
        /\ messages[a].prompted < a
        /\ messages[b].role = "user" => b <= messages[a].prompted \/ a < b
        /\ (/\ messages[a].active /\ messages[b].role = "assistant"
            /\ a < b) => a < messages[b].parent

\* However many jobs of the chat run at once, every summary continues one of the
\* version before and covers more messages than that one.
SummariesExtend ==
    \A k \in DOMAIN summaries :
        summaries[k].version > 1 =>
            \E l \in 1 .. (k - 1) :
                /\ summaries[l].version = summaries[k].version - 1
                /\ summaries[l].cover < summaries[k].cover

\* Whatever ends a stream, the session can be written to again: only a stream
\* that waits for its provider forever keeps it closed.
SessionReopens == []<>~active \/ <>[](\E r \in Requests : pc[r] = "t2")

\* Every summary job ends, with a summary or after its last retry.
QueueDrains == <>[](\A k \in Keys : jobs[k].state \in {"unseen", "over"})

=============================================================================
