------------------------ MODULE ChapterContinuation ------------------------
(***************************************************************************)
(* The text of one chapter (services/novel_service.py): AI continuations   *)
(* that stream a segment and append it, the captures that keep each        *)
(* segment for later comparison, and the author's saves.                   *)
(*                                                                         *)
(* A continuation holds no transaction while it streams.  It settles the   *)
(* captures before it in one transaction, streams, and appends in another. *)
(* Between any two of its statements other requests run, in the same       *)
(* worker process or in another one.                                       *)
(*                                                                         *)
(* A text is a sequence of pieces: a word or a character of white space.   *)
(* <<r, i>> is the word that continuation r streamed as its i-th piece,    *)
(* <<s, 0>> a word of the author.  content_doc is the same text as nodes.  *)
(* Word counts, titles and summaries are left out.                         *)
(*                                                                         *)
(* RowLocking is TRUE on PostgreSQL.  On SQLite FOR UPDATE is ignored; a   *)
(* transaction writes between its first UPDATE and its COMMIT, which here  *)
(* are one step, so its write lock needs no variable.                      *)
(***************************************************************************)
EXTENDS Naturals, Sequences, FiniteSetsExt

CONSTANTS
    Streams,    \* continuation requests; each is made at most once
    Saves,      \* saves of the author; each is made at most once
    Workers,    \* server processes, each with its own _active_continue
    None,       \* "no value"
    RowLocking, \* PostgreSQL or SQLite
    MaxTokens,  \* bound: pieces of one stream
    Texts       \* what clients write: any texts, with whatever words

Blank == <<None, 0>>    \* a character of white space
Pieces == (Streams \X (1 .. MaxTokens)) \cup (Saves \X {0}) \cup {Blank}

ASSUME ChapterAssumption ==
    /\ Streams \cap Saves = {}
    /\ None \notin Streams \cup Saves \cup Workers
    /\ None \notin Seq(Pieces)
    /\ RowLocking \in BOOLEAN
    /\ MaxTokens \in Nat
    /\ Texts \subseteq Seq(Pieces)

VARIABLES
    \* the committed chapters row
    exists,     \* FALSE once it is deleted
    text,       \* content_text
    doc,        \* content_doc
    version,    \* version
    captures,   \* its edit_diff_captures rows, in order of sequence
    \* requests
    pc,         \* the next statement of each request, or how it ended
    mem,        \* what its session loaded
    body,       \* the PATCH body of a save
    buffer,     \* what a continuation has streamed so far
    worker,     \* the worker whose _active_continue a continuation is in
    rowLock,    \* the request that locked the chapters row
    settleFailed \* history: some settle pass failed

Reqs == Streams \cup Saves

row == <<exists, text, doc, version, captures>>
vars == <<row, pc, mem, body, buffer, worker, rowLock, settleFailed>>

-----------------------------------------------------------------------------
(* Data *)

Ended == {"done", "refused", "error", "gone"}

PCs == {"new", "editing", "write", "prepare", "settle", "settling",
        "stream", "append", "merge"} \cup Ended

NoMem == [text |-> <<>>, doc |-> <<>>, version |-> 0, pending |-> {},
          partial |-> FALSE]

NoBody == [text |-> <<>>, doc |-> <<>>, version |-> 0]

\* Where a text is not white space.
WordsOf(t) == {i \in DOMAIN t : t[i] # Blank}

\* rstrip() and strip()
RStrip(t) == IF WordsOf(t) = {} THEN <<>> ELSE SubSeq(t, 1, Max(WordsOf(t)))

Strip(t) ==
    IF WordsOf(t) = {} THEN <<>> ELSE SubSeq(t, Min(WordsOf(t)), Max(WordsOf(t)))

\* The empty line between a text and what is put behind it.
Separator(t) == IF t = <<>> THEN <<>> ELSE <<Blank, Blank>>

Unsettled(k) == captures[k].after = None

\* Fault: the settle pass does not look at settled_at.
PendingFault == DOMAIN captures

\* list_unsettled_for_chapter()
Pending == {k \in DOMAIN captures : Unsettled(k)}

\* Fault: the offset is measured in the merged text.
CaptureFault(r) ==
    [segment |-> buffer[r], offset |-> Len(mem[r].text \o buffer[r]),
     version |-> mem[r].version + 1, partial |-> mem[r].partial, after |-> None]

\* capture_chapter_continuation(): the row for what r streamed, unstripped, with
\* insert_offset, the length of the text that was loaded.
Capture(r) ==
    [segment |-> buffer[r], offset |-> Len(mem[r].text),
     version |-> mem[r].version + 1, partial |-> mem[r].partial, after |-> None]

\* An assignment on a loaded row is an UPDATE of that column only if the value
\* differs from the loaded one.
Assign(loaded, new, current) == IF new = loaded THEN current ELSE new

CanLock(r) == RowLocking => rowLock \in {None, r}

\* Fault: the chapter is loaded without FOR UPDATE.
TakeLockFault(r) == UNCHANGED rowLock

TakeLock(r) == rowLock' = IF RowLocking THEN r ELSE rowLock

\* COMMIT or ROLLBACK.
FreeLock(r) == rowLock' = IF rowLock = r THEN None ELSE rowLock

Goto(r, label) == pc' = [pc EXCEPT ![r] = label]

\* Fault: a cancelled continuation stays in _active_continue.
EndFault(r, how) ==
    /\ Goto(r, how)
    /\ mem' = [mem EXCEPT ![r] = NoMem]
    /\ worker' = IF how = "gone" THEN worker ELSE [worker EXCEPT ![r] = None]
    /\ FreeLock(r)

\* The request ends; the finally of continue_chapter() leaves _active_continue.
End(r, how) ==
    /\ Goto(r, how)
    /\ mem' = [mem EXCEPT ![r] = NoMem]
    /\ worker' = [worker EXCEPT ![r] = None]
    /\ FreeLock(r)

-----------------------------------------------------------------------------
\* create_chapter(), with no text or the one it was given.
Init ==
    /\ exists = TRUE
    /\ text \in Texts \cup {<<>>} /\ doc = text /\ version = 1
    /\ captures = <<>>
    /\ pc = [r \in Reqs |-> "new"]
    /\ mem = [r \in Reqs |-> NoMem]
    /\ body = [s \in Saves |-> NoBody]
    /\ buffer = [r \in Streams |-> <<>>]
    /\ worker = [r \in Streams |-> None]
    /\ rowLock = None
    /\ settleFailed = FALSE

-----------------------------------------------------------------------------
(* Continuations *)

Generating(w) == \E r \in Streams : worker[r] = w

\* Fault: the in-process guard is not checked.
AdmittedFault(w) == TRUE

Admitted(w) == ~Generating(w)

\* continue_chapter()
StartContinue(r, w) ==
    /\ pc[r] = "new"
    /\ IF Admitted(w)
       THEN /\ Goto(r, "prepare")
            /\ worker' = [worker EXCEPT ![r] = w]
       ELSE /\ Goto(r, "refused")
            /\ UNCHANGED worker
    /\ UNCHANGED <<row, mem, body, buffer, rowLock, settleFailed>>

\* The prompt is assembled from a snapshot, or the request is refused.
Prepare(r) ==
    /\ pc[r] = "prepare"
    /\ \/ /\ exists
          /\ Goto(r, "settle")
          /\ UNCHANGED <<mem, worker, rowLock>>
       \/ End(r, "error")
    /\ UNCHANGED <<row, body, buffer, settleFailed>>

\* _settle_chapter_captures(): the locked load of the chapter and the SELECT of
\* its unsettled captures.  A chapter that is gone is only logged.
SettleLoad(r) ==
    /\ pc[r] = "settle"
    /\ CanLock(r)
    /\ IF exists
       THEN /\ TakeLock(r)
            /\ mem' = [mem EXCEPT ![r].text = text,
                                  ![r].pending = Pending]
            /\ Goto(r, "settling")
       ELSE Goto(r, "stream") /\ UNCHANGED <<mem, rowLock>>
    /\ UNCHANGED <<row, body, buffer, worker, settleFailed>>

\* Its COMMIT: the UPDATEs go by the primary keys of the captures loaded.
SettleCommit(r) ==
    /\ pc[r] = "settling"
    /\ captures' = [k \in DOMAIN captures |->
                       IF k \in mem[r].pending
                       THEN [captures[k] EXCEPT !.after = mem[r].text]
                       ELSE captures[k]]
    /\ Goto(r, "stream")
    /\ FreeLock(r)
    /\ UNCHANGED <<exists, text, doc, version, mem, body, buffer, worker, settleFailed>>

\* Best effort: any failure of it is logged and the continuation goes on.
SettleFail(r) ==
    /\ pc[r] \in {"settle", "settling"}
    /\ Goto(r, "stream")
    /\ FreeLock(r)
    /\ settleFailed' = TRUE
    /\ UNCHANGED <<row, mem, body, buffer, worker>>

\* A delta of the provider, a word or white space.
Token(r) ==
    /\ pc[r] = "stream"
    /\ Len(buffer[r]) < MaxTokens
    /\ \E piece \in {<<r, Len(buffer[r]) + 1>>, Blank} :
          buffer' = [buffer EXCEPT ![r] = Append(@, piece)]
    /\ UNCHANGED <<row, pc, mem, body, worker, rowLock, settleFailed>>

\* The provider finishes its answer.
StreamDone(r) ==
    /\ pc[r] = "stream"
    /\ Goto(r, "append")
    /\ UNCHANGED <<row, mem, body, buffer, worker, rowLock, settleFailed>>

\* The provider fails: what it wrote so far is appended all the same.
StreamFail(r) ==
    /\ pc[r] = "stream"
    /\ IF buffer[r] # <<>>
       THEN /\ Goto(r, "append")
            /\ mem' = [mem EXCEPT ![r].partial = TRUE]
            /\ UNCHANGED <<worker, rowLock>>
       ELSE End(r, "error")
    /\ UNCHANGED <<row, body, buffer, settleFailed>>

\* _append_chapter(): the locked load of the chapter ...
AppendLoad(r) ==
    /\ pc[r] = "append"
    /\ CanLock(r)
    /\ IF exists
       THEN /\ TakeLock(r)
            /\ mem' = [mem EXCEPT ![r].text = text, ![r].doc = doc,
                                  ![r].version = version]
            /\ Goto(r, "merge")
            /\ UNCHANGED worker
       ELSE End(r, "error")
    /\ UNCHANGED <<row, body, buffer, settleFailed>>

\* An empty buffer is not captured.
MergeCapture(r) ==
    captures' = IF buffer[r] = <<>> THEN captures ELSE Append(captures, Capture(r))

Merged(r) == Strip(mem[r].text \o Separator(mem[r].text) \o buffer[r])

\* ... and its UPDATE, the capture and the COMMIT.  The next sequence number is
\* read after the UPDATE was flushed, so under the row lock (PostgreSQL) or the
\* write lock (SQLite).  An UPDATE that finds no row fails.
Merge(r) ==
    /\ pc[r] = "merge"
    /\ IF exists
       THEN /\ text' = Assign(mem[r].text, Merged(r), text)
            /\ doc' = Assign(mem[r].doc, Merged(r), doc)
            /\ version' = mem[r].version + 1
            /\ MergeCapture(r)
            /\ End(r, IF mem[r].partial THEN "error" ELSE "done")
       ELSE /\ End(r, "error")
            /\ UNCHANGED <<text, doc, version, captures>>
    /\ UNCHANGED <<exists, body, buffer, settleFailed>>

\* The client closes the stream.  The generator is cancelled, which is no
\* Exception of _continue_impl(): nothing is appended.
Disconnect(r) ==
    /\ pc[r] \in {"prepare", "settle", "settling", "stream", "append", "merge"}
    /\ End(r, "gone")
    /\ UNCHANGED <<row, body, buffer, settleFailed>>

\* A statement of the append, its capture included, fails: all is rolled back.
AppendFail(r) ==
    /\ pc[r] \in {"append", "merge"}
    /\ End(r, "error")
    /\ UNCHANGED <<row, body, buffer, settleFailed>>

-----------------------------------------------------------------------------
(* The author *)

\* A client loads the chapter and sends a PATCH: any text, any document or both;
\* a document that is left out is made from the text.
Open(s) ==
    /\ pc[s] = "new"
    /\ exists
    /\ \E t, d \in Texts \cup {None} :
          body' = [body EXCEPT ![s] = [text |-> t, doc |-> IF d = None THEN t ELSE d,
                                       version |-> version]]
    /\ Goto(s, "editing")
    /\ UNCHANGED <<row, mem, buffer, worker, rowLock, settleFailed>>

VersionMatches(s) == exists /\ body[s].version = version

\* update_chapter(): a plain load and the comparison of the versions ...
SaveLoad(s) ==
    /\ pc[s] = "editing"
    /\ IF VersionMatches(s)
       THEN /\ mem' = [mem EXCEPT ![s].text = text, ![s].doc = doc,
                                  ![s].version = version]
            /\ Goto(s, "write")
            /\ UNCHANGED <<worker, rowLock>>
       ELSE /\ Goto(s, "refused")
            /\ UNCHANGED <<mem, worker, rowLock>>
    /\ UNCHANGED <<row, body, buffer, settleFailed>>

\* A field of the body, or what was loaded.
Patched(field, loaded) == IF field = None THEN loaded ELSE field

\* ... and, without a lock in between, its UPDATE by primary key.
SaveWrite(s) ==
    /\ pc[s] = "write"
    /\ CanLock(s)
    /\ IF exists
       THEN /\ text' = Assign(mem[s].text, Patched(body[s].text, mem[s].text), text)
            /\ doc' = Assign(mem[s].doc, Patched(body[s].doc, mem[s].doc), doc)
            /\ version' = mem[s].version + 1
            /\ Goto(s, "done")
       ELSE Goto(s, "error") /\ UNCHANGED <<text, doc, version>>
    /\ UNCHANGED <<exists, captures, mem, body, buffer, worker, rowLock, settleFailed>>

\* delete_chapter(); the captures go with the row (ON DELETE CASCADE).
Delete ==
    /\ exists
    /\ rowLock = None
    /\ exists' = FALSE
    /\ captures' = <<>>
    /\ UNCHANGED <<text, doc, version, pc, mem, body, buffer, worker, rowLock,
                   settleFailed>>

-----------------------------------------------------------------------------
StreamStep(r) ==
    \/ Prepare(r) \/ SettleLoad(r) \/ SettleCommit(r)
    \/ StreamDone(r) \/ AppendLoad(r) \/ Merge(r)

StreamFault(r) ==
    SettleFail(r) \/ StreamFail(r) \/ Disconnect(r) \/ AppendFail(r)

SaveStep(s) == SaveLoad(s) \/ SaveWrite(s)

Next ==
    \/ \E r \in Streams :
          \/ \E w \in Workers : StartContinue(r, w)
          \/ StreamStep(r) \/ Token(r) \/ StreamFault(r)
    \/ \E s \in Saves : Open(s) \/ SaveStep(s)
    \/ Delete

Spec == Init /\ [][Next]_vars

\* A request under way runs on: the server sends its next statement, and a lock
\* is freed in the end and then granted.  Nothing ends the wait for a provider:
\* the adapters stream with timeout=None.
Fairness ==
    /\ \A r \in Streams : WF_vars(pc[r] # "stream" /\ StreamStep(r))
    /\ \A s \in Saves : WF_vars(SaveStep(s))

FairSpec == Spec /\ Fairness

-----------------------------------------------------------------------------
(* Properties *)

TypeOK ==
    /\ exists \in BOOLEAN
    /\ text \in Seq(Pieces) /\ doc \in Seq(Pieces)
    /\ version \in Nat \ {0}
    /\ \A k \in DOMAIN captures :
          /\ captures[k].segment \in Seq(Pieces) /\ captures[k].segment # <<>>
          /\ captures[k].offset \in Nat /\ captures[k].version \in Nat
          /\ captures[k].partial \in BOOLEAN
          /\ ~Unsettled(k) => captures[k].after \in Seq(Pieces)
    /\ pc \in [Reqs -> PCs]
    /\ buffer \in [Streams -> Seq(Pieces)]
    /\ worker \in [Streams -> Workers \cup {None}]
    /\ rowLock \in Reqs \cup {None}

\* Where in the text what c captured begins: behind the separator, which the
\* offset does not count.
Start(c) == IF c.offset = 0 THEN 0 ELSE c.offset + 2

\* What of a captured segment strip() leaves in the chapter.
Kept(c) == IF c.offset = 0 THEN Strip(c.segment) ELSE RStrip(c.segment)

\* Where it ends.  Of white space alone nothing is kept, not even the separator.
EndOf(c) == IF Kept(c) = <<>> THEN c.offset ELSE Start(c) + Len(Kept(c))

\* A chapter that only the AI writes is its captured segments with empty lines
\* in between: from the offset of a capture its segment can be found again, the
\* next one begins where it ends, and the last one ends the text.  So no segment
\* is lost, doubled, out of order or merged without a capture, whichever worker
\* appended it and whether its stream failed.
CapturesTile ==
    exists =>
        /\ captures = <<>> => text = <<>>
        /\ captures # <<>> => captures[1].offset = 0
        /\ \A k \in DOMAIN captures :
              LET c == captures[k] IN
              /\ c.segment # <<>>
              /\ SubSeq(text, Start(c) + 1, Start(c) + Len(Kept(c))) = Kept(c)
              /\ IF k = Len(captures)
                 THEN EndOf(c) = Len(text)
                 ELSE /\ EndOf(c) = captures[k + 1].offset
                      /\ c.version < captures[k + 1].version

\* A version number names one text: a step that changes the text moves it on.
VersionAdvances ==
    [][exists' /\ <<text, doc>>' # <<text, doc>> => version' = version + 1]_vars

\* The after-side of a capture is written once.
SettledOnce ==
    [][\A k \in DOMAIN captures \cap DOMAIN captures' :
          ~Unsettled(k) => captures'[k].after = captures[k].after]_vars

\* The after-side of a capture is the chapter as it is when it is settled: no
\* save and no other continuation slips in between the read and the commit.
SettledWithChapter ==
    [][\A k \in DOMAIN captures \cap DOMAIN captures' :
          Unsettled(k) /\ captures'[k].after # None => captures'[k].after = text]_vars

\* edit-diff-capture-design.md:411, :730: an unsettled capture of a chapter that
\* has received a later continuation means that the settle path failed.
UnsettledIsLast ==
    \A k \in DOMAIN captures : Unsettled(k) /\ k < Len(captures) => settleFailed

\* The append goes to the latest chapter (novel_service.py:535): what a
\* continuation commits is the text as it is committed, whatever saves ran while
\* it streamed, then a separator and what it streamed; it files the capture of
\* exactly that, partial if its stream failed, and none if it streamed nothing.
AppendsToLatest ==
    [][\A r \in Streams : pc[r] = "merge" /\ version' # version /\ pc'[r] # "merge" =>
          /\ text' = Strip(text \o Separator(text) \o buffer[r])
          /\ version' = version + 1
          /\ captures' =
                IF buffer[r] = <<>> THEN captures
                ELSE Append(captures,
                            [segment |-> buffer[r], offset |-> Len(text),
                             version |-> version', partial |-> pc'[r] = "error",
                             after |-> None])]_vars

\* requirements.md AC-NOVEL-7: when a save and a continuation race, the version
\* detects it: an accepted save replaces no text but the one whose version it
\* compared.
NothingOverwritten ==
    [][\A s \in Saves : pc[s] = "write" /\ pc'[s] = "done" /\ text' # text =>
          text = mem[s].text]_vars

\* However a continuation ends, its chapter leaves _active_continue and can be
\* continued again, unless the provider never ends its answer.
ContinuationsEnd ==
    \A r \in Streams : <>[](worker[r] = None \/ pc[r] = "stream")

=============================================================================
