------------------------------ MODULE StoryOrder ------------------------------
(***************************************************************************)
(* The order of the chapters of one work, edited while one continuation    *)
(* reads it (services/novel_service.py, story_order_snapshot.py,           *)
(* story_summary_chronology.py, entry_service.py).                         *)
(*                                                                         *)
(* chapters.index is unique per work and need not be contiguous.  Editors  *)
(* read it and write it back in a later statement, with no lock between:   *)
(* the reads of a request and its commit are two steps.  The commit is one *)
(* step: rows are updated in the order of their primary keys, so the first *)
(* row two writers share makes the second wait for the first's commit.     *)
(*                                                                         *)
(* Chapters are their primary keys: 1 .. NumChapters in key order (uuids,  *)
(* so in no relation to creation order).  Index 0 is an absent chapter.    *)
(***************************************************************************)
EXTENDS Naturals, Sequences, FiniteSets, Functions

CONSTANTS
    NumChapters,    \* bound: primary keys
    MaxEdits,       \* bound: editing requests
    Offset,         \* what the first phase of a reorder adds (100000)
    MaxEntries      \* bound: story.summary entries among the candidates

ASSUME StoryOrderAssumption ==
    /\ NumChapters \in Nat \ {0} /\ MaxEdits \in Nat /\ MaxEntries \in Nat
    /\ Offset \in Nat /\ Offset > NumChapters + MaxEdits

VARIABLES
    index,          \* chapters.index
    legacy,         \* chapters.summary has substance: nothing writes it any more
    edit,           \* the editing requests
    gen             \* the continuation

vars == <<index, legacy, edit, gen>>

-----------------------------------------------------------------------------
(* Data *)

Chapters == 1 .. NumChapters

\* Editing requests are numbered in the order in which the server takes them up.
Edits == 1 .. MaxEdits

\* ordered_chapter_ids: any list, with ids that name no chapter and ids named
\* more than once.
Lists == UNION {[1 .. n -> Chapters] : n \in 0 .. NumChapters}

\* What an editing request holds between its reads and its commit.
Idle == [pc |-> "new", op |-> "none", ids |-> <<>>, read |-> [c \in Chapters |-> 0],
         top |-> 0]

Order == [index |-> index, legacy |-> legacy]

NoGen == [pc |-> "new", target |-> 1,
          snap |-> [index |-> [c \in Chapters |-> 0], legacy |-> [c \in Chapters |-> FALSE]],
          priors |-> <<>>, context |-> <<>>]

Existing(ix) == {c \in Chapters : ix[c] # 0}

Top(ix) == IF Existing(ix) = {} THEN 0
           ELSE CHOOSE n \in {ix[c] : c \in Chapters} : \A c \in Chapters : ix[c] <= n

\* uq_chapter_work_index
Unique(ix) == Cardinality({ix[c] : c \in Existing(ix)}) = Cardinality(Existing(ix))

\* The lists of a set of numbered things, each once, by number.
InStoryOrder(S) ==
    {s \in [1 .. Cardinality(S) -> S] :
       /\ \A n \in DOMAIN s : \A m \in 1 .. (n - 1) : s[m][1] <= s[n][1]
       /\ IsInjective(s) /\ Range(s) = S}

\* A work whose chapters were created one after the other.  One of them has
\* a summary from before; any order of the keys makes it any chapter.
Init ==
    /\ \E made \in {s \in Lists : IsInjective(s)} :
         index = [c \in Chapters |->
                    IF \E n \in DOMAIN made : made[n] = c
                    THEN CHOOSE n \in DOMAIN made : made[n] = c ELSE 0]
    /\ legacy = [c \in Chapters |-> c = 1 /\ c \in Existing(index)]
    /\ edit = [e \in Edits |-> Idle]
    /\ gen = NoGen

-----------------------------------------------------------------------------
(* Editors *)

Arrives(e) == edit[e].pc = "new" /\ \A f \in 1 .. (e - 1) : edit[f].pc # "new"

\* The request ends and its session is closed.
End(e, result) == edit' = [edit EXCEPT ![e] = [Idle EXCEPT !.pc = result]]

\* create_chapter(): _next_index() reads the highest index ...
CreateRead(e) ==
    /\ Arrives(e)
    /\ edit' = [edit EXCEPT ![e] = [Idle EXCEPT !.pc = "read", !.op = "create",
                                                !.top = Top(index)]]
    /\ UNCHANGED <<index, legacy, gen>>

\* A fresh uuid names no chapter that a request in progress has seen.
FreshKeys ==
    {c \in Chapters \ Existing(index) :
       gen.snap.index[c] = 0 /\ \A e \in Edits : edit[e].read[c] = 0}

\* ... and the insert uses the next one, or breaks uq_chapter_work_index.
CreateWrite(e) ==
    /\ edit[e].pc = "read" /\ edit[e].op = "create"
    /\ \E c \in FreshKeys :
         LET written == [index EXCEPT ![c] = edit[e].top + 1] IN
           /\ index' = IF Unique(written) THEN written ELSE index
           /\ End(e, IF Unique(written) THEN "ok" ELSE "failed")
    /\ UNCHANGED <<legacy, gen>>

\* reorder_chapters(): the rows of the work are read ...
ReorderRead(e) ==
    /\ Arrives(e)
    /\ \E ids \in Lists :
         edit' = [edit EXCEPT ![e] = [Idle EXCEPT !.pc = "read", !.op = "reorder",
                                                  !.ids = ids, !.read = index]]
    /\ UNCHANGED <<index, legacy, gen>>

\* The rows a reorder writes: those it read, unless they are gone.
Rows(e) == Existing(edit[e].read) \cap Existing(index)

\* The indexes after the first phase has reached the rows up to `last'.
Shifted(e, last) ==
    LET rows == Rows(e) IN
      [c \in Chapters |-> IF c <= last /\ c \in rows
                          THEN edit[e].read[c] + Offset ELSE index[c]]

\* The last position of c in a list, 0 if it is not listed.
Place(ids, c) ==
    IF \A n \in DOMAIN ids : ids[n] # c THEN 0
    ELSE CHOOSE n \in DOMAIN ids :
           ids[n] = c /\ \A m \in (n + 1) .. Len(ids) : ids[m] # c

\* The rows that the second phase writes.
Listed(e) == {c \in Rows(e) : Place(edit[e].ids, c) # 0}

\* Fault: positions are counted from the end of the list.
AssignedFault(e) ==
    LET listed == Listed(e) IN
      [c \in Chapters |-> IF c \in listed
                          THEN Len(edit[e].ids) + 1 - Place(edit[e].ids, c)
                          ELSE Shifted(e, NumChapters)[c]]

\* The indexes after the second phase: a listed row has its position.
Assigned(e) ==
    LET listed == Listed(e) IN
      [c \in Chapters |-> IF c \in listed THEN Place(edit[e].ids, c)
                          ELSE Shifted(e, NumChapters)[c]]

\* Each UPDATE must leave the indexes unique.
Writable(e) ==
    /\ \A last \in Chapters : Unique(Shifted(e, last))
    /\ Unique(Assigned(e))

\* ... then offset in one flush and assigned in the next.  Any failing UPDATE
\* rolls the request back.  A row that is gone by then may or may not fail it:
\* the database interface counts the rows of a single UPDATE, not of several
\* sent together.
ReorderWrite(e) ==
    /\ edit[e].pc = "read" /\ edit[e].op = "reorder"
    /\ LET writable == Writable(e) IN
         \/ /\ writable
            /\ index' = Assigned(e)
            /\ End(e, "ok")
         \/ /\ ~writable \/ Rows(e) # Existing(edit[e].read)
            /\ index' = index
            /\ End(e, "failed")
    /\ UNCHANGED <<legacy, gen>>

\* delete_chapter(): the others keep their indexes.
Delete(e) ==
    /\ Arrives(e)
    /\ \E c \in Existing(index) :
         /\ index' = [index EXCEPT ![c] = 0]
         /\ legacy' = [legacy EXCEPT ![c] = FALSE]
    /\ End(e, "ok")
    /\ UNCHANGED gen

-----------------------------------------------------------------------------
(* The continuation *)

\* Fault: the transaction of the continuation is READ COMMITTED.
ViewFault == Order

\* begin_story_order_snapshot(): what every query of the continuation sees.
View == gen.snap

\* The session begins with the snapshot and loads the target chapter.
Begin ==
    /\ gen.pc = "new"
    /\ \E t \in Existing(index) :
         gen' = [gen EXCEPT !.pc = "priors", !.target = t, !.snap = Order]
    /\ UNCHANGED <<index, legacy, edit>>

\* The index of the target as it was loaded.
Target == gen.snap.index[gen.target]

PriorLegacy ==
    {c \in Existing(View.index) : View.index[c] < Target /\ View.legacy[c]}

\* _build_story_context(): legacy summaries of the chapters before the target,
\* each with its index.
ReadPriors ==
    /\ gen.pc = "priors"
    /\ \E priors \in InStoryOrder({<<View.index[c], c>> : c \in PriorLegacy}) :
         gen' = [gen EXCEPT !.pc = "retrieve", !.priors = priors]
    /\ UNCHANGED <<index, legacy, edit>>

\* The story.summary entries among the candidates of a retrieval that pass every
\* check that is not about order (lifecycle, scope, subject, level, provenance,
\* and an owned, live source in this work), as the chapter each is about.
Candidates == UNION {[1 .. n -> Chapters] : n \in 0 .. MaxEntries}

\* classify_chapter_story_position()
Position(source) ==
    LET at == View.index[source] IN
    CASE (source = gen.target) # (at = Target) -> "unknown"
      [] source = gen.target /\ at = Target -> "current"
      [] source # gen.target /\ at < Target -> "prior"
      [] source # gen.target /\ at > Target -> "future"

\* classify_story_summary(), with the evidence of one summary: its chapter may
\* be gone.
Classify(source) ==
    IF View.index[source] = 0 THEN "unknown" ELSE Position(source)

\* Fault: two current summaries of one chapter both stand.
DuplicatedFault(found, n) == FALSE

Duplicated(found, n) ==
    \E m \in DOMAIN found \ {n} :
      found[m] = found[n] /\ Classify(found[m]) = "prior"

\* _apply_story_summary_chronology(): what is left for ranking.
Eligible(found) ==
    {n \in DOMAIN found : /\ Classify(found[n]) = "prior"
                          /\ ~Duplicated(found, n)
                          /\ ~View.legacy[found[n]]}

\* The anchor and the legacy evidence, checked again before retrieval.
Drifted ==
    \/ View.index[gen.target] # Target
    \/ PriorLegacy # {gen.priors[n][2] : n \in DOMAIN gen.priors}

\* _validate_input() of the preparation.
Prepared(context) ==
    \A n \in DOMAIN context : context[n][1] < Target /\ context[n][2] # gen.target

\* load_entry_context(), with the feature off and on, and the preparation.  The
\* entries are any; the budget keeps any of the eligible ones.
Retrieve(on) ==
    /\ gen.pc = "retrieve"
    /\ \E found \in IF on THEN Candidates ELSE {<<>>} :
         \E kept \in SUBSET Eligible(found) :
           \E context \in InStoryOrder(Range(gen.priors)
                \cup {<<View.index[found[n]], found[n], n>> : n \in kept}) :
             gen' = [gen EXCEPT
                 !.pc = IF on /\ Drifted THEN "conflict"
                        ELSE IF Prepared(context) THEN "ready" ELSE "invalid",
                 !.context = IF on /\ Drifted THEN <<>> ELSE context]
    /\ UNCHANGED <<index, legacy, edit>>

-----------------------------------------------------------------------------
(* Specification *)

Next ==
    \/ \E e \in Edits :
         \/ CreateRead(e) \/ CreateWrite(e)
         \/ ReorderRead(e) \/ ReorderWrite(e)
         \/ Delete(e)
    \/ Begin \/ ReadPriors
    \/ \E on \in BOOLEAN : Retrieve(on)

Spec == Init /\ [][Next]_vars

-----------------------------------------------------------------------------
(* Properties *)

\* A reorder that succeeds puts the chapters it lists in the order of the list,
\* before all the others it found, and those stay in their order, whatever was
\* created, deleted or reordered since it read the work.  A chapter listed twice
\* counts where it is listed last; one that is gone counts no more
\* (reorder_chapters).
ReorderObeyed ==
    [][\A e \in Edits :
         (edit[e].pc = "read" /\ edit[e].op = "reorder" /\ edit'[e].pc = "ok") =>
           LET read == edit[e].read
               At(c) == Place(edit[e].ids, c)
           IN \A c, d \in Existing(read) \cap Existing(index') :
                index'[c] < index'[d] <=>
                  \/ At(c) # 0 /\ (At(d) = 0 \/ At(c) < At(d))
                  \/ At(c) = 0 /\ At(d) = 0 /\ read[c] < read[d]
      ]_vars

\* The story a continuation is given is one the author had: every summary is
\* of a chapter that stood before the target, in the order of the chapters, at
\* the one moment the target was loaded, however the work is edited meanwhile
\* (begin_story_order_snapshot, _build_story_context, retrieve).
StoryContextIsPrior ==
    gen.pc = "ready" =>
      LET At(n) == gen.snap.index[gen.context[n][2]] IN
        \A n \in DOMAIN gen.context :
          /\ At(n) \in 1 .. (gen.snap.index[gen.target] - 1)
          /\ \A m \in 1 .. (n - 1) : At(m) <= At(n)

\* No chapter is told twice: neither by two entries, nor by an entry and its
\* own summary field (duplicate_active_chapter_summary,
\* legacy_summary_authority_overlap).
EachChapterToldOnce ==
    \A m, n \in DOMAIN gen.context : gen.context[m][2] = gen.context[n][2] => m = n

\* Editing the work never fails a continuation: the drift checks of the
\* retrieval and the order checks of the preparation hold of any snapshot.
EditsNeverFailContinuation == gen.pc \notin {"conflict", "invalid"}

=============================================================================
