---------------------------- MODULE EntryRetrieval ----------------------------
(***************************************************************************)
(* What a generation keeps of the Entry Store: ranking, selection and the  *)
(* rendering of the selected entries (services/entry_retrieval.py,         *)
(* engines/prompt/entry_context.py, engines/prompt/tokenizer.py).          *)
(*                                                                         *)
(* A candidate is a row of entries as the ranking sees it:                 *)
(*   id, type, status, priority, updated                                   *)
(*   capture     provenance.capture_method                                 *)
(*   confidence  a percentage, None unless the entry was extracted         *)
(*   words       the search terms its title, content or data contains      *)
(*   cast        the characters it is about                                *)
(*   text        its content                                               *)
(*   at          index of the chapter a summary is about; 0 without        *)
(*               chronology evidence                                       *)
(* A request has terms, cast, task, limit and window.                      *)
(* A text is a sequence of wide characters "K" (one token each), narrow    *)
(* ones "x" (CharsPerToken to a token) and spaces "_" (narrow).            *)
(***************************************************************************)
EXTENDS Integers, Sequences, SequencesExt

CONSTANTS
    CharsPerToken,  \* narrow characters to a token (4)
    Heading         \* what rendering puts before a text ("[type] title")

None == 0 - 1

Text == Seq({"K", "x", "_"})

ASSUME TokenAssumption == CharsPerToken \in Nat \ {0} /\ Heading \in Text

\* Rows the ranking may see.
Candidate ==
    [id : Nat, type : STRING, status : STRING, priority : Int, updated : Int, capture : STRING,
     confidence : (0 .. 100) \cup {None}, words : SUBSET STRING, cast : SUBSET STRING,
     text : Text, at : Nat]

-----------------------------------------------------------------------------
(* Tokens *)

Larger(m, n) == IF m < n THEN n ELSE m

Smaller(m, n) == IF m < n THEN m ELSE n

Wide(text) == Cardinality({n \in DOMAIN text : text[n] = "K"})

\* Tokenizer.count()
Count(text) ==
    IF text = <<>> THEN 0
    ELSE Larger(1, Wide(text) + ((Len(text) - Wide(text)) \div CharsPerToken) + 1)

\* The sum of the counts at the places S, one pair for each thing counted.
Total(counts, S) == Cardinality(UNION {{n} \X (1 .. counts[n]) : n \in S})

TextTokens(items) == Total([n \in DOMAIN items |-> Count(items[n].text)], DOMAIN items)

-----------------------------------------------------------------------------
(* Sorting *)

\* Tuples, compared like Python's.
Earlier(p, q) ==
    \E n \in DOMAIN p : p[n] < q[n] /\ \A m \in 1 .. (n - 1) : p[m] = q[m]

\* sorted(), of items paired with their keys, which differ: the item in place n
\* comes after n - 1 others.
Sorted(pairs) ==
    [n \in 1 .. Cardinality(pairs) |->
       (CHOOSE p \in pairs : Cardinality({q \in pairs : Earlier(q[1], p[1])}) = n - 1)[2]]

-----------------------------------------------------------------------------
(* The score, in millionths *)

Million == 1000000

\* _BASE_TYPE_WEIGHT
TypeWeight(type) ==
    CASE type \in {"story.fact", "story.knowledge", "story.promise", "relationship.state"} -> 350000
      [] type \in {"style.preference", "user.preference"} -> 150000
      [] type = "character.behavior" -> 200000
      [] type = "note" -> 0
      [] OTHER -> 250000

\* _TASK_TYPE_BOOST, for the two tasks the program asks for
TaskBoost(type, task) ==
    CASE task = "chat" /\ type = "character.voice" -> 700000
      [] task = "chat" /\ type = "relationship.state" -> 300000
      [] task = "chat" /\ type = "world.fact" -> 200000
      [] type = "character.identity" -> IF task = "chat" THEN 400000 ELSE 250000
      [] task = "scene" /\ type = "story.fact" -> 350000
      [] task = "scene" /\ type = "world.fact" -> 250000
      [] task = "scene"
         /\ type \in {"story.knowledge", "story.promise", "relationship.state"} -> 400000
      [] OTHER -> 0

StatusWeight(status) ==
    CASE status = "canon" -> 250000
      [] status \in {"rejected", "superseded"} -> -250000
      [] OTHER -> 0

\* _confidence_factor(): neutral at one half, for extracted entries alone.
ConfidenceFactor(e) ==
    IF e.capture # "ai-extracted" \/ e.confidence = None THEN 0
    ELSE (e.confidence - 50) * 6000

Applicable(e) ==
    IF e.capture # "ai-extracted" \/ e.confidence = None THEN 50 ELSE e.confidence

\* Fault: the weight of authority is below the confidence bonus.
AuthorityFactorFault(e) ==
    IF e.capture \in {"human-authored", "human-edited"} THEN 290000 ELSE 0

\* _authority_factor(): more than any confidence can add.
AuthorityFactor(e) ==
    IF e.capture \in {"human-authored", "human-edited"} THEN 310000 ELSE 0

KeywordFactor(e, request) ==
    IF request.terms = {} THEN 0
    ELSE (4 * Million * Cardinality(e.words \cap request.terms))
           \div Cardinality(request.terms)

\* _identity_score(): no caller gives a location.
IdentityFactor(e, request) ==
    Smaller(Million, 400000 * Cardinality(e.cast \cap request.cast))

\* Recency is relative to the other candidates; a summary with chronology
\* evidence has none.
RecencyFactor(e, candidates) ==
    LET times == {c.updated : c \in {d \in candidates : d.at = 0}}
        oldest == Min(times)
        newest == Max(times)
    IN IF e.at > 0 \/ oldest = newest THEN 0
       ELSE ((Million \div 2) * (e.updated - oldest)) \div (newest - oldest)

ExemplarFactor(e, request) ==
    IF request.task = "chat" /\ e.type = "character.exemplar" THEN Million ELSE 0

Score(e, request, candidates) ==
    KeywordFactor(e, request) + IdentityFactor(e, request)
      + TypeWeight(e.type) + TaskBoost(e.type, request.task) + StatusWeight(e.status)
      + RecencyFactor(e, candidates) + 10000 * e.priority
      + ConfidenceFactor(e) + AuthorityFactor(e) + ExemplarFactor(e, request)

\* The chapter index of a summary stands in the place of a time.
Chronology(e) == IF e.at > 0 THEN e.at ELSE e.updated

-----------------------------------------------------------------------------
(* Ranking and selection *)

\* The sort key of rank_entries(): score, priority, confidence, chronology,
\* largest first, then the id.
SortKey(e, request, candidates) ==
    <<-Score(e, request, candidates), -e.priority, -Applicable(e), -Chronology(e), e.id>>

\* rank_entries()
Rank(candidates, request) ==
    Sorted({<<SortKey(e, request, candidates), e>> : e \in candidates})

\* Fault: a candidate is weighed alone, not with what is selected already.
WeighFault(chosen, e, limit, budget) ==
    IF Len(chosen.items) >= limit THEN [chosen EXCEPT !.limit = Append(@, e)]
    ELSE IF Count(e.text) > budget THEN [chosen EXCEPT !.budget = Append(@, e)]
    ELSE [chosen EXCEPT !.items = Append(@, e), !.used = @ + Count(e.text)]

\* One turn of select_entries(): once the limit is reached all the rest is
\* rejected; an entry over the budget is skipped, smaller ones after it may fit.
Weigh(chosen, e, limit, budget) ==
    IF Len(chosen.items) >= limit THEN [chosen EXCEPT !.limit = Append(@, e)]
    ELSE IF chosen.used + Count(e.text) > budget THEN [chosen EXCEPT !.budget = Append(@, e)]
    ELSE [chosen EXCEPT !.items = Append(@, e), !.used = @ + Count(e.text)]

\* order_selected_story_summaries(): the summaries change places among
\* themselves, stably by chapter.
OrderSummaries(items) ==
    LET slots == {n \in DOMAIN items : items[n].type = "story.summary"}
        inOrder == Sorted({<<<<items[n].at, n>>, items[n]>> : n \in slots})
        Slot(n) == Cardinality({m \in slots : m <= n})
    IN [n \in DOMAIN items |-> IF n \in slots THEN inOrder[Slot(n)] ELSE items[n]]

-----------------------------------------------------------------------------
(* Rendering and fitting *)

\* render_entry_prompt_text()
Rendered(e) == Heading \o e.text

\* One turn of assemble_entry_context(): whole entries that still fit.
Place(chosen, e, budget) ==
    IF chosen.rendered + Count(Rendered(e)) > budget THEN chosen
    ELSE [chosen EXCEPT !.context = Append(@, e), !.rendered = @ + Count(Rendered(e))]

=============================================================================
