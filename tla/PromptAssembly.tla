---------------------------- MODULE PromptAssembly ----------------------------
(***************************************************************************)
(* One prompt, from the candidates of the Entry Store to the messages the  *)
(* provider is sent (services/provider_resolve.py,                         *)
(* services/entry_generation_context.py, engines/prompt/engine.py,         *)
(* engines/prompt/budget.py).  The resolution of the stored model          *)
(* configuration against what its provider offers today, retrieval,        *)
(* collection, and each turn of the two loops of BudgetManager.fit() are   *)
(* steps.                                                                  *)
(*                                                                         *)
(* A block is a record; `whole' is its text when it was collected.         *)
(*                                                                         *)
(* What a chat turn ("chat") or a continuation ("scene") has read:         *)
(*   cards       blocks of the character, the persona and the world        *)
(*   cast        a line for each character of a novel                      *)
(*   lore        entries of the world: keywords, priority and text         *)
(*   memories    of the chat: words of the query it contains, recency and  *)
(*               weight of its kind (percentages), and text                *)
(*   messages    texts of the chat's active messages, oldest first         *)
(*   summaries   of prior chapters: index and text                         *)
(*   user, direction, scene    the message or the chapter's tail, the      *)
(*               instruction, the rendered scene; <<>> is none             *)
(*   target      target_words                                              *)
(***************************************************************************)
EXTENDS EntryRetrieval

CONSTANTS
    MinEntryBudget, \* ENTRY_CONTEXT_MIN_BUDGET (256)
    EntryPercent,   \* ENTRY_CONTEXT_BUDGET_RATIO (15)
    MinRetained,    \* MIN_PROTECTED_RETAINED_TOKENS (128)
    Capabilities,   \* bound: window, output and safety_ratio (percent) of a model
    Configs,        \* bound: context_window and max_tokens of a ModelConfig
    Requests,       \* bound: limit, terms, cast and task
    CandidateSets,  \* bound: per task, what the store holds for the request
    MinCompletion,  \* the least words_to_tokens() asks for (64)
    MinMemory,      \* the least budget of long-term memory (256)
    MemoryPercent,  \* share of the window for long-term memory (40)
    RetrieveK,      \* RETRIEVE_K (6)
    ShortWindow,    \* SHORT_WINDOW (12)
    SystemText,     \* the prompt asset
    Sources         \* bound: what a chat turn or a continuation has read

Tasks == {"chat", "scene"}

\* LAYER_ORDER
Layer == [system |-> 1, character |-> 2, persona |-> 3, world |-> 4, lore |-> 5, entry |-> 6,
          memory |-> 7, chapter |-> 8, history |-> 9, user |-> 10, instruction |-> 11]

PromptBlock == [kind : DOMAIN Layer, priority : Int, text : Text, whole : Text,
                truncatable : BOOLEAN, at : Nat]

Source ==
    [cards : Seq({b \in PromptBlock : /\ b.kind \in {"character", "persona", "world"}
                                      /\ b.text = b.whole}),
     cast : Seq(Text), summaries : Seq([at : Nat, text : Text]), messages : Seq(Text),
     lore : Seq([keywords : SUBSET Text, priority : Int, text : Text]),
     memories : Seq([words : SUBSET STRING, recency : Int, weight : Int, text : Text]),
     user : Text, direction : Text, scene : Text, target : Nat, task : Tasks]

ASSUME PromptAssumption ==
    /\ {MinEntryBudget, EntryPercent, MinRetained, MinCompletion, MinMemory, MemoryPercent,
        RetrieveK, ShortWindow} \subseteq Nat
    /\ SystemText \in Text
    /\ Capabilities \subseteq [window : Nat, output : Nat, safety : Nat]
    /\ Configs \subseteq [window : Nat, tokens : Nat]
    /\ Requests \subseteq [limit : Nat, task : Tasks, terms : SUBSET STRING, cast : SUBSET STRING]
    /\ \A r \in Requests : IsFiniteSet(r.terms) /\ IsFiniteSet(r.cast)
    /\ Sources \subseteq Source
    /\ CandidateSets \in [Tasks -> SUBSET SUBSET Candidate]
    /\ \A task \in Tasks : \A rows \in CandidateSets[task] :
         IsFiniteSet(rows) /\ \A d, e \in rows : d.id = e.id => d = e

VARIABLES
    pc,
    model,          \* the stored configuration and the capability of its model
    limits,         \* window and tokens of the ProviderRequest
    request,        \* what the generation asks of the Entry Store
    sources,        \* what the generation has read besides entries
    candidates,     \* live candidates of the retrieval
    queue,          \* candidates or entries the current loop has not looked at
    retrieved,      \* selected, turned away and rendered
    blocks,         \* the blocks, in the order of the prompt
    todo,           \* optional blocks the fit has not looked at
    kept,           \* positions of the blocks that are included
    available       \* tokens left for optional blocks

vars == <<pc, model, limits, request, sources, candidates, queue, retrieved, blocks,
          todo, kept, available>>

\* What is settled once the request is resolved.
given == <<model, limits, request, sources, candidates>>

-----------------------------------------------------------------------------
(* Blocks *)

\* A story summary is ordered with the chapters, by the chapter it is about.
Position(b) == IF b.at > 0 THEN <<Layer["chapter"], b.at, 0>>
               ELSE <<Layer[b.kind], 0, -b.priority>>

\* Block fields the fit depends on; `at' is prepared_render_order, 0 for none.
Block(kind, priority, text, truncatable, at) ==
    [kind |-> kind, priority |-> priority, text |-> text, whole |-> text,
     truncatable |-> truncatable, at |-> at]

\* assemble_continue(): the characters of a novel are part of the system text.
Body ==
    LET lines[n \in 0 .. Len(sources.cast)] ==
          IF n = 0 THEN SystemText ELSE lines[n - 1] \o <<"_">> \o sources.cast[n]
    IN lines[Len(sources.cast)]

\* The scene follows the instruction.
Instruction == sources.direction \o (IF sources.scene = <<>> THEN <<>>
                                     ELSE <<"_">> \o sources.scene)

\* Fault: an entry may be cut like any other block.
EntryBlockFault(e) == Block("entry", 65, Rendered(e), TRUE, e.at)

\* entry_retrieval_item_to_prompt_block(): a partially rendered entry is a
\* fabricated fact.
EntryBlock(e) == Block("entry", 65, Rendered(e), FALSE, e.at)

\* _make_lore_blocks(): the history it is given is empty in both engines.
LoreBlocks ==
    LET said == sources.user \o <<"_">> \o Instruction
        Occurs(word) == \E n \in 1 .. (Len(said) - Len(word) + 1) :
                          SubSeq(said, n, n + Len(word) - 1) = word
        lore == sources.lore
        matching == {n \in DOMAIN lore : \E w \in lore[n].keywords : Occurs(w)}
        matched == Sorted({<<<<n>>, lore[n]>> : n \in matching})
    IN [n \in DOMAIN matched |->
          Block("lore", matched[n].priority, matched[n].text, TRUE, 0)]

MemoryHint == Larger(MinMemory, (limits.window * MemoryPercent) \div 100)

Overlap(n) == Cardinality(sources.memories[n].words \cap request.terms)

\* KeywordRetriever.search(): the terms of the request stand for the words of
\* the query.  The places of the first few.
FoundMemories ==
    {n \in DOMAIN sources.memories :
       Cardinality({m \in DOMAIN sources.memories :
                      Earlier(<<-Overlap(m), m>>, <<-Overlap(n), n>>)}) < RetrieveK}

\* The score of rank_memories(), in thousandths
Worth(n) ==
    4 * sources.memories[n].recency + 2 * sources.memories[n].weight
      + (IF request.terms = {} THEN 0
         ELSE (400 * Overlap(n)) \div Cardinality(request.terms))

\* Stable: what is worth the same stays as search() found it.
RankedMemories ==
    {<<<<-Worth(n), -Overlap(n), n>>, sources.memories[n]>> : n \in FoundMemories}

\* _select_within_budget() stops at the first memory that does not fit, so it
\* takes those that fit together with all before them.
MemoryBlocks ==
    LET sizes == [p \in RankedMemories |-> Count(p[2].text)]
        UpTo(p) == {q \in RankedMemories : ~Earlier(p[1], q[1])}
        chosen == Sorted({p \in RankedMemories : Total(sizes, UpTo(p)) <= MemoryHint})
    IN [n \in DOMAIN chosen |-> Block("memory", 60, chosen[n].text, TRUE, 0)]

ChapterBlocks ==
    [n \in DOMAIN sources.summaries |->
       Block("chapter", 75, sources.summaries[n].text, TRUE, sources.summaries[n].at)]

\* The last messages of the chat; a later one has the higher priority.
HistoryBlocks ==
    LET last == SubSeq(sources.messages, Larger(1, Len(sources.messages) - ShortWindow + 1),
                       Len(sources.messages))
    IN [n \in DOMAIN last |-> Block("history", 29 + n, last[n], TRUE, 0)]

\* _collect(): a block without content is left out.
Collected(entries) ==
    <<Block("system", 100, Body, FALSE, 0)>>
      \o sources.cards \o LoreBlocks
      \o [n \in DOMAIN entries |-> EntryBlock(entries[n])]
      \o MemoryBlocks \o ChapterBlocks \o HistoryBlocks
      \o (IF sources.user = <<>> THEN <<>>
          ELSE <<Block("user", 1000, sources.user, TRUE, 0)>>)
      \o (IF Instruction = <<>> THEN <<>>
          ELSE <<Block("instruction", 1000, Instruction, TRUE, 0)>>)

\* _order(): a stable sort by layer, story position and priority.
Ordered(bs) == Sorted({<<Append(Position(bs[n]), n), bs[n]>> : n \in DOMAIN bs})

Protected(n) == blocks[n].priority >= 1000 \/ blocks[n].kind = "system"

Tokens(S) == Total([n \in DOMAIN blocks |-> Count(blocks[n].text)], S)

\* _trim_to(): a prefix in proportion, cut back to a word boundary.
TrimTo(text, tokens) ==
    LET cut == Larger(1, (Len(text) * tokens) \div Count(text))
        spaces == {n \in 1 .. cut : text[n] = "_"}
        end == IF spaces = {} THEN cut
               ELSE (CHOOSE n \in spaces : \A m \in spaces : m <= n) - 1
    IN IF Count(text) <= tokens THEN text ELSE SubSeq(text, 1, end)

\* compute_budget()
Budget ==
    limits.window - limits.tokens
      - ((limits.window * model.capability.safety + 99) \div 100)

\* entry_context_budget()
EntryBudget == Larger(MinEntryBudget, (limits.window * EntryPercent) \div 100)

\* What create_model_config() accepts of a model; 0 offers no bound.
Creatable(config, capability) ==
    /\ capability.window = 0 \/ config.window <= capability.window
    /\ capability.output = 0 \/ config.tokens <= capability.output
    /\ config.tokens <= config.window

Clamped(asked, offered) == IF offered = 0 THEN asked ELSE Smaller(asked, offered)

-----------------------------------------------------------------------------
(* Steps *)

\* The configuration was accepted under what the model offered then, which may
\* have been corrected since.
Init ==
    /\ model \in [config : Configs, capability : Capabilities]
    /\ \E past \in Capabilities : Creatable(model.config, past)
    /\ limits = [window |-> 0, tokens |-> 0]
    /\ sources \in Sources
    /\ request \in {r \in Requests : r.task = sources.task}
    /\ candidates \in CandidateSets[sources.task]
    /\ pc = "resolve"
    /\ queue = <<>>
    /\ retrieved = [items |-> <<>>, used |-> 0, budget |-> <<>>, limit |-> <<>>,
                    context |-> <<>>, rendered |-> 0]
    /\ blocks = <<>>
    /\ todo = {} /\ kept = {}
    /\ available = 0

\* words_to_tokens(), in tenths of a token for a word
WordsToTokens(words) == Larger(MinCompletion, (words * 16) \div 10)

\* resolve_provider_request(): the capability has authority over the row; then a
\* continuation asks for no more than its target.
Resolve ==
    /\ pc = "resolve"
    /\ LET asked == IF model.config.window = 0 THEN model.capability.window
                    ELSE model.config.window
           window == Clamped(asked, model.capability.window)
           tokens == Clamped(model.config.tokens, model.capability.output)
       IN /\ limits' = [window |-> window,
                        tokens |-> IF request.task = "chat" THEN tokens
                                   ELSE Smaller(tokens, WordsToTokens(sources.target))]
          /\ pc' = IF window < tokens THEN "failed" ELSE "rank"
    /\ UNCHANGED <<model, request, sources, candidates, queue, retrieved, blocks, todo, kept,
                   available>>

\* EntryService.retrieve() from the ranking on.
RankCandidates ==
    /\ pc = "rank"
    /\ queue' = Rank(candidates, request)
    /\ pc' = "select"
    /\ UNCHANGED <<given, retrieved, blocks, todo, kept, available>>

SelectEntry ==
    /\ pc = "select" /\ queue # <<>>
    /\ retrieved' = Weigh(retrieved, Head(queue), request.limit, EntryBudget)
    /\ queue' = Tail(queue)
    /\ UNCHANGED <<pc, given, blocks, todo, kept, available>>

\* The summaries are put in story order before entries are rendered.
OrderStory ==
    /\ pc = "select" /\ queue = <<>>
    /\ queue' = OrderSummaries(retrieved.items)
    /\ pc' = "render"
    /\ UNCHANGED <<given, retrieved, blocks, todo, kept, available>>

RenderEntry ==
    /\ pc = "render" /\ queue # <<>>
    /\ retrieved' = Place(retrieved, Head(queue), EntryBudget)
    /\ queue' = Tail(queue)
    /\ UNCHANGED <<pc, given, blocks, todo, kept, available>>

\* assemble(): INV-6, then the blocks.
Collect ==
    /\ pc = "render" /\ queue = <<>>
    /\ blocks' = Collected(retrieved.context)
    /\ pc' = IF limits.window < limits.tokens THEN "failed" ELSE "order"
    /\ UNCHANGED <<given, retrieved, queue, todo, kept, available>>

Order ==
    /\ pc = "order"
    /\ blocks' = Ordered(blocks)
    /\ pc' = IF Budget <= 0 THEN "failed" ELSE "protect"
    /\ UNCHANGED <<given, retrieved, queue, todo, kept, available>>

ProtectedBlocks == {n \in DOMAIN blocks : Protected(n)}

\* The protected blocks fit: what they leave is for the others.
Reserve ==
    /\ pc = "protect"
    /\ Tokens(ProtectedBlocks) <= Budget
    /\ available' = Budget - Tokens(ProtectedBlocks)
    /\ todo' = DOMAIN blocks \ ProtectedBlocks
    /\ pc' = "fit"
    /\ UNCHANGED <<given, queue, retrieved, blocks, kept>>

\* One turn of _trim_protected(): the largest block that may be cut yields.
Cuttable == {n \in ProtectedBlocks :
               blocks[n].truncatable /\ Count(blocks[n].text) > MinRetained}

Largest(n) == \A m \in Cuttable :
    \/ Count(blocks[m].text) < Count(blocks[n].text)
    \/ Count(blocks[m].text) = Count(blocks[n].text) /\ n <= m

Reduced(n) ==
    TrimTo(blocks[n].text, Larger(MinRetained, Budget - Tokens(ProtectedBlocks \ {n})))

\* ... if that gains a token.
Yielding == {n \in Cuttable : Largest(n) /\ Count(Reduced(n)) < Count(blocks[n].text)}

\* Fault: a turn that gains no token is tried again.
TrimProtectedFault ==
    /\ pc = "protect"
    /\ Tokens(ProtectedBlocks) > Budget
    /\ IF Yielding # {}
       THEN \E n \in Yielding : blocks' = [blocks EXCEPT ![n].text = Reduced(n)]
       ELSE UNCHANGED blocks
    /\ UNCHANGED <<pc, given, queue, retrieved, todo, kept, available>>

\* A turn that gains no token fails the assembly.
TrimProtected ==
    /\ pc = "protect"
    /\ Tokens(ProtectedBlocks) > Budget
    /\ IF Yielding # {}
       THEN \E n \in Yielding : blocks' = [blocks EXCEPT ![n].text = Reduced(n)] /\ UNCHANGED pc
       ELSE pc' = "failed" /\ UNCHANGED blocks
    /\ UNCHANGED <<given, queue, retrieved, todo, kept, available>>

\* The next optional block: highest priority, then first in the prompt.
Following(n) == \A m \in todo :
    \/ blocks[m].priority < blocks[n].priority
    \/ blocks[m].priority = blocks[n].priority /\ n <= m

Include ==
    /\ pc = "fit"
    /\ \E n \in todo :
         /\ Following(n) /\ Count(blocks[n].text) <= available
         /\ kept' = kept \cup {n}
         /\ available' = available - Count(blocks[n].text)
         /\ todo' = todo \ {n}
    /\ UNCHANGED <<pc, given, queue, retrieved, blocks>>

\* Fault: what a cut block was given stays available.
CutFault ==
    /\ pc = "fit"
    /\ \E n \in todo :
         /\ Following(n) /\ Count(blocks[n].text) > available
         /\ blocks[n].truncatable /\ available > 0
         /\ blocks' = [blocks EXCEPT ![n].text = TrimTo(@, available)]
         /\ kept' = kept \cup {n}
         /\ todo' = todo \ {n}
    /\ UNCHANGED <<pc, given, queue, retrieved, available>>

Cut ==
    /\ pc = "fit"
    /\ \E n \in todo :
         /\ Following(n) /\ Count(blocks[n].text) > available
         /\ blocks[n].truncatable /\ available > 0
         /\ blocks' = [blocks EXCEPT ![n].text = TrimTo(@, available)]
         /\ kept' = kept \cup {n}
         /\ todo' = todo \ {n}
    /\ available' = 0
    /\ UNCHANGED <<pc, given, queue, retrieved>>

Drop ==
    /\ pc = "fit"
    /\ \E n \in todo :
         /\ Following(n) /\ Count(blocks[n].text) > available
         /\ ~blocks[n].truncatable \/ available = 0
         /\ todo' = todo \ {n}
    /\ UNCHANGED <<pc, given, queue, retrieved, blocks, kept, available>>

\* Fault: a cut is taken to be exact.
FinishFault ==
    /\ pc = "fit" /\ todo = {}
    /\ kept' = kept \cup ProtectedBlocks
    /\ pc' = "done"
    /\ UNCHANGED <<given, queue, retrieved, blocks, todo, available>>

\* The end of fit(): cuts are approximate, so the sum is checked again.
Finish ==
    /\ pc = "fit" /\ todo = {}
    /\ kept' = kept \cup ProtectedBlocks
    /\ pc' = IF Tokens(kept') <= Budget THEN "done" ELSE "failed"
    /\ UNCHANGED <<given, queue, retrieved, blocks, todo, available>>

\* The prompt is sent, or the request is answered with a validation error.
Done == pc \in {"done", "failed"} /\ UNCHANGED vars

Next ==
    \/ Resolve \/ RankCandidates \/ SelectEntry \/ OrderStory \/ RenderEntry \/ Collect
    \/ Order \/ Reserve \/ TrimProtected
    \/ Include \/ Cut \/ Drop \/ Finish \/ Done

Spec == Init /\ [][Next]_vars

\* One request runs to its end: nothing in it waits.
FairSpec == Spec /\ WF_vars(Next)

-----------------------------------------------------------------------------
(* Properties *)

Prefix(s, t) == Len(s) <= Len(t) /\ s = SubSeq(t, 1, Len(s))

\* select_entries() and assemble_entry_context() stay within the limit and the
\* knowledge slice, an entry is turned away for the limit only when it is
\* reached, and for the budget only when it really has no room.
SelectionIsMaximal ==
    pc = "order" =>
      /\ Len(retrieved.items) <= request.limit
      /\ TextTokens(retrieved.items) <= EntryBudget
      /\ TextTokens([n \in DOMAIN retrieved.context |->
                      [text |-> Rendered(retrieved.context[n])]]) <= EntryBudget
      /\ \A e \in Range(retrieved.items) \ Range(retrieved.context) :
           retrieved.rendered + Count(Rendered(e)) > EntryBudget
      /\ retrieved.limit # <<>> => Len(retrieved.items) = request.limit
      /\ \A e \in Range(retrieved.budget) : retrieved.used + Count(e.text) > EntryBudget

Comparable(a, b) ==
    /\ a.type = b.type /\ a.status = b.status /\ a.priority = b.priority
    /\ a.updated = b.updated /\ a.words = b.words /\ a.cast = b.cast /\ a.at = b.at

\* "Confidence ... must not demote explicit user-authored canon below
\* lower-authority inferred content" (RFC-003): no extracted entry is selected
\* while a comparable entry of the author, no longer than it, is left out.
AuthorBeforeExtraction ==
    pc = "order" =>
      \A a \in candidates, b \in Range(retrieved.items) :
        ( /\ a.capture \in {"human-authored", "human-edited"}
          /\ b.capture = "ai-extracted"
          /\ Comparable(a, b)
          /\ Count(a.text) <= Count(b.text) )
        => a \in Range(retrieved.items)

\* A prompt that is sent holds every protected block, canon and system text
\* whole, and of any other block a beginning.
CanonWhole ==
    pc = "done" =>
      /\ ProtectedBlocks \subseteq kept
      /\ \A n \in kept :
           /\ blocks[n].kind \in {"system", "entry"} => blocks[n].text = blocks[n].whole
           /\ Prefix(blocks[n].text, blocks[n].whole)

Later(m, n) ==
    \/ blocks[m].priority < blocks[n].priority
    \/ blocks[m].priority = blocks[n].priority /\ m > n

\* A block that could be cut and is cut or left out has taken all that was
\* left: no text of a lower priority is in the prompt.
LowerPriorityGivesWay ==
    pc \in {"fit", "done"} =>
      \A n \in (DOMAIN blocks \ ProtectedBlocks) \ todo :
        (blocks[n].truncatable /\ (n \notin kept \/ blocks[n].text # blocks[n].whole))
        => \A m \in kept \ ProtectedBlocks : blocks[m].text # <<>> => ~Later(m, n)

\* Property 7: prompt, completion and the model's safety margin fit the window
\* the model has today, whatever the stored configuration says, and no
\* completion longer than it can give is asked for.  A window or an output of 0
\* is not known.
WithinWindow ==
    pc = "done" =>
      /\ model.config.window > 0 => limits.window <= model.config.window
      /\ model.capability.window > 0 => limits.window <= model.capability.window
      /\ model.capability.output > 0 => limits.tokens <= model.capability.output
      /\ 100 * (limits.window - limits.tokens - Tokens(kept))
           >= model.capability.safety * limits.window

\* Assembly ends: each turn of _trim_protected() gains a token or fails.
AssemblyEnds == <>(pc \in {"done", "failed"})

\* A prompt over the budget is cut and blocks are dropped by priority until it
\* is within it (requirements.md, AC-PROMPT-3): optional blocks never fail an
\* assembly whose protected blocks fit (BudgetManager.fit).
OptionalBlocksNeverFail ==
    pc = "failed" /\ Budget > 0 =>
      Total([n \in DOMAIN blocks |-> Count(blocks[n].whole)], ProtectedBlocks) > Budget

=============================================================================
