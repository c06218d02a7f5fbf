--------------------------- MODULE MCPromptAssembly ---------------------------
(* Instances of PromptAssembly: two characters to a token, small texts. *)
EXTENDS PromptAssembly

MCSystemText == <<"K">>
MCHeading == <<"x", "x">>

Ask(limit, task) == [limit |-> limit, task |-> task, terms |-> {"t1", "t2"}, cast |-> {"c1"}]

MCRequests == {Ask(3, "scene"), Ask(1, "scene"), Ask(2, "chat"), Ask(1, "chat")}

\* The capability of a model, before and after it was corrected, and one of
\* which little is known.
MCCapabilities == {[window |-> 50, output |-> 8, safety |-> 8],
                   [window |-> 0, output |-> 0, safety |-> 2],
                   [window |-> 16, output |-> 4, safety |-> 10]}

MCConfigs == {[window |-> 50, tokens |-> 5], [window |-> 20, tokens |-> 4],
              [window |-> 16, tokens |-> 4], [window |-> 4, tokens |-> 4]}

Row(id, type, capture, confidence, at, text) ==
    [id |-> id, type |-> type, status |-> "canon", priority |-> 50, updated |-> 1,
     capture |-> capture, confidence |-> confidence, words |-> {}, cast |-> {},
     at |-> at, text |-> text]

\* No story entry is in the scope of a chat.
MCCandidateSets ==
    [task \in {"chat", "scene"} |->
       IF task = "chat"
       THEN {{},
             {Row(1, "world.fact", "ai-extracted", 100, 0, <<"K">>),
              Row(2, "world.fact", "human-authored", None, 0, <<"K">>),
              Row(3, "note", "human-edited", None, 0, <<"K", "K", "K">>)},
             {[Row(1, "character.voice", "ai-extracted", 20, 0, <<"K">>)
                 EXCEPT !.words = {"t1"}, !.updated = 3],
              [Row(2, "character.exemplar", "human-authored", None, 0, <<"x">>)
                 EXCEPT !.cast = {"c1"}, !.updated = 2]}}
       ELSE {{},
             {Row(1, "story.fact", "ai-extracted", 100, 0, <<"K">>),
              Row(2, "story.fact", "human-authored", None, 0, <<"K">>),
              Row(3, "note", "human-edited", None, 0, <<"K", "K", "K">>)},
             {Row(1, "story.summary", "human-authored", None, 2, <<"x">>),
              Row(2, "story.summary", "ai-extracted", 80, 1, <<"x">>),
              [Row(3, "world.fact", "ai-extracted", 20, 0, <<"K">>)
                 EXCEPT !.words = {"t1"}, !.updated = 3]}}]

Dense == <<"K", "K", "K", "x", "x", "x", "x", "x", "x">>
Sparse == <<"x", "x", "_", "x", "K">>
NarrowEnd == <<"K", "K", "K", "K", "x">>

Card(kind, priority, text) == Block(kind, priority, text, TRUE, 0)

Lore(keyword, priority, text) == [keywords |-> {keyword}, priority |-> priority, text |-> text]

Memory(words, recency, weight, text) ==
    [words |-> words, recency |-> recency, weight |-> weight, text |-> text]

NoSources ==
    [cards |-> <<>>, cast |-> <<>>, lore |-> <<>>, memories |-> <<>>, messages |-> <<>>,
     summaries |-> <<>>, user |-> <<>>, direction |-> <<>>, scene |-> <<>>, target |-> 0,
     task |-> "chat"]

\* A message is stored before the prompt is assembled; after regenerate() there
\* may be none.
MCChats ==
    {[NoSources EXCEPT !.cards = parts.cards, !.lore = parts.lore, !.memories = parts.memories,
                       !.messages = parts.messages \o said, !.user = Last(<<<<>>>> \o said)] :
       said \in {<<>>, <<<<"K">>>>, <<NarrowEnd>>, <<Dense>>},
       parts \in
         {[cards |-> <<>>, lore |-> <<>>, memories |-> <<>>, messages |-> <<>>],
          [cards |-> <<Card("character", 90, Sparse)>>,
           lore |-> <<Lore(<<"K">>, 50, <<"K", "x">>), Lore(<<"_">>, 60, <<"K">>)>>,
           memories |-> <<Memory({}, 20, 60, <<"K">>), Memory({"t1"}, 90, 60, Dense),
                          Memory({"t1", "t2"}, 10, 60, <<"K", "K">>),
                          Memory({"t2"}, 50, 60, <<"x">>)>>,
           messages |-> <<<<"x">>>>],
          [cards |-> <<Card("persona", 80, Dense), Card("world", 70, <<"x">>)>>,
           lore |-> <<Lore(<<"x">>, 1000, Sparse), Lore(<<"x">>, 20, <<>>)>>,
           memories |-> <<Memory({}, 20, 60, <<"K">>)>>,
           messages |-> <<<<"x">>, <<"K", "_", "x", "x">>, <<"K">>>>]}}

MCScenes ==
    {[NoSources EXCEPT !.task = "scene", !.cards = parts.cards, !.cast = parts.cast,
                       !.lore = parts.lore, !.summaries = parts.summaries,
                       !.user = ask.tail, !.direction = ask.direction, !.scene = ask.scene,
                       !.target = ask.target] :
       ask \in {[tail |-> <<>>, direction |-> <<"x", "K">>, scene |-> <<>>, target |-> 5],
                [tail |-> NarrowEnd, direction |-> <<"x">>, scene |-> <<"K">>, target |-> 2],
                [tail |-> Dense, direction |-> NarrowEnd, scene |-> <<>>, target |-> 2],
                [tail |-> <<"K">>, direction |-> <<"x">>, scene |-> Dense, target |-> 2]},
       parts \in
         {[cards |-> <<>>, cast |-> <<>>, lore |-> <<>>, summaries |-> <<>>],
          [cards |-> <<Card("world", 70, Sparse)>>, cast |-> <<<<"K">>, <<"x">>>>,
           lore |-> <<>>,
           summaries |-> <<[at |-> 1, text |-> <<"K", "_", "K">>],
                           [at |-> 2, text |-> <<"x", "x">>]>>],
          [cards |-> <<>>, cast |-> <<<<"x">>>>,
           lore |-> <<Lore(<<"x">>, 1000, Sparse), Lore(<<"K">>, 75, <<"x", "K">>)>>,
           summaries |-> <<[at |-> 1, text |-> Dense]>>]}}

MCSources == MCChats \cup MCScenes
===============================================================================
