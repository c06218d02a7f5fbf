------------------------ MODULE MCChapterContinuation ------------------------
(* Small instances of ChapterContinuation. *)
EXTENDS ChapterContinuation, TLC

CONSTANTS a1, a2, a3, s1, s2, w1, w2, none

\* A text with white space at both ends.
SpacedTexts == {<<Blank, <<s1, 0>>, Blank>>}

\* And one that has the words of two continuations turned round, perhaps before
\* either of them is appended.
ClientTexts == SpacedTexts \cup {<<<<a2, 1>>, <<s1, 0>>, <<a1, 1>>>>}

RequestSymmetry == Permutations(Streams) \cup Permutations(Saves)
=============================================================================
