------------------------------ MODULE MCLibrary ------------------------------
(* A small instance of Library: one entry of each kind of anchor. *)
EXTENDS Library, TLC

CONSTANTS n1, w1, c1, c2, c3, h1

MCWorkOf == h1 :> n1

MCFirstCast == {<<n1, c1>>, <<n1, c2>>}

MCShapes ==
    { \* a fact of a chapter, taken from it
      [type |-> "story.fact", scope |-> <<"work", n1>>, subject |-> <<"chapter", h1>>,
       source |-> h1, origin |-> h1],
      \* a relationship
      [type |-> "relationship.state", scope |-> <<"work", n1>>, subject |-> <<"pair", {c1, c2}>>,
       source |-> Nothing, origin |-> Nothing],
      \* a note of one character about two others
      [type |-> "note", scope |-> <<"character", c3>>, subject |-> <<"pair", {c1, c2}>>,
       source |-> Nothing, origin |-> Nothing],
      \* a fact of a world about one character
      [type |-> "character.voice", scope |-> <<"world", w1>>, subject |-> <<"character", c1>>,
       source |-> Nothing, origin |-> Nothing],
      \* a preference that came from a chapter
      [type |-> "user.preference", scope |-> <<"user", Nothing>>, subject |-> <<"none", Nothing>>,
       source |-> h1, origin |-> Nothing] }
=============================================================================
