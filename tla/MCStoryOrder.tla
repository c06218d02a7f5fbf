---------------------------- MODULE MCStoryOrder ----------------------------
(* Small instances of StoryOrder. *)
EXTENDS StoryOrder
=============================================================================
