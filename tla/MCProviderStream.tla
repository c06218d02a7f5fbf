-------------------------- MODULE MCProviderStream --------------------------
(* Small instances of ProviderStream. *)
EXTENDS ProviderStream
=============================================================================
