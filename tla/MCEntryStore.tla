---------------------------- MODULE MCEntryStore ----------------------------
(* Small instances of EntryStore. *)
EXTENDS EntryStore, TLC

CONSTANTS r1, r2, k1, k2, i1, i2, c1, c2, none

TwoEntries == 1 .. 2

ThreeEntries == 1 .. 3

\* One key per identity: a single-current one and one with many canon rows.
MCIdentOf == k1 :> i1 @@ k2 :> i2

MCSingle == k1 :> i1

ReqSymmetry == Permutations({r1, r2})

ContentSymmetry == Permutations({r1, r2}) \cup Permutations({c1, c2})
=============================================================================
