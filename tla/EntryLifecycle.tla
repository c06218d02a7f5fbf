--------------------------- MODULE EntryLifecycle ---------------------------
(***************************************************************************)
(* What the Entry Store promises, with every operation one atomic step.    *)
(*                                                                         *)
(* An Entry is one owned unit of creative knowledge.  It is captured or    *)
(* proposed, reviewed into canon or rejected, and a canon Entry leaves     *)
(* canon only by being replaced.  drafts[e] is the whole text history of   *)
(* e: its first text (the one the AI wrote) and every text a Review Card   *)
(* edit put in its place.                                                  *)
(*                                                                         *)
(* EntryStore is the detailed specification of the same operations; it is  *)
(* shown to implement this one.                                            *)
(***************************************************************************)
EXTENDS Naturals, Sequences

CONSTANTS
    Entries,        \* Entry ids
    Keys,           \* (scope, type, subject, subject_data) of an Entry
    Idents,         \* (scope, type, subject): a Key without its subject_data
    IdentOf,        \* the Ident of each Key
    SingleCurrent,  \* the Idents whose type is in SINGLE_CURRENT_ENTRY_TYPES
    Contents,       \* texts
    None            \* "no value", outside all the sets above

VARIABLES
    status,     \* status[e]: "absent" until the row of e is committed
    key,        \* key[e]: immutable identity of e
    drafts,     \* drafts[e]: every text e had, oldest first
    successor   \* successor[e]: entries.superseded_by_entry_id

vars == <<status, key, drafts, successor>>

Statuses == {"captured", "proposed", "canon", "rejected", "superseded"}

\* ALLOWED_STATUS_TRANSITIONS, without canon -> superseded, which only a
\* replacement performs.
AllowedTransitions ==
    { <<"captured", "proposed">>, <<"captured", "rejected">>,
      <<"proposed", "canon">>, <<"proposed", "rejected">> }

\* The canon Entries with identity i.
CanonOf(i) == {e \in Entries : status[e] = "canon" /\ IdentOf[key[e]] = i}

\* A single-current identity may only get a canon Entry if it has none.
MayBecomeCanon(k) == IdentOf[k] \in SingleCurrent => CanonOf(IdentOf[k]) = {}

Init ==
    /\ status = [e \in Entries |-> "absent"]
    /\ key = [e \in Entries |-> None]
    /\ drafts = [e \in Entries |-> <<>>]
    /\ successor = [e \in Entries |-> None]

-----------------------------------------------------------------------------

\* A new Entry e with key k, text c and status s; not yet canon.
Insert(e, k, c, s) ==
    /\ status[e] = "absent"
    /\ s \in {"captured", "proposed"}
    /\ status' = [status EXCEPT ![e] = s]
    /\ key' = [key EXCEPT ![e] = k]
    /\ drafts' = [drafts EXCEPT ![e] = <<c>>]
    /\ UNCHANGED successor

\* The author writes canon directly.
Author(e, k, c) ==
    /\ status[e] = "absent"
    /\ MayBecomeCanon(k)
    /\ status' = [status EXCEPT ![e] = "canon"]
    /\ key' = [key EXCEPT ![e] = k]
    /\ drafts' = [drafts EXCEPT ![e] = <<c>>]
    /\ UNCHANGED successor

\* The author writes canon in place of the canon Entry old.
AuthorReplacement(e, k, c, old) ==
    /\ status[e] = "absent"
    /\ status[old] = "canon" /\ key[old] = k
    /\ status' = [status EXCEPT ![e] = "canon", ![old] = "superseded"]
    /\ key' = [key EXCEPT ![e] = k]
    /\ drafts' = [drafts EXCEPT ![e] = <<c>>]
    /\ successor' = [successor EXCEPT ![old] = e]

\* A Review Card edit gives a proposed Entry another text.
Edit(e, c) ==
    /\ status[e] = "proposed"
    /\ c # drafts[e][Len(drafts[e])]
    /\ drafts' = [drafts EXCEPT ![e] = Append(@, c)]
    /\ UNCHANGED <<status, key, successor>>

\* Review moves e to status s.
Transition(e, s) ==
    /\ <<status[e], s>> \in AllowedTransitions
    /\ s = "canon" => MayBecomeCanon(key[e])
    /\ status' = [status EXCEPT ![e] = s]
    /\ UNCHANGED <<key, drafts, successor>>

\* The proposed Entry e takes the place of the canon Entry old.
Supersede(old, e) ==
    /\ status[old] = "canon" /\ status[e] = "proposed"
    /\ key[old] = key[e]
    /\ status' = [status EXCEPT ![e] = "canon", ![old] = "superseded"]
    /\ successor' = [successor EXCEPT ![old] = e]
    /\ UNCHANGED <<key, drafts>>

Next ==
    \E e \in Entries :
        \/ \E k \in Keys, c \in Contents :
              \/ \E s \in {"captured", "proposed"} : Insert(e, k, c, s)
              \/ Author(e, k, c)
              \/ \E old \in Entries : AuthorReplacement(e, k, c, old)
        \/ \E c \in Contents : Edit(e, c)
        \/ \E s \in Statuses : Transition(e, s)
        \/ \E old \in Entries : Supersede(old, e)

Spec == Init /\ [][Next]_vars

=============================================================================
