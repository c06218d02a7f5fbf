----------------------------- MODULE EntryStore -----------------------------
(***************************************************************************)
(* The Entry Store (services/entry_service.py) at the grain of one         *)
(* database statement per step.                                            *)
(*                                                                         *)
(* Every HTTP request runs one operation of EntryService in a session of   *)
(* its own.  Between two of its statements the event loop, or another      *)
(* worker process, runs statements of other requests.  A request's writes  *)
(* become visible when it commits; a refusal, an error, a disconnect or a  *)
(* crash rolls it back.                                                    *)
(*                                                                         *)
(* RowLocking chooses the database.  TRUE is PostgreSQL at READ COMMITTED: *)
(* SELECT ... FOR UPDATE locks the row until the transaction ends, and the *)
(* foreign key of an inserted row takes FOR KEY SHARE on the users row.    *)
(* FALSE is SQLite in WAL mode: FOR UPDATE is ignored, SELECTs run outside *)
(* a transaction, and the first INSERT or UPDATE takes the only write      *)
(* lock until commit.                                                      *)
(*                                                                         *)
(* One owner: every statement of the service is filtered by user_id, so    *)
(* requests of different owners touch disjoint rows.                       *)
(***************************************************************************)
EXTENDS Naturals, Sequences, FiniteSets

CONSTANTS
    Reqs,           \* concurrent requests (sessions)
    Entries,        \* Entry ids; supersede() locks them in id order
    Keys,           \* (scope, type, subject, subject_data) of an Entry
    Idents,         \* (scope, type, subject): a Key without its subject_data
    IdentOf,        \* the Ident of each Key
    SingleCurrent,  \* the Idents whose type is in SINGLE_CURRENT_ENTRY_TYPES
    Contents,       \* texts
    None,           \* "no value"
    RowLocking,     \* PostgreSQL or SQLite, see above
    MaxCaptures     \* bound: an edit starts only below this many captures

ASSUME StoreAssumption ==
    /\ Entries \subseteq Nat
    /\ IdentOf \in [Keys -> Idents]
    /\ SingleCurrent \subseteq Idents
    /\ None \notin Reqs \cup Entries /\ None \notin Keys \cup Contents
    /\ None # "canon"
    /\ RowLocking \in BOOLEAN
    /\ MaxCaptures \in Nat

VARIABLES
    \* committed rows
    status,     \* entries.status, "absent" for an id with no committed row
    key,        \* the columns that never change after the INSERT
    content,    \* entries.content
    successor,  \* entries.superseded_by_entry_id
    captures,   \* edit_diff_captures of each Entry, in order of sequence
    \* running requests
    pc,         \* the next statement of each request
    args,       \* its operation and parameters
    seen,       \* what its session loaded and still holds in memory
    \* locks
    rowLock,    \* FOR UPDATE on an entries row
    ownerLock,  \* FOR UPDATE on the users row
    ownerShare, \* requests holding FOR KEY SHARE on the users row
    writer      \* SQLite: the connection that holds the write lock

rows == <<status, key, content, successor, captures>>
locks == <<rowLock, ownerLock, ownerShare, writer>>
vars == <<rows, pc, args, seen, locks>>

-----------------------------------------------------------------------------
(* Data *)

Statuses == {"captured", "proposed", "canon", "rejected", "superseded"}

\* Fault: canon may be rejected like a proposal.
AllowedTransitionsFault ==
    { <<"captured", "proposed">>, <<"captured", "rejected">>,
      <<"proposed", "canon">>, <<"proposed", "rejected">>,
      <<"canon", "rejected">> }

AllowedTransitions ==
    { <<"captured", "proposed">>, <<"captured", "rejected">>,
      <<"proposed", "canon">>, <<"proposed", "rejected">> }

Ops == {"create", "author", "edit", "accept", "reject", "update", "supersede"}

PCs == {"idle", "owner", "insert", "load", "first", "second", "canon",
        "flush", "commit"}

Args == [op : Ops \cup {None}, entry : Entries \cup {None},
         old : Entries \cup {None}, to : Statuses \cup {None},
         key : Keys \cup {None}, text : Contents \cup {None}]

NoArgs == [op |-> None, entry |-> None, old |-> None, to |-> None,
           key |-> None, text |-> None]

NoSeen == [text |-> None, ok |-> FALSE]

Captures == [before : Contents, after : Contents]

CanonOf(i) == {e \in Entries : status[e] = "canon" /\ IdentOf[key[e]] = i}

\* The key of the row a request is about to make canon.
KeyOf(r) == IF args[r].op = "author" THEN args[r].key ELSE key[args[r].entry]

\* find_active_canon_for_update(exclude_entry_id): the rows it may return.
RivalCanon(r) == CanonOf(IdentOf[KeyOf(r)]) \ {args[r].entry}

\* supersede() locks its two rows in the order of their ids.
Lower(r) == IF args[r].old < args[r].entry THEN args[r].old ELSE args[r].entry
Upper(r) == IF args[r].old < args[r].entry THEN args[r].entry ELSE args[r].old

\* A Review Card edit writes a capture only if the text changes.
Changes(r) == args[r].text # seen[r].text

-----------------------------------------------------------------------------
(* Locks.  Each Take must follow its Can; both do nothing on the database  *)
(* that has no such lock.                                                  *)

CanLockOwner(r) ==
    RowLocking => ownerLock \in {None, r} /\ ownerShare \subseteq {r}

\* Fault: the owner is selected without FOR UPDATE.
TakeOwnerFault(r) == UNCHANGED ownerLock

TakeOwner(r) == ownerLock' = IF RowLocking THEN r ELSE ownerLock

CanShareOwner(r) == RowLocking => ownerLock \in {None, r}

TakeShare(r) ==
    ownerShare' = IF RowLocking THEN ownerShare \cup {r} ELSE ownerShare

CanLockRow(r, e) == RowLocking => rowLock[e] \in {None, r}

\* Fault: the row is selected without FOR UPDATE.
TakeRowFault(r, e) == UNCHANGED rowLock

TakeRow(r, e) ==
    rowLock' = IF RowLocking THEN [rowLock EXCEPT ![e] = r] ELSE rowLock

CanWrite(r) == ~RowLocking => writer \in {None, r}

TakeWriter(r) == writer' = IF RowLocking THEN writer ELSE r

\* Fault: a rolled back session goes back to the pool with its row locks.
ReleaseFault(r) ==
    /\ UNCHANGED rowLock
    /\ ownerLock' = IF ownerLock = r THEN None ELSE ownerLock
    /\ ownerShare' = ownerShare \ {r}
    /\ writer' = IF writer = r THEN None ELSE writer

\* The end of the transaction of r, by COMMIT or by ROLLBACK.
Release(r) ==
    /\ rowLock' = [e \in Entries |-> IF rowLock[e] = r THEN None ELSE rowLock[e]]
    /\ ownerLock' = IF ownerLock = r THEN None ELSE ownerLock
    /\ ownerShare' = ownerShare \ {r}
    /\ writer' = IF writer = r THEN None ELSE writer

\* The request has answered.
Finish(r) ==
    /\ pc' = [pc EXCEPT ![r] = "idle"]
    /\ args' = [args EXCEPT ![r] = NoArgs]
    /\ seen' = [seen EXCEPT ![r] = NoSeen]
    /\ Release(r)

Goto(r, label) == pc' = [pc EXCEPT ![r] = label]

-----------------------------------------------------------------------------
Init ==
    /\ status = [e \in Entries |-> "absent"]
    /\ key = [e \in Entries |-> None]
    /\ content = [e \in Entries |-> None]
    /\ successor = [e \in Entries |-> None]
    /\ captures = [e \in Entries |-> <<>>]
    /\ pc = [r \in Reqs |-> "idle"]
    /\ args = [r \in Reqs |-> NoArgs]
    /\ seen = [r \in Reqs |-> NoSeen]
    /\ rowLock = [e \in Entries |-> None]
    /\ ownerLock = None
    /\ ownerShare = {}
    /\ writer = None

\* A request arrives.
Begin(r, label, a) ==
    /\ pc[r] = "idle"
    /\ Goto(r, label)
    /\ args' = [args EXCEPT ![r] = a]
    /\ UNCHANGED <<rows, seen, locks>>

\* A new id (uuid4), not the one of a row or of a request under way.
Unused(e) == status[e] = "absent" /\ \A r \in Reqs : args[r].entry # e

\* The ids a client can name: those of committed rows.
Known(e) == status[e] # "absent"

\* create(): a captured or proposed row, as _validate_creation_state demands.
BeginCreate(r) ==
    \E e \in Entries, k \in Keys, c \in Contents, s \in {"captured", "proposed"} :
        /\ Unused(e)
        /\ Begin(r, "insert", [NoArgs EXCEPT !.op = "create", !.entry = e,
                                !.to = s, !.key = k, !.text = c])

\* create_user_authored(), alone or as the replacement of a canon row.
BeginAuthor(r) ==
    \E e \in Entries, k \in Keys, c \in Contents, old \in Entries \cup {None} :
        /\ Unused(e)
        /\ old # None => Known(old)
        /\ Begin(r, "owner", [NoArgs EXCEPT !.op = "author", !.entry = e,
                               !.old = old, !.key = k, !.text = c])

\* edit_review_entry()
BeginEdit(r) ==
    \E e \in Entries, c \in Contents :
        /\ Known(e)
        /\ Len(captures[e]) < MaxCaptures
        /\ Begin(r, "load", [NoArgs EXCEPT !.op = "edit", !.entry = e, !.text = c])

\* accept_review_entry(), reject_review_entry() and update_status() all are
\* _transition_status(); only a transition to canon locks the owner.  Any other
\* target status of update_status() is refused from every status.
BeginTransition(r) ==
    \E e \in Entries, o \in {"accept", "reject", "update"},
       s \in {"proposed", "canon", "rejected"} :
        /\ Known(e)
        /\ o = "accept" => s = "canon"
        /\ o = "reject" => s = "rejected"
        /\ Begin(r, IF s = "canon" THEN "owner" ELSE "load",
                 [NoArgs EXCEPT !.op = o, !.entry = e, !.to = s])

\* supersede(); naming the same Entry twice is refused before any statement.
BeginSupersede(r) ==
    \E old, e \in Entries :
        /\ Known(old) /\ Known(e) /\ old # e
        /\ Begin(r, "owner", [NoArgs EXCEPT !.op = "supersede",
                               !.entry = e, !.old = old])

-----------------------------------------------------------------------------
(* The statements of a request *)

\* _lock_active_owner()
LockOwner(r) ==
    /\ pc[r] = "owner"
    /\ CanLockOwner(r)
    /\ TakeOwner(r)
    /\ Goto(r, CASE args[r].op = "author" -> "insert"
                 [] args[r].op = "supersede" -> "first"
                 [] OTHER -> "load")
    /\ UNCHANGED <<rows, args, seen, rowLock, ownerShare, writer>>

\* The statement after the last validation of a row that is to become canon.
CanonCheck(k) == IF IdentOf[k] \in SingleCurrent THEN "canon" ELSE "commit"

\* repo.add(): the INSERT is flushed, its foreign key locks the owner's row.
Insert(r) ==
    /\ pc[r] = "insert"
    /\ CanShareOwner(r) /\ CanWrite(r)
    /\ TakeShare(r) /\ TakeWriter(r)
    /\ Goto(r, CASE args[r].op = "create" -> "commit"
                 [] args[r].op = "author" /\ args[r].old # None -> "first"
                 [] OTHER -> CanonCheck(args[r].key))
    /\ UNCHANGED <<rows, args, seen, rowLock, ownerLock>>

\* Fault: an edit does not require the Entry to be proposed.
AdmissibleFault(r) ==
    LET e == args[r].entry IN
    /\ args[r].op \in {"accept", "reject"} => status[e] = "proposed"
    /\ args[r].op # "edit" => <<status[e], args[r].to>> \in AllowedTransitions

\* The checks on the loaded row: _require_proposed_review() and, for a
\* transition, ALLOWED_STATUS_TRANSITIONS.
Admissible(r) ==
    LET e == args[r].entry IN
    /\ args[r].op \in {"edit", "accept", "reject"} => status[e] = "proposed"
    /\ args[r].op # "edit" => <<status[e], args[r].to>> \in AllowedTransitions

\* _get_for_update() of the one Entry an edit or a transition works on.
Load(r) ==
    LET e == args[r].entry IN
    /\ pc[r] = "load"
    /\ CanLockRow(r, e)
    /\ IF Admissible(r)
       THEN /\ TakeRow(r, e)
            /\ seen' = [seen EXCEPT ![r] = [text |-> content[e], ok |-> TRUE]]
            /\ Goto(r, CASE args[r].op = "edit" -> "flush"
                         [] args[r].to = "canon" -> CanonCheck(key[e])
                         [] OTHER -> "commit")
            /\ UNCHANGED <<rows, args, ownerLock, ownerShare, writer>>
       ELSE Finish(r) /\ UNCHANGED rows

\* What supersede() demands of each of its rows.  An authored replacement is
\* its own uncommitted row, proposed by construction.
Replaceable(old) == status[old] = "canon" /\ successor[old] = None

\* Fault: the replacement may have any status.
ProposedFault(r) == TRUE

Proposed(r) == args[r].op = "author" \/ status[args[r].entry] = "proposed"

RowOk(r, e) == IF e = args[r].old THEN Replaceable(e) ELSE Proposed(r)

\* supersede(): _get_for_update() of the row with the lower id ...
LoadFirst(r) ==
    /\ pc[r] = "first"
    /\ CanLockRow(r, Lower(r))
    /\ TakeRow(r, Lower(r))
    /\ seen' = [seen EXCEPT ![r] = [text |-> None, ok |-> RowOk(r, Lower(r))]]
    /\ Goto(r, "second")
    /\ UNCHANGED <<rows, args, ownerLock, ownerShare, writer>>

\* ... and of the other one, then the checks on both.  _assert_acyclic() walks
\* from the replacement, which is proposed and so has no successor: it never
\* finds a cycle.
LoadSecond(r) ==
    /\ pc[r] = "second"
    /\ CanLockRow(r, Upper(r))
    /\ IF seen[r].ok /\ RowOk(r, Upper(r)) /\ key[args[r].old] = KeyOf(r)
       THEN /\ TakeRow(r, Upper(r))
            /\ Goto(r, "commit")
            /\ UNCHANGED <<rows, args, seen, ownerLock, ownerShare, writer>>
       ELSE Finish(r) /\ UNCHANGED rows

\* find_active_canon_for_update(): waits for the row it finds, then refuses.
FindCanon(r) ==
    /\ pc[r] = "canon"
    /\ IF RivalCanon(r) = {}
       THEN /\ Goto(r, "commit")
            /\ UNCHANGED <<rows, args, seen, locks>>
       ELSE /\ \E e \in RivalCanon(r) : CanLockRow(r, e)
            /\ Finish(r)
            /\ UNCHANGED rows

\* edit_review_entry(): the UPDATE and the INSERT of the capture, whose foreign
\* key locks the owner's row.  An unchanged text writes no capture.
Flush(r) ==
    /\ pc[r] = "flush"
    /\ IF Changes(r)
       THEN /\ CanShareOwner(r) /\ CanWrite(r)
            /\ TakeShare(r) /\ TakeWriter(r)
       ELSE UNCHANGED <<ownerShare, writer>>
    /\ Goto(r, "commit")
    /\ UNCHANGED <<rows, args, seen, rowLock, ownerLock>>

-----------------------------------------------------------------------------
(* COMMIT, with the UPDATEs SQLAlchemy flushes in it.  An UPDATE sets the   *)
(* columns the request assigned, by primary key, whatever the row now holds. *)

\* Fault: the text is dropped from the INSERT.
CommitCreateFault(r) ==
    LET e == args[r].entry IN
    /\ args[r].op = "create"
    /\ status' = [status EXCEPT ![e] = args[r].to]
    /\ key' = [key EXCEPT ![e] = args[r].key]
    /\ UNCHANGED <<content, successor, captures>>

CommitCreate(r) ==
    LET e == args[r].entry IN
    /\ args[r].op = "create"
    /\ status' = [status EXCEPT ![e] = args[r].to]
    /\ key' = [key EXCEPT ![e] = args[r].key]
    /\ content' = [content EXCEPT ![e] = args[r].text]
    /\ UNCHANGED <<successor, captures>>

CommitAuthor(r) ==
    LET e == args[r].entry
        old == args[r].old IN
    /\ args[r].op = "author"
    /\ key' = [key EXCEPT ![e] = args[r].key]
    /\ content' = [content EXCEPT ![e] = args[r].text]
    /\ IF old = None
       THEN /\ status' = [status EXCEPT ![e] = "canon"]
            /\ UNCHANGED successor
       ELSE /\ status' = [status EXCEPT ![e] = "canon", ![old] = "superseded"]
            /\ successor' = [successor EXCEPT ![old] = e]
    /\ UNCHANGED captures

\* Fault: the capture reads its "before" after the fields were assigned.
CommitEditFault(r) ==
    LET e == args[r].entry IN
    /\ args[r].op = "edit"
    /\ IF Changes(r)
       THEN /\ content' = [content EXCEPT ![e] = args[r].text]
            /\ captures' = [captures EXCEPT ![e] =
                               Append(@, [before |-> args[r].text,
                                          after |-> args[r].text])]
       ELSE UNCHANGED <<content, captures>>
    /\ UNCHANGED <<status, key, successor>>

CommitEdit(r) ==
    LET e == args[r].entry IN
    /\ args[r].op = "edit"
    /\ IF Changes(r)
       THEN /\ content' = [content EXCEPT ![e] = args[r].text]
            /\ captures' = [captures EXCEPT ![e] =
                               Append(@, [before |-> seen[r].text,
                                          after |-> args[r].text])]
       ELSE UNCHANGED <<content, captures>>
    /\ UNCHANGED <<status, key, successor>>

CommitTransition(r) ==
    /\ args[r].op \in {"accept", "reject", "update"}
    /\ status' = [status EXCEPT ![args[r].entry] = args[r].to]
    /\ UNCHANGED <<key, content, successor, captures>>

CommitSupersede(r) ==
    LET e == args[r].entry
        old == args[r].old IN
    /\ args[r].op = "supersede"
    /\ status' = [status EXCEPT ![e] = "canon", ![old] = "superseded"]
    /\ successor' = [successor EXCEPT ![old] = e]
    /\ UNCHANGED <<key, content, captures>>

Commit(r) ==
    /\ pc[r] = "commit"
    /\ CanWrite(r)
    /\ \/ CommitCreate(r)
       \/ CommitAuthor(r)
       \/ CommitEdit(r)
       \/ CommitTransition(r)
       \/ CommitSupersede(r)
    /\ Finish(r)

\* get_db() rolls the session back: the client went away, a scope, subject or
\* provenance anchor is not live, SQLite stayed locked beyond busy_timeout, or
\* the process died.
Rollback(r) ==
    /\ pc[r] # "idle"
    /\ Finish(r)
    /\ UNCHANGED rows

-----------------------------------------------------------------------------
(* Waiting *)

WantsOwner(r) == pc[r] = "owner"

WantsShare(r) == pc[r] = "insert" \/ (pc[r] = "flush" /\ Changes(r))

WantedRows(r) ==
    CASE pc[r] = "load" -> {args[r].entry}
      [] pc[r] = "first" -> {Lower(r)}
      [] pc[r] = "second" -> {Upper(r)}
      [] pc[r] = "canon" -> RivalCanon(r)
      [] OTHER -> {}

\* The next statement of r waits for the end of the transaction of s.
WaitsFor(r, s) ==
    /\ RowLocking /\ r # s
    /\ \/ WantsOwner(r) /\ (ownerLock = s \/ s \in ownerShare)
       \/ WantsShare(r) /\ ownerLock = s
       \/ \E e \in WantedRows(r) : rowLock[e] = s

\* Requests none of which can go on before another of them ends.
Deadlocked(S) == S # {} /\ \A r \in S : \E s \in S : WaitsFor(r, s)

\* PostgreSQL's deadlock detector ends one transaction of a wait cycle.
AbortVictim(r) ==
    /\ \E S \in SUBSET Reqs : r \in S /\ Deadlocked(S)
    /\ Rollback(r)

Step(r) ==
    \/ LockOwner(r) \/ Insert(r) \/ Load(r) \/ LoadFirst(r) \/ LoadSecond(r)
    \/ FindCanon(r) \/ Flush(r) \/ Commit(r)

Arrive(r) ==
    \/ BeginCreate(r) \/ BeginAuthor(r) \/ BeginEdit(r)
    \/ BeginTransition(r) \/ BeginSupersede(r)

Next == \E r \in Reqs : Arrive(r) \/ Step(r) \/ Rollback(r)

Spec == Init /\ [][Next]_vars

\* A request under way runs: its next statement is sent, a lock that keeps
\* becoming free is granted in the end (PostgreSQL queues the waiters of a row),
\* and the deadlock detector runs.  Nothing makes a client send a request.
Fairness ==
    /\ \A r \in Reqs : SF_vars(Step(r))
    /\ WF_vars(\E r \in Reqs : AbortVictim(r))

FairSpec == Spec /\ Fairness
-----------------------------------------------------------------------------
(* Properties *)

\* Every variable has its type, and every row that exists has a key and a text.
TypeOK ==
    /\ status \in [Entries -> Statuses \cup {"absent"}]
    /\ key \in [Entries -> Keys \cup {None}]
    /\ content \in [Entries -> Contents \cup {None}]
    /\ successor \in [Entries -> Entries \cup {None}]
    /\ captures \in [Entries -> Seq(Captures)]
    /\ pc \in [Reqs -> PCs]
    /\ args \in [Reqs -> Args]
    /\ seen \in [Reqs -> [text : Contents \cup {None}, ok : BOOLEAN]]
    /\ rowLock \in [Entries -> Reqs \cup {None}]
    /\ ownerLock \in Reqs \cup {None}
    /\ ownerShare \in SUBSET Reqs
    /\ writer \in Reqs \cup {None}
    /\ \A e \in Entries : Known(e) => key[e] \in Keys /\ content[e] \in Contents

\* A relationship state or a story summary has at most one canon version per
\* identity, however acceptances, authored rows and replacements interleave.
\* The checks are reads; only the owner lock keeps them true until the commit.
AtMostOneCanon ==
    \A i \in SingleCurrent : \A e, f \in CanonOf(i) : e = f

\* superseded_by_entry_id is set exactly on superseded rows, names a row of the
\* same key that was accepted, and no row replaces two others.
SupersessionLinks ==
    \A e \in Entries :
        /\ successor[e] # None <=> status[e] = "superseded"
        /\ successor[e] # None =>
              /\ status[successor[e]] \in {"canon", "superseded"}
              /\ key[successor[e]] = key[e]
              /\ \A f \in Entries : successor[f] = successor[e] => f = e

\* Following superseded_by_entry_id from any superseded row ends, and ends at a
\* canon row: a correction never leaves a history without a current version.
HistoryReachesCanon ==
    \A e \in Entries : status[e] = "superseded" =>
      \E n \in 1 .. Cardinality(Entries) : \E history \in [0 .. n -> Entries] :
        /\ history[0] = e /\ status[history[n]] = "canon"
        /\ \A k \in 1 .. n : history[k] = successor[history[k - 1]]

KeepsCanon == \A i \in Idents : CanonOf(i) # {} => CanonOf(i)' # {}

\* An identity that has a canon Entry keeps one: canon leaves canon only in the
\* commit that puts its replacement there.
CanonStays == [][KeepsCanon]_rows

\* The captures of an Entry are its whole edit history: each starts from the
\* text the one before it left, and the last one left the text of the row.  So
\* the text the AI proposed can always be recovered.
CaptureChain ==
    \A e \in Entries :
        LET n == Len(captures[e]) IN
        /\ n > 0 => captures[e][n].after = content[e]
        /\ \A k \in 1 .. n : captures[e][k].before # captures[e][k].after
        /\ \A k \in 1 .. n - 1 : captures[e][k + 1].before = captures[e][k].after

KeepsReviewed ==
    \A e \in Entries :
        status[e] \in {"canon", "rejected", "superseded"} =>
            /\ content'[e] = content[e]
            /\ key'[e] = key[e]
            /\ captures'[e] = captures[e]

\* Once reviewed, a row never changes its text, its key or its captures: a
\* correction is a new row.
ReviewedFrozen == [][KeepsReviewed]_rows

\* All texts e had, oldest first, as its captures tell them.
Drafts(e) ==
    IF status[e] = "absent" THEN <<>>
    ELSE IF captures[e] = <<>> THEN <<content[e]>>
    ELSE <<captures[e][1].before>>
           \o [k \in 1 .. Len(captures[e]) |-> captures[e][k].after]

\* The interleaved statements implement the atomic operations of EntryLifecycle.
Lifecycle == INSTANCE EntryLifecycle WITH drafts <- [e \in Entries |-> Drafts(e)]

ImplementsLifecycle == Lifecycle!Spec

\* A request that arrived is answered.
RequestsFinish == \A r \in Reqs : pc[r] # "idle" ~> pc[r] = "idle"

-----------------------------------------------------------------------------
(* The inductive invariant behind the theorems of EntryStoreProofs: what a *)
(* request has checked stays true until it commits, because it holds the   *)
(* locks that every request able to change it would need.                  *)

CreateArgs == [op : {"create"}, entry : Entries, old : {None},
               to : {"captured", "proposed"}, key : Keys, text : Contents]
AuthorArgs == [op : {"author"}, entry : Entries, old : Entries \cup {None},
               to : {None}, key : Keys, text : Contents]
EditArgs == [op : {"edit"}, entry : Entries, old : {None}, to : {None},
             key : {None}, text : Contents]
TransitionArgs == [op : {"accept", "reject", "update"}, entry : Entries,
                   old : {None}, to : {"proposed", "canon", "rejected"},
                   key : {None}, text : {None}]
SupersedeArgs == [op : {"supersede"}, entry : Entries, old : Entries,
                  to : {None}, key : {None}, text : {None}]

\* Each operation is at one of its own statements.
AtOwnStatement(r) ==
    \/ pc[r] = "idle" /\ args[r] = NoArgs
    \/ pc[r] \in {"insert", "commit"} /\ args[r] \in CreateArgs
    \/ /\ args[r] \in AuthorArgs
       /\ pc[r] \in {"owner", "insert", "commit"} \cup
                    (IF args[r].old = None THEN {"canon"} ELSE {"first", "second"})
    \/ pc[r] \in {"load", "flush", "commit"} /\ args[r] \in EditArgs
    \/ /\ args[r] \in TransitionArgs
       /\ pc[r] \in {"load", "commit"} \cup
                    (IF args[r].to = "canon" THEN {"owner", "canon"} ELSE {})
    \/ /\ args[r] \in SupersedeArgs
       /\ pc[r] \in {"owner", "first", "second", "commit"}

MakesCanon(r) == args[r].op \in {"author", "supersede"} \/ args[r].to = "canon"

Inserts(r) == args[r].op \in {"create", "author"}

\* An inserted id belongs to one request; every other id a request names exists.
IdsInv(r) ==
    pc[r] # "idle" =>
        /\ Inserts(r) => /\ status[args[r].entry] = "absent"
                         /\ \A s \in Reqs : s # r => args[s].entry # args[r].entry
        /\ ~Inserts(r) => Known(args[r].entry)
        /\ args[r].old # None => Known(args[r].old) /\ args[r].old # args[r].entry

\* Every request that will make a row canon holds the owner's row.
OwnerInv(r) ==
    pc[r] \notin {"idle", "owner"} /\ MakesCanon(r) => ownerLock = r

\* What a request holds and knows of the rows it loaded.
EditInv(r) ==
    pc[r] \in {"flush", "commit"} /\ args[r].op = "edit" =>
        /\ rowLock[args[r].entry] = r
        /\ status[args[r].entry] = "proposed"
        /\ seen[r].text = content[args[r].entry]

TransitionInv(r) ==
    pc[r] \in {"canon", "commit"} /\ args[r].op \in {"accept", "reject", "update"} =>
        /\ rowLock[args[r].entry] = r
        /\ <<status[args[r].entry], args[r].to>> \in AllowedTransitions

SupersedeInv(r) ==
    /\ pc[r] = "second" =>
          /\ rowLock[Lower(r)] = r
          /\ seen[r].ok => RowOk(r, Lower(r))
    /\ pc[r] = "commit" /\ args[r].old # None =>
          /\ rowLock[args[r].entry] = r /\ rowLock[args[r].old] = r
          /\ Replaceable(args[r].old) /\ Proposed(r)
          /\ key[args[r].old] = KeyOf(r)

\* A request about to make its row canon has no rival.
NoRivalInv(r) ==
    (/\ pc[r] = "commit" /\ MakesCanon(r) /\ args[r].old = None
     /\ IdentOf[KeyOf(r)] \in SingleCurrent) => RivalCanon(r) = {}

ReqInv(r) ==
    /\ AtOwnStatement(r)
    /\ IdsInv(r)
    /\ OwnerInv(r)
    /\ EditInv(r)
    /\ TransitionInv(r)
    /\ SupersedeInv(r)
    /\ NoRivalInv(r)

\* A row that does not exist has no captures.
AbsentInv == \A e \in Entries : status[e] = "absent" => captures[e] = <<>>

RowsInv == AbsentInv /\ AtMostOneCanon /\ SupersessionLinks /\ CaptureChain

IInv == TypeOK /\ (\A r \in Reqs : ReqInv(r)) /\ RowsInv

=============================================================================
