-------------------------- MODULE EntryStoreProofs --------------------------
(***************************************************************************)
(* Theorems about EntryStore on a database with row locks (PostgreSQL),    *)
(* for any number of requests, Entries, keys and texts.                    *)
(***************************************************************************)
EXTENDS EntryStore, NaturalLemmas, FiniteSetTheorems, SequenceTheorems, TLAPS

\* The initial state satisfies the inductive invariant.
LEMMA InitIInv == Init => IInv
<1> SUFFICES ASSUME Init PROVE IInv
  OBVIOUS
<1>1. TypeOK
  BY DEF Init, TypeOK, PCs, Args, NoArgs, NoSeen, Statuses, Captures, Known
<1>2. \A r \in Reqs : ReqInv(r)
  BY DEF Init, ReqInv, AtOwnStatement, IdsInv, OwnerInv, EditInv, TransitionInv,
         SupersedeInv, NoRivalInv
<1>3. RowsInv
  BY DEF Init, RowsInv, AbsentInv, AtMostOneCanon, SupersessionLinks,
         CaptureChain, CanonOf
<1>. QED
  BY <1>1, <1>2, <1>3 DEF IInv

\* The parameters of a request under way.
LEMMA Shape ==
  ASSUME NEW r \in Reqs, AtOwnStatement(r), pc[r] # "idle"
  PROVE  /\ args[r].op \in Ops
         /\ args[r].entry \in Entries
         /\ args[r].old \in Entries \cup {None}
         /\ Inserts(r) => args[r].key \in Keys /\ args[r].text \in Contents
         /\ args[r].op = "create" => args[r].to \in {"captured", "proposed"}
         /\ args[r].op = "edit" => args[r].text \in Contents
         /\ args[r].op \in {"accept", "reject", "update"} => args[r].to \in Statuses
         /\ args[r].op = "supersede" => args[r].old \in Entries
         /\ args[r].old # None => args[r].op \in {"author", "supersede"}
         /\ pc[r] \in {"first", "second"} => args[r].old \in Entries
         /\ MakesCanon(r) => args[r].op # "create" /\ args[r].op # "edit"
BY StoreAssumption DEF AtOwnStatement, CreateArgs, AuthorArgs, EditArgs, TransitionArgs,
       SupersedeArgs, Ops, Statuses, Inserts, MakesCanon

\* What a request relies on survives a step of another request that keeps its
\* locks, leaves the rows it holds alone, removes no row, inserts no id of its
\* own and, while it holds the owner's row, makes no row canon.
LEMMA Others ==
  ASSUME TypeOK, RowLocking, NEW r \in Reqs, NEW s \in Reqs, s # r, ReqInv(s),
         pc'[s] = pc[s], args'[s] = args[s], seen'[s] = seen[s],
         \A q \in Reqs \ {r} : args'[q] = args[q],
         ownerLock = s => ownerLock' = s,
         \A e \in {args[s].entry, args[s].old} : e \in Entries /\ rowLock[e] = s =>
            /\ rowLock'[e] = s
            /\ status'[e] = status[e] /\ content'[e] = content[e]
            /\ successor'[e] = successor[e],
         \A e \in Entries : Known(e) => status'[e] # "absent" /\ key'[e] = key[e],
         pc[s] # "idle" /\ Inserts(s) =>
            /\ status'[args[s].entry] = "absent"
            /\ args'[r].entry # args[s].entry,
         ownerLock = s => \A e \in Entries :
            status'[e] = "canon" => status[e] = "canon"
  PROVE  ReqInv(s)'
<1>1. AtOwnStatement(s)'
  BY DEF ReqInv, AtOwnStatement
<1>2. IdsInv(s)'
  <2> SUFFICES ASSUME pc[s] # "idle" PROVE IdsInv(s)'
    BY DEF IdsInv
  <2>1. args[s].entry \in Entries /\ args[s].old \in Entries \cup {None}
    BY Shape DEF ReqInv
  <2>2. IdsInv(s)
    BY DEF ReqInv
  <2>3. \A q \in Reqs : q # s /\ Inserts(s) => args'[q].entry # args[s].entry
    BY <2>2 DEF IdsInv
  <2>. QED
    BY <2>1, <2>2, <2>3 DEF IdsInv, Inserts, Known
<1>3. OwnerInv(s)'
  BY DEF ReqInv, OwnerInv, MakesCanon
<1>4. EditInv(s)'
  BY DEF ReqInv, EditInv, AtOwnStatement, CreateArgs,
         AuthorArgs, EditArgs, TransitionArgs, SupersedeArgs
<1>5. TransitionInv(s)'
  BY DEF ReqInv, TransitionInv, AtOwnStatement, CreateArgs,
         AuthorArgs, EditArgs, TransitionArgs, SupersedeArgs
<1>6. SupersedeInv(s)'
  BY DEF ReqInv, SupersedeInv, AtOwnStatement, CreateArgs, IdsInv, Inserts,
         AuthorArgs, EditArgs, TransitionArgs, SupersedeArgs, Lower, RowOk,
         Replaceable, Proposed, KeyOf, Known
<1>7. NoRivalInv(s)'
  <2> SUFFICES ASSUME pc[s] = "commit", MakesCanon(s), args[s].old = None,
                      IdentOf[KeyOf(s)'] \in SingleCurrent
               PROVE  RivalCanon(s)' = {}
    BY DEF NoRivalInv, MakesCanon
  <2>1. args[s].entry \in Entries
    BY Shape DEF ReqInv
  <2>2. KeyOf(s)' = KeyOf(s)
    BY <2>1, Shape DEF KeyOf, ReqInv, IdsInv, Inserts, Known
  <2>3. RivalCanon(s) = {} /\ ownerLock = s
    BY <2>2 DEF ReqInv, NoRivalInv, OwnerInv
  <2>4. \A e \in Entries : status'[e] = "canon" => status[e] = "canon" /\ key'[e] = key[e]
    BY <2>3 DEF Known
  <2>. QED
    BY <2>2, <2>3, <2>4 DEF RivalCanon, CanonOf
<1>. QED
  BY <1>1, <1>2, <1>3, <1>4, <1>5, <1>6, <1>7 DEF ReqInv

\* A step of r that changes no row keeps the invariant of the rows and of every
\* other request.
LEMMA Quiet ==
  ASSUME IInv, RowLocking, NEW r \in Reqs, UNCHANGED rows,
         \A s \in Reqs \ {r} :
            /\ pc'[s] = pc[s] /\ args'[s] = args[s] /\ seen'[s] = seen[s]
            /\ ownerLock = s => ownerLock' = s
            /\ \A e \in Entries : rowLock[e] = s => rowLock'[e] = s
            /\ pc[s] # "idle" /\ Inserts(s) => args'[r].entry # args[s].entry
  PROVE  RowsInv' /\ \A s \in Reqs \ {r} : ReqInv(s)'
<1>1. RowsInv'
  BY DEF IInv, rows, RowsInv, AbsentInv, AtMostOneCanon, SupersessionLinks,
         CaptureChain, CanonOf
<1>2. ASSUME NEW s \in Reqs \ {r} PROVE ReqInv(s)'
  <2>1. ReqInv(s)
    BY DEF IInv
  <2>2. \A e \in Entries : Known(e) => status'[e] # "absent" /\ key'[e] = key[e]
    BY DEF rows, Known
  <2>3. pc[s] # "idle" /\ Inserts(s) => status'[args[s].entry] = "absent"
    BY <2>1 DEF ReqInv, IdsInv, rows
  <2>. QED
    BY <2>1, <2>2, <2>3, Others DEF IInv, rows
<1>. QED
  BY <1>1, <1>2

\* The end of a transaction frees only its own locks, and leaves it idle.
LEMMA FinishEffect ==
  ASSUME TypeOK, NEW r \in Reqs, Finish(r)
  PROVE  /\ pc' \in [Reqs -> PCs] /\ args' \in [Reqs -> Args]
         /\ seen' \in [Reqs -> [text : Contents \cup {None}, ok : BOOLEAN]]
         /\ rowLock' \in [Entries -> Reqs \cup {None}]
         /\ ownerLock' \in Reqs \cup {None}
         /\ ownerShare' \in SUBSET Reqs /\ writer' \in Reqs \cup {None}
         /\ pc'[r] = "idle" /\ args'[r] = NoArgs
         /\ \A s \in Reqs \ {r} :
              /\ pc'[s] = pc[s] /\ args'[s] = args[s] /\ seen'[s] = seen[s]
              /\ ownerLock = s => ownerLock' = s
              /\ \A e \in Entries : rowLock[e] = s => rowLock'[e] = s
<1>1. NoArgs \in Args /\ NoSeen \in [text : Contents \cup {None}, ok : BOOLEAN]
      /\ "idle" \in PCs
  BY DEF NoArgs, Args, NoSeen, PCs
<1>. QED
  BY <1>1 DEF TypeOK, Finish, Release

\* An idle request relies on nothing.
LEMMA IdleInv ==
  ASSUME NEW r \in Reqs, pc'[r] = "idle", args'[r] = NoArgs
  PROVE  ReqInv(r)'
BY StoreAssumption DEF ReqInv, AtOwnStatement, IdsInv, OwnerInv, EditInv, TransitionInv,
       SupersedeInv, NoRivalInv

\* A request that ends without writing keeps the invariant.
LEMMA FinishIInv ==
  ASSUME IInv, RowLocking, NEW r \in Reqs, Finish(r), UNCHANGED rows
  PROVE  IInv'
<1>1. TypeOK /\ \A s \in Reqs : ReqInv(s)
  BY DEF IInv
<1>2. TypeOK'
  BY <1>1, FinishEffect DEF TypeOK, rows, Known
<1>3. ReqInv(r)'
  BY <1>1, FinishEffect, IdleInv
<1>4. \A s \in Reqs \ {r} : pc[s] # "idle" /\ Inserts(s) => args'[r].entry # args[s].entry
  BY <1>1, FinishEffect, Shape, StoreAssumption DEF NoArgs, ReqInv
<1>5. RowsInv' /\ \A s \in Reqs \ {r} : ReqInv(s)'
  BY <1>1, <1>4, FinishEffect, Quiet
<1>. QED
  BY <1>2, <1>3, <1>5 DEF IInv

\* A request that arrives.
LEMMA ArriveIInv ==
  ASSUME IInv, RowLocking, NEW r \in Reqs, Arrive(r)
  PROVE  IInv'
<1>. USE DEF IInv
<1>. DEFINE Started(label, a) ==
        /\ Begin(r, label, a)
        /\ a \in Args /\ label \in PCs
        /\ \/ a \in CreateArgs /\ label = "insert" /\ Unused(a.entry)
           \/ /\ a \in AuthorArgs /\ label = "owner" /\ Unused(a.entry)
              /\ a.old # None => Known(a.old)
           \/ a \in EditArgs /\ label = "load" /\ Known(a.entry)
           \/ /\ a \in TransitionArgs /\ Known(a.entry)
              /\ label = IF a.to = "canon" THEN "owner" ELSE "load"
           \/ /\ a \in SupersedeArgs /\ label = "owner"
              /\ Known(a.entry) /\ Known(a.old) /\ a.old # a.entry
<1>1. \E label, a : Started(label, a)
  <2>. USE DEF NoArgs, Args, PCs, Ops, Statuses
  <2>1. CASE BeginCreate(r)
    <3>1. PICK e \in Entries, k \in Keys, c \in Contents, s \in {"captured", "proposed"} :
            /\ Unused(e)
            /\ Begin(r, "insert", [NoArgs EXCEPT !.op = "create", !.entry = e, !.to = s, !.key = k, !.text = c])
      BY <2>1 DEF BeginCreate
    <3>2. Started("insert", [NoArgs EXCEPT !.op = "create", !.entry = e, !.to = s, !.key = k, !.text = c])
      BY <3>1, StoreAssumption DEF CreateArgs
    <3>. QED
      BY <3>2
  <2>2. CASE BeginAuthor(r)
    <3>1. PICK e \in Entries, k \in Keys, c \in Contents, old \in Entries \cup {None} :
            /\ Unused(e) /\ (old # None => Known(old))
            /\ Begin(r, "owner", [NoArgs EXCEPT !.op = "author", !.entry = e, !.old = old, !.key = k, !.text = c])
      BY <2>2 DEF BeginAuthor
    <3>2. Started("owner", [NoArgs EXCEPT !.op = "author", !.entry = e, !.old = old, !.key = k, !.text = c])
      BY <3>1, StoreAssumption DEF AuthorArgs
    <3>. QED
      BY <3>2
  <2>3. CASE BeginEdit(r)
    <3>1. PICK e \in Entries, c \in Contents :
            /\ Known(e)
            /\ Begin(r, "load", [NoArgs EXCEPT !.op = "edit", !.entry = e, !.text = c])
      BY <2>3 DEF BeginEdit
    <3>2. Started("load", [NoArgs EXCEPT !.op = "edit", !.entry = e, !.text = c])
      BY <3>1, StoreAssumption DEF EditArgs
    <3>. QED
      BY <3>2
  <2>4. CASE BeginTransition(r)
    <3>1. PICK e \in Entries, o \in {"accept", "reject", "update"}, s \in {"proposed", "canon", "rejected"} :
            /\ Known(e)
            /\ Begin(r, (IF s = "canon" THEN "owner" ELSE "load"), [NoArgs EXCEPT !.op = o, !.entry = e, !.to = s])
      BY <2>4 DEF BeginTransition
    <3>2. Started((IF s = "canon" THEN "owner" ELSE "load"), [NoArgs EXCEPT !.op = o, !.entry = e, !.to = s])
      BY <3>1, StoreAssumption DEF TransitionArgs
    <3>. QED
      BY <3>2
  <2>5. CASE BeginSupersede(r)
    <3>1. PICK old \in Entries, e \in Entries :
            /\ Known(old) /\ Known(e) /\ old # e
            /\ Begin(r, "owner", [NoArgs EXCEPT !.op = "supersede", !.entry = e, !.old = old])
      BY <2>5 DEF BeginSupersede
    <3>2. Started("owner", [NoArgs EXCEPT !.op = "supersede", !.entry = e, !.old = old])
      BY <3>1, StoreAssumption DEF SupersedeArgs
    <3>. QED
      BY <3>2
  <2>. QED
    BY <2>1, <2>2, <2>3, <2>4, <2>5 DEF Arrive
<1>. PICK label, a : Started(label, a)
  BY <1>1
<1>2. /\ UNCHANGED <<rows, seen, locks>>
      /\ pc[r] = "idle" /\ pc'[r] = label /\ args'[r] = a
      /\ pc' \in [Reqs -> PCs] /\ args' \in [Reqs -> Args]
      /\ \A s \in Reqs \ {r} : pc'[s] = pc[s] /\ args'[s] = args[s]
  BY <1>1 DEF Begin, Goto, TypeOK
<1>3. TypeOK'
  BY <1>2 DEF TypeOK, rows, locks, Known
<1>4. \A s \in Reqs \ {r} : pc[s] # "idle" /\ Inserts(s) => args'[r].entry # args[s].entry
  <2> SUFFICES ASSUME NEW s \in Reqs \ {r}, pc[s] # "idle", Inserts(s)
               PROVE  a.entry # args[s].entry
    BY <1>2
  <2>1. status[args[s].entry] = "absent"
    BY DEF ReqInv, IdsInv
  <2>. QED
    BY <1>1, <2>1 DEF Unused, Known
<1>5. RowsInv' /\ \A s \in Reqs \ {r} : ReqInv(s)'
  BY <1>2, <1>4, Quiet DEF locks
<1>6. ReqInv(r)'
  <2>1. AtOwnStatement(r)'
    BY <1>1, <1>2 DEF AtOwnStatement
  <2>2. IdsInv(r)'
    <3>1. a.op \in {"create", "author"} =>
            status[a.entry] = "absent" /\ \A s \in Reqs : args[s].entry # a.entry
      BY <1>1 DEF Unused, EditArgs, TransitionArgs, SupersedeArgs
    <3>2. a.op \notin {"create", "author"} => Known(a.entry)
      BY <1>1 DEF CreateArgs, AuthorArgs
    <3>3. a.old # None => Known(a.old) /\ a.old # a.entry
      BY <1>1 DEF Unused, Known, CreateArgs, EditArgs, TransitionArgs
    <3>. QED
      BY <1>2, <3>1, <3>2, <3>3 DEF IdsInv, Inserts, Known, rows
  <2>3. /\ label \in {"owner", "insert", "load"}
        /\ label # "owner" => a.op \notin {"author", "supersede"} /\ a.to # "canon"
    BY <1>1, StoreAssumption DEF CreateArgs, AuthorArgs, EditArgs, TransitionArgs, SupersedeArgs
  <2>. QED
    BY <1>2, <2>1, <2>2, <2>3 DEF ReqInv, OwnerInv, MakesCanon, EditInv, TransitionInv,
       SupersedeInv, NoRivalInv
<1>. QED
  BY <1>3, <1>5, <1>6

\* A statement of r that only takes free locks: everything but the invariant of
\* r itself.
LEMMA Advance ==
  ASSUME IInv, RowLocking, NEW r \in Reqs, NEW label \in PCs,
         pc[r] # "idle", Goto(r, label), UNCHANGED <<rows, args, writer>>,
         seen' \in [Reqs -> [text : Contents \cup {None}, ok : BOOLEAN]],
         \A s \in Reqs \ {r} : seen'[s] = seen[s],
         rowLock' \in [Entries -> Reqs \cup {None}],
         \A e \in Entries : rowLock'[e] = rowLock[e] \/ (rowLock[e] \in {None, r} /\ rowLock'[e] = r),
         ownerLock' = ownerLock \/ (ownerLock \in {None, r} /\ ownerLock' = r),
         ownerShare' \in SUBSET Reqs
  PROVE  /\ TypeOK' /\ RowsInv' /\ \A s \in Reqs \ {r} : ReqInv(s)'
         /\ pc'[r] = label /\ args'[r] = args[r] /\ IdsInv(r)'
         /\ \A e \in Entries : rowLock[e] = r => rowLock'[e] = r
         /\ ownerLock = r => ownerLock' = r
         /\ ReqInv(r) /\ TypeOK
<1>. USE DEF IInv
<1>1. TypeOK'
  BY DEF TypeOK, rows, Known, Goto
<1>2. pc'[r] = label /\ \A s \in Reqs \ {r} : pc'[s] = pc[s]
  BY DEF TypeOK, Goto
<1>3. None \notin Reqs
  BY StoreAssumption
<1>4. \A s \in Reqs \ {r} :
        /\ ownerLock = s => ownerLock' = s
        /\ \A e \in Entries : rowLock[e] = s => rowLock'[e] = s
        /\ pc[s] # "idle" /\ Inserts(s) => args'[r].entry # args[s].entry
  BY <1>3 DEF ReqInv, IdsInv
<1>5. RowsInv' /\ \A s \in Reqs \ {r} : ReqInv(s)'
  BY <1>2, <1>4, Quiet
<1>6. IdsInv(r)'
  <2>1. IdsInv(r)
    BY DEF ReqInv
  <2>. QED
    BY <2>1 DEF IdsInv, Inserts, Known, rows
<1>. QED
  BY <1>1, <1>2, <1>5, <1>6

\* _lock_active_owner()
LEMMA LockOwnerIInv ==
  ASSUME IInv, RowLocking, NEW r \in Reqs, LockOwner(r)
  PROVE  IInv'
<1>. DEFINE label == CASE args[r].op = "author" -> "insert"
                       [] args[r].op = "supersede" -> "first"
                       [] OTHER -> "load"
<1>1. /\ pc[r] = "owner" /\ ownerLock \in {None, r} /\ ownerLock' = r
      /\ Goto(r, label) /\ UNCHANGED <<rows, args, seen, rowLock, ownerShare, writer>>
  BY DEF LockOwner, CanLockOwner, TakeOwner
<1>2. label \in PCs
  BY DEF PCs
<1>. HIDE DEF label
<1>3. /\ TypeOK' /\ RowsInv' /\ \A s \in Reqs \ {r} : ReqInv(s)'
      /\ pc'[r] = label /\ args'[r] = args[r] /\ IdsInv(r)'
      /\ ReqInv(r) /\ TypeOK
  BY <1>1, <1>2, Advance DEF IInv, TypeOK
<1>4. AtOwnStatement(r)'
  BY <1>1, <1>3 DEF AtOwnStatement, label, ReqInv, CreateArgs, AuthorArgs, EditArgs,
     TransitionArgs, SupersedeArgs
<1>5. ReqInv(r)'
  BY <1>1, <1>3, <1>4 DEF ReqInv, OwnerInv, EditInv, TransitionInv, SupersedeInv,
     NoRivalInv, label
<1>. QED
  BY <1>3, <1>5 DEF IInv

\* repo.add()
LEMMA InsertIInv ==
  ASSUME IInv, RowLocking, NEW r \in Reqs, Insert(r)
  PROVE  IInv'
<1>. DEFINE label == CASE args[r].op = "create" -> "commit"
                       [] args[r].op = "author" /\ args[r].old # None -> "first"
                       [] OTHER -> CanonCheck(args[r].key)
<1>1. /\ pc[r] = "insert" /\ ownerShare' = ownerShare \cup {r} /\ writer' = writer
      /\ Goto(r, label) /\ UNCHANGED <<rows, args, seen, rowLock, ownerLock>>
  BY DEF Insert, TakeShare, TakeWriter
<1>2. label \in PCs
  BY DEF PCs, CanonCheck
<1>. HIDE DEF label
<1>3. /\ TypeOK' /\ RowsInv' /\ \A s \in Reqs \ {r} : ReqInv(s)'
      /\ pc'[r] = label /\ args'[r] = args[r] /\ IdsInv(r)'
      /\ ReqInv(r) /\ TypeOK
  BY <1>1, <1>2, Advance DEF IInv, TypeOK
<1>4. args[r].op \in {"create", "author"} /\ (args[r].op = "create" => args[r].to # "canon")
  BY <1>1, <1>3 DEF AtOwnStatement, ReqInv, CreateArgs, AuthorArgs
<1>5. AtOwnStatement(r)'
  BY <1>1, <1>3 DEF AtOwnStatement, label, ReqInv, CreateArgs, AuthorArgs, EditArgs,
     TransitionArgs, SupersedeArgs, CanonCheck
<1>6. OwnerInv(r)'
  BY <1>1, <1>3, <1>4 DEF ReqInv, OwnerInv, MakesCanon
<1>7. EditInv(r)' /\ TransitionInv(r)' /\ SupersedeInv(r)'
  BY <1>1, <1>3, <1>4, Shape DEF ReqInv, EditInv, TransitionInv, SupersedeInv, label, CanonCheck
<1>8. NoRivalInv(r)'
  BY <1>1, <1>3, <1>4, StoreAssumption DEF NoRivalInv, label, CanonCheck, KeyOf, MakesCanon
<1>. QED
  BY <1>3, <1>5, <1>6, <1>7, <1>8 DEF IInv, ReqInv

\* _get_for_update() of an edit or a transition
LEMMA LoadIInv ==
  ASSUME IInv, RowLocking, NEW r \in Reqs, Load(r)
  PROVE  IInv'
<1>. DEFINE e == args[r].entry
            label == CASE args[r].op = "edit" -> "flush"
                       [] args[r].to = "canon" -> CanonCheck(key[e])
                       [] OTHER -> "commit"
<1>1. pc[r] = "load" /\ rowLock[e] \in {None, r}
  BY DEF Load, CanLockRow
<1>2. CASE ~Admissible(r)
  BY <1>2, FinishIInv DEF Load
<1>3. CASE Admissible(r)
  <2>1. /\ rowLock' = [rowLock EXCEPT ![e] = r]
        /\ seen' = [seen EXCEPT ![r] = [text |-> content[e], ok |-> TRUE]]
        /\ Goto(r, label) /\ UNCHANGED <<rows, args, ownerLock, ownerShare, writer>>
    BY <1>3 DEF Load, TakeRow
  <2>2. label \in PCs
    BY DEF PCs, CanonCheck
  <2>. HIDE DEF label
  <2>3. TypeOK /\ ReqInv(r) /\ e \in Entries /\ content[e] \in Contents \cup {None}
    BY <1>1, Shape DEF IInv, ReqInv, TypeOK
  <2>4. /\ TypeOK' /\ RowsInv' /\ \A s \in Reqs \ {r} : ReqInv(s)'
        /\ pc'[r] = label /\ args'[r] = args[r] /\ IdsInv(r)'
    BY <1>1, <2>1, <2>2, <2>3, Advance DEF TypeOK
  <2>5. seen'[r].text = content[e] /\ rowLock'[e] = r
    BY <2>1, <2>3 DEF TypeOK
  <2>6. args[r] \in EditArgs \/ args[r] \in TransitionArgs
    BY <1>1, <2>3 DEF AtOwnStatement, ReqInv, CreateArgs, AuthorArgs, SupersedeArgs
  <2>7. AtOwnStatement(r)'
    BY <2>3, <2>4, <2>6, StoreAssumption DEF AtOwnStatement, label, CanonCheck, EditArgs, TransitionArgs
  <2>8. OwnerInv(r)'
    BY <1>1, <2>1, <2>3, <2>4 DEF ReqInv, OwnerInv, MakesCanon
  <2>9. EditInv(r)' /\ TransitionInv(r)'
    <3>1. args[r].op \in {"edit", "accept", "reject"} => status[e] = "proposed"
      BY <1>3 DEF Admissible
    <3>2. args[r].op # "edit" => <<status[e], args[r].to>> \in AllowedTransitions
      BY <1>3 DEF Admissible
    <3>. QED
      BY <2>1, <2>4, <2>5, <3>1, <3>2 DEF EditInv, TransitionInv, rows
  <2>10. SupersedeInv(r)' /\ NoRivalInv(r)'
    <3>1. args[r].old = None /\ args[r].op \notin {"author", "supersede"}
          /\ (args[r].op = "edit" => args[r].to # "canon")
      BY <2>6, StoreAssumption DEF EditArgs, TransitionArgs
    <3>2. label # "second"
      BY DEF label, CanonCheck
    <3>3. label = "commit" /\ MakesCanon(r) => IdentOf[key[e]] \notin SingleCurrent
      BY <3>1 DEF label, CanonCheck, MakesCanon
    <3>. QED
      BY <2>1, <2>4, <3>1, <3>2, <3>3 DEF SupersedeInv, NoRivalInv, MakesCanon, KeyOf, rows
  <2>. QED
    BY <2>4, <2>7, <2>8, <2>9, <2>10 DEF IInv, ReqInv
<1>. QED
  BY <1>2, <1>3

\* supersede() loads its two rows.
LEMMA LoadFirstIInv ==
  ASSUME IInv, RowLocking, NEW r \in Reqs, LoadFirst(r)
  PROVE  IInv'
<1>. DEFINE e == Lower(r)
<1>1. /\ pc[r] = "first" /\ rowLock[e] \in {None, r}
      /\ rowLock' = [rowLock EXCEPT ![e] = r]
      /\ seen' = [seen EXCEPT ![r] = [text |-> None, ok |-> RowOk(r, e)]]
      /\ Goto(r, "second") /\ UNCHANGED <<rows, args, ownerLock, ownerShare, writer>>
  BY DEF LoadFirst, CanLockRow, TakeRow
<1>2. TypeOK /\ ReqInv(r)
  BY DEF IInv
<1>3. e \in Entries /\ args[r].old \in Entries
  BY <1>1, <1>2, Shape DEF ReqInv, Lower
<1>4. RowOk(r, e) \in BOOLEAN
  BY DEF RowOk, Replaceable, Proposed
<1>5. seen' \in [Reqs -> [text : Contents \cup {None}, ok : BOOLEAN]]
  BY <1>1, <1>2, <1>4 DEF TypeOK
<1>6. rowLock' \in [Entries -> Reqs \cup {None}] /\ rowLock'[e] = r
  BY <1>1, <1>2, <1>3 DEF TypeOK
<1>7. /\ TypeOK' /\ RowsInv' /\ \A s \in Reqs \ {r} : ReqInv(s)'
      /\ pc'[r] = "second" /\ args'[r] = args[r] /\ IdsInv(r)'
  BY <1>1, <1>2, <1>3, <1>5, <1>6, Advance DEF TypeOK, PCs
<1>8. AtOwnStatement(r)'
  BY <1>1, <1>2, <1>7 DEF AtOwnStatement, ReqInv, CreateArgs, AuthorArgs, EditArgs,
     TransitionArgs, SupersedeArgs
<1>9. OwnerInv(r)'
  BY <1>1, <1>2, <1>7 DEF ReqInv, OwnerInv, MakesCanon
<1>10. SupersedeInv(r)'
  <2>1. Lower(r)' = Lower(r)
    BY <1>7 DEF Lower
  <2>2. seen'[r].ok = RowOk(r, e)
    BY <1>1, <1>2 DEF TypeOK
  <2>3. RowOk(r, e) => RowOk(r, e)'
    BY <1>1, <1>7, <2>1 DEF RowOk, Replaceable, Proposed, rows
  <2>. QED
    BY <1>6, <1>7, <2>1, <2>2, <2>3 DEF SupersedeInv
<1>11. EditInv(r)' /\ TransitionInv(r)' /\ NoRivalInv(r)'
  BY <1>7 DEF EditInv, TransitionInv, NoRivalInv
<1>. QED
  BY <1>7, <1>8, <1>9, <1>10, <1>11 DEF IInv, ReqInv

LEMMA LoadSecondIInv ==
  ASSUME IInv, RowLocking, NEW r \in Reqs, LoadSecond(r)
  PROVE  IInv'
<1>. DEFINE e == args[r].entry
            old == args[r].old
            Ok == seen[r].ok /\ RowOk(r, Upper(r)) /\ key[old] = KeyOf(r)
<1>1. pc[r] = "second" /\ rowLock[Upper(r)] \in {None, r}
  BY DEF LoadSecond, CanLockRow
<1>2. CASE ~Ok
  BY <1>2, FinishIInv DEF LoadSecond
<1>3. CASE Ok
  <2>1. /\ rowLock' = [rowLock EXCEPT ![Upper(r)] = r]
        /\ Goto(r, "commit") /\ UNCHANGED <<rows, args, seen, ownerLock, ownerShare, writer>>
    BY <1>3 DEF LoadSecond, TakeRow
  <2>2. TypeOK /\ ReqInv(r)
    BY DEF IInv
  <2>3. e \in Entries /\ old \in Entries /\ old # None
    BY <1>1, <2>2, Shape, StoreAssumption DEF ReqInv
  <2>4. e # old /\ {Lower(r), Upper(r)} = {e, old}
    BY <1>1, <2>2, <2>3 DEF ReqInv, IdsInv, Lower, Upper
  <2>5. rowLock' \in [Entries -> Reqs \cup {None}] /\ rowLock'[Upper(r)] = r
        /\ rowLock'[Lower(r)] = r
    <3>1. Upper(r) \in Entries /\ Lower(r) \in Entries
      BY <2>3 DEF Upper, Lower
    <3>2. rowLock \in [Entries -> Reqs \cup {None}] /\ rowLock[Lower(r)] = r
      BY <1>1, <2>2 DEF TypeOK, ReqInv, SupersedeInv
    <3>. QED
      BY <2>1, <3>1, <3>2
  <2>6. /\ TypeOK' /\ RowsInv' /\ \A s \in Reqs \ {r} : ReqInv(s)'
        /\ pc'[r] = "commit" /\ args'[r] = args[r] /\ IdsInv(r)'
    BY <1>1, <2>1, <2>2, <2>3, <2>4, <2>5, Advance DEF TypeOK, PCs
  <2>7. AtOwnStatement(r)' /\ OwnerInv(r)'
    BY <1>1, <2>1, <2>2, <2>6 DEF AtOwnStatement, ReqInv, OwnerInv, MakesCanon,
       CreateArgs, AuthorArgs, EditArgs, TransitionArgs, SupersedeArgs
  <2>8. args[r].op \in {"author", "supersede"}
    BY <1>1, <2>2, <2>3, Shape DEF ReqInv
  <2>9. Replaceable(old) /\ Proposed(r)
    BY <1>1, <1>3, <2>2, <2>4 DEF RowOk, ReqInv, SupersedeInv
  <2>10. SupersedeInv(r)'
    BY <1>3, <2>1, <2>4, <2>5, <2>6, <2>9
       DEF SupersedeInv, Replaceable, Proposed, KeyOf, rows
  <2>11. EditInv(r)' /\ TransitionInv(r)' /\ NoRivalInv(r)'
    BY <2>3, <2>6, <2>8 DEF EditInv, TransitionInv, NoRivalInv
  <2>. QED
    BY <2>6, <2>7, <2>10, <2>11 DEF IInv, ReqInv
<1>. QED
  BY <1>2, <1>3

\* find_active_canon_for_update()
LEMMA FindCanonIInv ==
  ASSUME IInv, RowLocking, NEW r \in Reqs, FindCanon(r)
  PROVE  IInv'
<1>1. CASE RivalCanon(r) # {}
  BY <1>1, FinishIInv DEF FindCanon
<1>2. CASE RivalCanon(r) = {}
  <2>1. pc[r] = "canon" /\ Goto(r, "commit") /\ UNCHANGED <<rows, args, seen, locks>>
    BY <1>2 DEF FindCanon
  <2>2. TypeOK /\ ReqInv(r)
    BY DEF IInv
  <2>3. /\ TypeOK' /\ RowsInv' /\ \A s \in Reqs \ {r} : ReqInv(s)'
        /\ pc'[r] = "commit" /\ args'[r] = args[r] /\ IdsInv(r)'
    BY <2>1, <2>2, Advance DEF TypeOK, PCs, locks
  <2>4. /\ AtOwnStatement(r)' /\ args[r].old = None
        /\ args[r].op \in {"author", "accept", "reject", "update"}
    BY <2>1, <2>2, <2>3 DEF AtOwnStatement, ReqInv, CreateArgs, AuthorArgs, EditArgs,
       TransitionArgs, SupersedeArgs
  <2>5. OwnerInv(r)' /\ EditInv(r)' /\ TransitionInv(r)' /\ SupersedeInv(r)'
    BY <2>1, <2>2, <2>3, <2>4 DEF ReqInv, OwnerInv, MakesCanon, EditInv,
       TransitionInv, SupersedeInv, rows, locks
  <2>6. NoRivalInv(r)'
    BY <1>2, <2>1, <2>3 DEF NoRivalInv, RivalCanon, CanonOf, KeyOf, rows
  <2>. QED
    BY <2>3, <2>4, <2>5, <2>6 DEF IInv, ReqInv
<1>. QED
  BY <1>1, <1>2

\* The flush of a Review Card edit
LEMMA FlushIInv ==
  ASSUME IInv, RowLocking, NEW r \in Reqs, Flush(r)
  PROVE  IInv'
<1>1. /\ pc[r] = "flush" /\ Goto(r, "commit")
      /\ UNCHANGED <<rows, args, seen, rowLock, ownerLock, writer>>
      /\ ownerShare' \in {ownerShare, ownerShare \cup {r}}
  BY DEF Flush, TakeShare, TakeWriter
<1>2. TypeOK /\ ReqInv(r)
  BY DEF IInv
<1>3. /\ TypeOK' /\ RowsInv' /\ \A s \in Reqs \ {r} : ReqInv(s)'
      /\ pc'[r] = "commit" /\ args'[r] = args[r] /\ IdsInv(r)'
  BY <1>1, <1>2, Advance DEF TypeOK, PCs
<1>4. AtOwnStatement(r)' /\ args[r] \in EditArgs
  BY <1>1, <1>2, <1>3 DEF AtOwnStatement, ReqInv, CreateArgs, AuthorArgs,
     TransitionArgs, SupersedeArgs
<1>5. args[r].op = "edit" /\ args[r].old = None /\ ~MakesCanon(r)
  BY <1>4, StoreAssumption DEF EditArgs, MakesCanon
<1>6. EditInv(r)'
  BY <1>1, <1>2, <1>3, <1>5 DEF EditInv, ReqInv, rows
<1>7. OwnerInv(r)' /\ TransitionInv(r)' /\ SupersedeInv(r)' /\ NoRivalInv(r)'
  BY <1>3, <1>5 DEF OwnerInv, MakesCanon, TransitionInv, SupersedeInv, NoRivalInv
<1>. QED
  BY <1>3, <1>4, <1>6, <1>7 DEF IInv, ReqInv

\* A commit of r changes only rows r has locked or inserted, so it keeps what
\* every other request relies on.
LEMMA CommitOthers ==
  ASSUME IInv, RowLocking, NEW r \in Reqs, pc[r] = "commit", Finish(r),
         \A e \in Entries :
            \/ e \in {args[r].entry, args[r].old} /\ rowLock[e] = r
            \/ e = args[r].entry /\ Inserts(r)
            \/ /\ status'[e] = status[e] /\ content'[e] = content[e]
               /\ successor'[e] = successor[e],
         \A e \in Entries : Known(e) => status'[e] # "absent" /\ key'[e] = key[e],
         \A e \in Entries : status'[e] = "canon" => status[e] = "canon" \/ MakesCanon(r)
  PROVE  \A s \in Reqs \ {r} : ReqInv(s)'
<1>. SUFFICES ASSUME NEW s \in Reqs \ {r} PROVE ReqInv(s)'
  OBVIOUS
<1>1. TypeOK /\ ReqInv(r) /\ ReqInv(s)
  BY DEF IInv
<1>2. /\ pc'[s] = pc[s] /\ args'[s] = args[s] /\ seen'[s] = seen[s]
      /\ \A q \in Reqs \ {r} : args'[q] = args[q]
      /\ ownerLock = s => ownerLock' = s
      /\ \A e \in Entries : rowLock[e] = s => rowLock'[e] = s
      /\ args'[r].entry = None
  BY <1>1, FinishEffect DEF NoArgs
<1>3. Inserts(r) => /\ status[args[r].entry] = "absent"
                   /\ args[s].entry # args[r].entry
  BY <1>1 DEF ReqInv, IdsInv
<1>4. ownerLock = s => ~MakesCanon(r)
  BY <1>1 DEF ReqInv, OwnerInv
<1>5. CASE pc[s] = "idle"
  BY <1>1, <1>2, <1>5, IdleInv DEF ReqInv, AtOwnStatement
<1>6. CASE pc[s] # "idle"
  <2>1. args[s].entry \in Entries /\ args[s].entry # None
    BY <1>1, <1>6, Shape, StoreAssumption DEF ReqInv
  <2>2. \A e \in {args[s].entry, args[s].old} : e \in Entries /\ Inserts(r) => e # args[r].entry
    BY <1>1, <1>3, <1>6, StoreAssumption DEF ReqInv, IdsInv, Known
  <2>3. \A e \in {args[s].entry, args[s].old} : e \in Entries /\ rowLock[e] = s =>
            /\ rowLock'[e] = s
            /\ status'[e] = status[e] /\ content'[e] = content[e]
            /\ successor'[e] = successor[e]
    BY <1>2, <2>2
  <2>4. Inserts(s) => /\ status[args[s].entry] = "absent"
                     /\ args[r].entry # args[s].entry
    BY <1>1, <1>6 DEF ReqInv, IdsInv
  <2>5. Inserts(s) => status'[args[s].entry] = "absent"
    <3>1. Inserts(s) => args[r].old # args[s].entry
      BY <1>1, <2>1, <2>4, StoreAssumption DEF ReqInv, IdsInv, Known
    <3>. QED
      BY <2>1, <2>4, <3>1
  <2>. QED
    BY <1>1, <1>2, <1>4, <2>1, <2>3, <2>4, <2>5, Others
<1>. QED
  BY <1>5, <1>6

\* What the invariant gives a request at its commit.
LEMMA AtCommit ==
  ASSUME IInv, NEW r \in Reqs, pc[r] = "commit"
  PROVE  /\ TypeOK /\ RowsInv /\ ReqInv(r)
         /\ args[r].entry \in Entries
         /\ args[r].op = "create" =>
              /\ status[args[r].entry] = "absent" /\ args[r].old = None
              /\ args[r].to \in {"captured", "proposed"}
              /\ args[r].key \in Keys /\ args[r].text \in Contents
         /\ args[r].op = "author" =>
              /\ status[args[r].entry] = "absent"
              /\ args[r].key \in Keys /\ args[r].text \in Contents
         /\ args[r].op = "edit" =>
              /\ status[args[r].entry] = "proposed" /\ rowLock[args[r].entry] = r
              /\ seen[r].text = content[args[r].entry]
              /\ args[r].old = None /\ args[r].text \in Contents
         /\ args[r].op \in {"accept", "reject", "update"} =>
              /\ <<status[args[r].entry], args[r].to>> \in AllowedTransitions
              /\ rowLock[args[r].entry] = r
              /\ args[r].old = None
              /\ args[r].to = "canon" /\ IdentOf[key[args[r].entry]] \in SingleCurrent
                   => RivalCanon(r) = {}
         /\ args[r].op = "supersede" => args[r].old \in Entries
         /\ args[r].op = "supersede" =>
              /\ status[args[r].entry] = "proposed"
              /\ key[args[r].old] = key[args[r].entry]
         /\ args[r].op = "author" /\ args[r].old # None =>
              /\ args[r].old \in Entries
              /\ key[args[r].old] = args[r].key
         /\ /\ args[r].op = "author" /\ args[r].old = None
            /\ IdentOf[args[r].key] \in SingleCurrent
            => RivalCanon(r) = {}
         /\ args[r].old # None =>
              /\ rowLock[args[r].entry] = r /\ rowLock[args[r].old] = r
              /\ status[args[r].old] = "canon" /\ successor[args[r].old] = None
              /\ args[r].old # args[r].entry
<1>1. TypeOK /\ RowsInv /\ ReqInv(r)
  BY DEF IInv
<1>2. AtOwnStatement(r) /\ IdsInv(r) /\ EditInv(r) /\ TransitionInv(r) /\ SupersedeInv(r)
      /\ NoRivalInv(r)
  BY <1>1 DEF ReqInv
<1>3. args[r].op = "supersede" => args[r].old \in Entries /\ args[r].old # None
  BY <1>2, Shape, StoreAssumption
<1>. QED
  BY <1>1, <1>2, <1>3, Shape DEF IdsInv, EditInv, TransitionInv, SupersedeInv, NoRivalInv,
     Inserts, KeyOf, MakesCanon, Replaceable, Proposed

\* create() commits.
LEMMA CommitCreateIInv ==
  ASSUME IInv, RowLocking, NEW r \in Reqs, pc[r] = "commit", CommitCreate(r), Finish(r)
  PROVE  IInv'
<1>. DEFINE e == args[r].entry
<1>1. /\ args[r].op = "create"
      /\ status' = [status EXCEPT ![e] = args[r].to]
      /\ key' = [key EXCEPT ![e] = args[r].key]
      /\ content' = [content EXCEPT ![e] = args[r].text]
      /\ UNCHANGED <<successor, captures>>
  BY DEF CommitCreate
<1>2. /\ TypeOK /\ RowsInv /\ e \in Entries /\ status[e] = "absent"
      /\ args[r].to \in {"captured", "proposed"}
      /\ args[r].key \in Keys /\ args[r].text \in Contents
  BY <1>1, AtCommit
<1>3. TypeOK'
  <2>1. /\ status' \in [Entries -> Statuses \cup {"absent"}]
        /\ key' \in [Entries -> Keys \cup {None}]
        /\ content' \in [Entries -> Contents \cup {None}]
    BY <1>1, <1>2 DEF TypeOK, Statuses
  <2>2. \A f \in Entries : Known(f)' => key'[f] \in Keys /\ content'[f] \in Contents
    BY <1>1, <1>2 DEF TypeOK, Known
  <2>. QED
    BY <1>1, <1>2, <2>1, <2>2, FinishEffect DEF TypeOK
<1>4. RowsInv'
  <2>1. \A f \in Entries : f # e => status'[f] = status[f] /\ key'[f] = key[f] /\ content'[f] = content[f]
    BY <1>1, <1>2 DEF TypeOK
  <2>2. status'[e] \in {"captured", "proposed"} /\ captures[e] = <<>>
        /\ successor[e] = None
    BY <1>1, <1>2 DEF TypeOK, RowsInv, AbsentInv, SupersessionLinks
  <2>3. AbsentInv' /\ AtMostOneCanon'
    BY <1>1, <1>2, <2>1, <2>2 DEF RowsInv, AbsentInv, AtMostOneCanon, CanonOf
  <2>4. SupersessionLinks'
    BY <1>1, <1>2, <2>1, <2>2 DEF RowsInv, SupersessionLinks, TypeOK
  <2>5. CaptureChain'
    <3>1. Len(captures[e]) = 0
      BY <2>2
    <3>. QED
      BY <1>1, <1>2, <2>1, <3>1 DEF RowsInv, CaptureChain
  <2>. QED
    BY <2>3, <2>4, <2>5 DEF RowsInv
<1>5. \A s \in Reqs \ {r} : ReqInv(s)'
  <2>1. \A f \in Entries : f # e => status'[f] = status[f] /\ key'[f] = key[f] /\ content'[f] = content[f]
    BY <1>1, <1>2 DEF TypeOK
  <2>2. status'[e] \in {"captured", "proposed"}
    BY <1>1, <1>2 DEF TypeOK
  <2>. QED
    BY <1>1, <1>2, <2>1, <2>2, CommitOthers DEF Inserts, Known
<1>6. ReqInv(r)'
  BY <1>2, FinishEffect, IdleInv
<1>. QED
  BY <1>3, <1>4, <1>5, <1>6 DEF IInv

\* A sequence of captures that is a chain ending in text c.
Chain(q, c) ==
    /\ Len(q) > 0 => q[Len(q)].after = c
    /\ \A k \in 1 .. Len(q) : q[k].before # q[k].after
    /\ \A k \in 1 .. Len(q) - 1 : q[k + 1].before = q[k].after

\* Appending a capture that starts where the chain ends gives a chain again.
LEMMA AppendChain ==
  ASSUME NEW q \in Seq(Captures), NEW p \in Captures, p.before # p.after,
         Chain(q, p.before)
  PROVE  Chain(Append(q, p), p.after)
<1>. DEFINE n == Len(q)
            t == Append(q, p)
<1>1. /\ n \in Nat /\ Len(t) = n + 1 /\ t[n + 1] = p
      /\ \A k \in 1 .. n : t[k] = q[k]
  OBVIOUS
<1>2. /\ n > 0 => q[n].after = p.before
      /\ \A k \in 1 .. n : q[k].before # q[k].after
      /\ \A k \in 1 .. n - 1 : q[k + 1].before = q[k].after
  BY DEF Chain
<1>. HIDE DEF n, t
<1>3. ASSUME NEW k \in 1 .. n + 1 PROVE t[k].before # t[k].after
  <2>1. k = n + 1 \/ k \in 1 .. n
    BY <1>1
  <2>. QED
    BY <1>1, <1>2, <2>1
<1>4. ASSUME NEW k \in 1 .. n PROVE t[k + 1].before = t[k].after
  <2>1. k = n \/ k \in 1 .. n - 1
    BY <1>1
  <2>2. CASE k = n
    BY <1>1, <1>2, <2>2
  <2>3. CASE k \in 1 .. n - 1
    <3>1. k \in 1 .. n /\ k + 1 \in 1 .. n
      BY <1>1, <2>3
    <3>. QED
      BY <1>1, <1>2, <2>3, <3>1
  <2>. QED
    BY <2>1, <2>2, <2>3
<1>5. Len(t) - 1 = n
  BY <1>1
<1>. QED
  BY <1>1, <1>3, <1>4, <1>5 DEF Chain, t

\* edit_review_entry() commits.
LEMMA CommitEditIInv ==
  ASSUME IInv, RowLocking, NEW r \in Reqs, pc[r] = "commit", CommitEdit(r), Finish(r)
  PROVE  IInv'
<1>. DEFINE e == args[r].entry
            pair == [before |-> seen[r].text, after |-> args[r].text]
<1>1. args[r].op = "edit" /\ UNCHANGED <<status, key, successor>>
  BY DEF CommitEdit
<1>2. /\ TypeOK /\ RowsInv /\ e \in Entries /\ status[e] = "proposed" /\ rowLock[e] = r
      /\ seen[r].text = content[e] /\ args[r].text \in Contents
  BY <1>1, AtCommit
<1>3. content[e] \in Contents
  BY <1>2 DEF TypeOK, Known
<1>4. CASE ~Changes(r)
  <2>1. UNCHANGED rows
    BY <1>1, <1>4 DEF CommitEdit, rows
  <2>. QED
    BY <2>1, FinishIInv
<1>5. CASE Changes(r)
  <2>1. /\ content' = [content EXCEPT ![e] = args[r].text]
        /\ captures' = [captures EXCEPT ![e] = Append(captures[e], pair)]
    BY <1>5 DEF CommitEdit
  <2>2. pair \in Captures /\ captures[e] \in Seq(Captures)
    BY <1>2, <1>3 DEF Captures, TypeOK
  <2>3. TypeOK'
    <3>1. content' \in [Entries -> Contents \cup {None}]
      BY <1>2, <2>1 DEF TypeOK
    <3>2. captures' \in [Entries -> Seq(Captures)]
      BY <1>2, <2>1, <2>2 DEF TypeOK
    <3>3. \A f \in Entries : Known(f)' => key'[f] \in Keys /\ content'[f] \in Contents
      BY <1>1, <1>2, <2>1 DEF TypeOK, Known
    <3>. QED
      BY <1>1, <1>2, <3>1, <3>2, <3>3, FinishEffect DEF TypeOK
  <2>4. AbsentInv' /\ AtMostOneCanon' /\ SupersessionLinks'
    BY <1>1, <1>2, <2>1 DEF RowsInv, AbsentInv, AtMostOneCanon, CanonOf,
       SupersessionLinks, TypeOK
  <2>5. CaptureChain'
    <3>1. \A f \in Entries : f # e => captures'[f] = captures[f] /\ content'[f] = content[f]
      BY <1>2, <2>1 DEF TypeOK
    <3>2. captures'[e] = Append(captures[e], pair) /\ content'[e] = args[r].text
      BY <1>2, <2>1 DEF TypeOK
    <3>3. pair.before = content[e] /\ pair.after = args[r].text /\ pair.before # pair.after
      BY <1>2, <1>5 DEF Changes
    <3>4. Chain(captures[e], content[e])
      BY <1>2 DEF RowsInv, CaptureChain, Chain
    <3>. HIDE DEF pair
    <3>5. Chain(captures'[e], content'[e])
      BY <2>2, <3>2, <3>3, <3>4, AppendChain
    <3>6. \A f \in Entries : Chain(captures'[f], content'[f])
      BY <1>2, <3>1, <3>5 DEF RowsInv, CaptureChain, Chain
    <3>. QED
      BY <3>6 DEF CaptureChain, Chain
  <2>6. \A s \in Reqs \ {r} : ReqInv(s)'
    BY <1>1, <1>2, <2>1, CommitOthers DEF Known, TypeOK
  <2>7. ReqInv(r)'
    BY <1>2, FinishEffect, IdleInv
  <2>. QED
    BY <2>3, <2>4, <2>5, <2>6, <2>7 DEF IInv, RowsInv
<1>. QED
  BY <1>4, <1>5

\* _transition_status() commits.
LEMMA CommitTransitionIInv ==
  ASSUME IInv, RowLocking, NEW r \in Reqs, pc[r] = "commit", CommitTransition(r), Finish(r)
  PROVE  IInv'
<1>. DEFINE e == args[r].entry
<1>1. /\ args[r].op \in {"accept", "reject", "update"}
      /\ status' = [status EXCEPT ![e] = args[r].to]
      /\ UNCHANGED <<key, content, successor, captures>>
  BY DEF CommitTransition
<1>2. /\ TypeOK /\ RowsInv /\ ReqInv(r) /\ e \in Entries /\ rowLock[e] = r
      /\ <<status[e], args[r].to>> \in AllowedTransitions
      /\ args[r].to = "canon" /\ IdentOf[key[e]] \in SingleCurrent => RivalCanon(r) = {}
  BY <1>1, AtCommit
<1>3. /\ status[e] \in {"captured", "proposed"}
      /\ args[r].to \in {"proposed", "canon", "rejected"}
  BY <1>2 DEF AllowedTransitions
<1>4. /\ \A f \in Entries : f # e => status'[f] = status[f]
      /\ status'[e] = args[r].to
  BY <1>1, <1>2 DEF TypeOK
<1>5. TypeOK'
  BY <1>1, <1>2, <1>3, <1>4, FinishEffect DEF TypeOK, Known, Statuses
<1>6. AbsentInv' /\ CaptureChain'
  BY <1>1, <1>2, <1>3, <1>4 DEF RowsInv, AbsentInv, CaptureChain
<1>7. SupersessionLinks'
  BY <1>1, <1>2, <1>3, <1>4 DEF RowsInv, SupersessionLinks, TypeOK
<1>8. AtMostOneCanon'
  <2> SUFFICES ASSUME NEW i \in SingleCurrent, NEW f \in CanonOf(i)', NEW g \in CanonOf(i)'
               PROVE  f = g
    BY DEF AtMostOneCanon
  <2>1. CASE args[r].to # "canon"
    BY <1>1, <1>2, <1>4, <2>1 DEF RowsInv, AtMostOneCanon, CanonOf
  <2>2. CASE args[r].to = "canon"
    <3>1. KeyOf(r) = key[e]
      BY <1>1 DEF KeyOf
    <3>2. IdentOf[key[e]] = i => CanonOf(i) \ {e} = {}
      BY <1>2, <2>2, <3>1 DEF RivalCanon
    <3>. QED
      BY <1>1, <1>2, <1>4, <3>2 DEF RowsInv, AtMostOneCanon, CanonOf
  <2>. QED
    BY <2>1, <2>2
<1>9. \A s \in Reqs \ {r} : ReqInv(s)'
  BY <1>1, <1>2, <1>3, <1>4, CommitOthers DEF Known, MakesCanon
<1>10. ReqInv(r)'
  BY <1>2, FinishEffect, IdleInv
<1>. QED
  BY <1>5, <1>6, <1>7, <1>8, <1>9, <1>10 DEF IInv, RowsInv

\* The replacement of the canon row old by e, whether e is inserted or accepted:
\* what it does to the statuses and links of all rows.
LEMMA ReplaceRows ==
  ASSUME TypeOK, RowsInv, NEW e \in Entries, NEW old \in Entries, e # old,
         status[e] \in {"absent", "proposed"}, status[old] = "canon",
         status' = [status EXCEPT ![e] = "canon", ![old] = "superseded"],
         successor' = [successor EXCEPT ![old] = e],
         key'[e] = key[old], \A f \in Entries : f # e => key'[f] = key[f]
  PROVE  AtMostOneCanon' /\ SupersessionLinks'
<1>1. /\ status'[e] = "canon" /\ status'[old] = "superseded"
      /\ \A f \in Entries : f \notin {e, old} => status'[f] = status[f]
      /\ successor'[old] = e /\ \A f \in Entries : f # old => successor'[f] = successor[f]
  BY DEF TypeOK
<1>2. AtMostOneCanon'
  <2> SUFFICES ASSUME NEW i \in SingleCurrent, NEW f \in CanonOf(i)', NEW g \in CanonOf(i)'
               PROVE  f = g
    BY DEF AtMostOneCanon
  <2>1. \A h \in CanonOf(i)' : h \in Entries /\ h # old /\ IdentOf[key'[h]] = i
                              /\ (h = e \/ h \in CanonOf(i))
    BY <1>1 DEF CanonOf
  <2>2. IdentOf[key[old]] = i => old \in CanonOf(i)
    BY DEF CanonOf
  <2>3. f # e /\ g # e => f = g
    BY <2>1 DEF RowsInv, AtMostOneCanon
  <2>4. ASSUME NEW h \in CanonOf(i)', h # e PROVE e \notin CanonOf(i)'
    <3>1. e \in CanonOf(i)' => old \in CanonOf(i)
      BY <2>1, <2>2
    <3>2. old \in CanonOf(i) => h = old
      BY <2>1, <2>4 DEF RowsInv, AtMostOneCanon
    <3>. QED
      BY <2>1, <3>1, <3>2
  <2>. QED
    BY <2>3, <2>4
<1>3. SupersessionLinks'
  <2>1. \A f \in Entries : successor[f] # None =>
          /\ successor[f] \in Entries /\ status[f] = "superseded"
          /\ status[successor[f]] \in {"canon", "superseded"}
          /\ key[successor[f]] = key[f]
          /\ \A g \in Entries : successor[g] = successor[f] => g = f
    BY DEF RowsInv, SupersessionLinks, TypeOK
  <2>2. \A f \in Entries : successor[f] # e
    BY <2>1, StoreAssumption
  <2>3. \A f \in Entries : successor'[f] # None <=> status'[f] = "superseded"
    <3> SUFFICES ASSUME NEW f \in Entries
                 PROVE  successor'[f] # None <=> status'[f] = "superseded"
      OBVIOUS
    <3>1. successor[f] # None <=> status[f] = "superseded"
      BY DEF RowsInv, SupersessionLinks
    <3>2. CASE f = e
      BY <1>1, <3>1, <3>2
    <3>3. CASE f = old
      BY <1>1, <3>3, StoreAssumption
    <3>. QED
      BY <1>1, <3>1, <3>2, <3>3
  <2>4. ASSUME NEW f \in Entries, successor'[f] # None
        PROVE  /\ status'[successor'[f]] \in {"canon", "superseded"}
               /\ key'[successor'[f]] = key'[f]
               /\ \A g \in Entries : successor'[g] = successor'[f] => g = f
    <3>1. CASE f = old
      BY <1>1, <2>2, <3>1
    <3>2. CASE f # old
      <4>1. successor'[f] = successor[f] /\ successor[f] \in Entries /\ f # e
        BY <1>1, <2>1, <2>4, <3>2
      <4>2. \A g \in Entries : successor'[g] = successor'[f] => g # old
        BY <1>1, <2>2, <4>1
      <4>3. \A g \in Entries : successor'[g] = successor'[f] => g = f
        BY <1>1, <2>1, <2>4, <4>1, <4>2
      <4>4. successor[f] # e /\ status[successor[f]] \in {"canon", "superseded"}
            /\ key[successor[f]] = key[f]
        BY <2>1, <2>2, <2>4, <4>1
      <4>5. status'[successor[f]] \in {"canon", "superseded"}
        BY <1>1, <4>1, <4>4
      <4>. QED
        BY <4>1, <4>3, <4>4, <4>5
    <3>. QED
      BY <3>1, <3>2
  <2>. QED
    BY <2>3, <2>4 DEF SupersessionLinks
<1>. QED
  BY <1>2, <1>3

\* create_user_authored() commits.
LEMMA CommitAuthorIInv ==
  ASSUME IInv, RowLocking, NEW r \in Reqs, pc[r] = "commit", CommitAuthor(r), Finish(r)
  PROVE  IInv'
<1>. DEFINE e == args[r].entry
            old == args[r].old
<1>1. /\ args[r].op = "author"
      /\ key' = [key EXCEPT ![e] = args[r].key]
      /\ content' = [content EXCEPT ![e] = args[r].text]
      /\ UNCHANGED captures
  BY DEF CommitAuthor
<1>2. /\ TypeOK /\ RowsInv /\ ReqInv(r) /\ e \in Entries /\ status[e] = "absent"
      /\ args[r].key \in Keys /\ args[r].text \in Contents
  BY <1>1, AtCommit
<1>3. /\ key'[e] = args[r].key /\ content'[e] = args[r].text
      /\ \A f \in Entries : f # e => key'[f] = key[f] /\ content'[f] = content[f]
  BY <1>1, <1>2 DEF TypeOK
<1>4. /\ status'[e] = "canon" /\ status' \in [Entries -> Statuses \cup {"absent"}]
      /\ successor' \in [Entries -> Entries \cup {None}]
      /\ \A f \in Entries : f # e /\ f # old =>
            status'[f] = status[f] /\ successor'[f] = successor[f]
      /\ old # None => /\ old \in Entries /\ old # e /\ rowLock[old] = r
                       /\ status'[old] = "superseded" /\ status[old] = "canon"
                       /\ key[old] = args[r].key
  <2>1. CASE old = None
    BY <1>1, <1>2, <2>1 DEF CommitAuthor, TypeOK, Statuses
  <2>2. CASE old # None
    <3>1. /\ old \in Entries /\ old # e /\ rowLock[old] = r
          /\ status[old] = "canon" /\ key[old] = args[r].key
      BY <1>1, <2>2, AtCommit
    <3>. QED
      BY <1>1, <1>2, <2>2, <3>1 DEF CommitAuthor, TypeOK, Statuses
  <2>. QED
    BY <2>1, <2>2
<1>5. TypeOK'
  <2>1. /\ key' \in [Entries -> Keys \cup {None}]
        /\ content' \in [Entries -> Contents \cup {None}]
    BY <1>1, <1>2 DEF TypeOK
  <2>2. \A f \in Entries : Known(f)' => key'[f] \in Keys /\ content'[f] \in Contents
    <3>1. \A f \in Entries : f # e => (Known(f)' <=> Known(f))
      BY <1>2, <1>4, StoreAssumption DEF Known
    <3>. QED
      BY <1>2, <1>3, <3>1 DEF TypeOK
  <2>. QED
    BY <1>1, <1>2, <1>4, <2>1, <2>2, FinishEffect DEF TypeOK
<1>6. AbsentInv' /\ CaptureChain'
  <2>1. captures[e] = <<>>
    BY <1>2 DEF RowsInv, AbsentInv
  <2>2. Len(captures[e]) = 0
    BY <2>1
  <2>. QED
    <3>1. AbsentInv'
      BY <1>1, <1>2, <1>4, StoreAssumption DEF RowsInv, AbsentInv
    <3>2. CaptureChain'
      BY <1>1, <1>2, <1>3, <2>2 DEF RowsInv, CaptureChain
    <3>. QED
      BY <3>1, <3>2
<1>7. AtMostOneCanon' /\ SupersessionLinks'
  <2>1. CASE old = None
    <3>1. UNCHANGED successor /\ \A f \in Entries : f # e => status'[f] = status[f]
      BY <1>4, <2>1, StoreAssumption DEF CommitAuthor
    <3>2. IdentOf[args[r].key] \in SingleCurrent => CanonOf(IdentOf[args[r].key]) = {}
      <4>1. IdentOf[args[r].key] \in SingleCurrent => RivalCanon(r) = {}
        BY <1>1, <2>1, AtCommit
      <4>2. e \notin CanonOf(IdentOf[args[r].key])
        BY <1>2 DEF CanonOf
      <4>. QED
        BY <1>1, <4>1, <4>2 DEF RivalCanon, KeyOf
    <3>3. AtMostOneCanon'
      BY <1>2, <1>3, <1>4, <3>1, <3>2 DEF RowsInv, AtMostOneCanon, CanonOf
    <3>4. SupersessionLinks'
      <4>1. \A f \in Entries : successor[f] # None =>
              /\ successor[f] \in Entries /\ successor[f] # e
              /\ key[successor[f]] = key[f]
              /\ status[successor[f]] \in {"canon", "superseded"}
              /\ \A g \in Entries : successor[g] = successor[f] => g = f
        BY <1>2 DEF RowsInv, SupersessionLinks, TypeOK
      <4>2. \A f \in Entries : successor[f] # None <=> status[f] = "superseded"
        BY <1>2 DEF RowsInv, SupersessionLinks
      <4>3. \A f \in Entries : successor[f] # None => f # e
        BY <1>2, <4>2
      <4>4. \A f \in Entries : successor[f] # None <=> status'[f] = "superseded"
        BY <1>2, <1>4, <3>1, <4>2, <4>3
      <4>5. \A f \in Entries : successor[f] # None =>
              /\ key'[successor[f]] = key'[f]
              /\ status'[successor[f]] \in {"canon", "superseded"}
        BY <1>3, <3>1, <4>1, <4>3
      <4>. QED
        BY <3>1, <4>1, <4>4, <4>5 DEF SupersessionLinks
    <3>. QED
      BY <3>3, <3>4
  <2>2. CASE old # None
    <3>1. /\ status' = [status EXCEPT ![e] = "canon", ![old] = "superseded"]
          /\ successor' = [successor EXCEPT ![old] = e]
      BY <2>2 DEF CommitAuthor
    <3>2. old \in Entries /\ old # e /\ status[old] = "canon" /\ key'[e] = key[old]
      BY <1>3, <1>4, <2>2
    <3>. QED
      BY <1>2, <1>3, <3>1, <3>2, ReplaceRows
  <2>. QED
    BY <2>1, <2>2
<1>8. \A s \in Reqs \ {r} : ReqInv(s)'
  <2>1. MakesCanon(r) /\ Inserts(r)
    BY <1>1 DEF MakesCanon, Inserts
  <2>2. \A f \in Entries : f # e => (Known(f)' <=> Known(f))
    BY <1>2, <1>4, StoreAssumption DEF Known
  <2>3. \A f \in Entries : Known(f) => status'[f] # "absent" /\ key'[f] = key[f]
    BY <1>2, <1>3, <2>2 DEF Known
  <2>4. \A f \in Entries :
            \/ f \in {e, old} /\ rowLock[f] = r
            \/ f = e /\ Inserts(r)
            \/ /\ status'[f] = status[f] /\ content'[f] = content[f]
               /\ successor'[f] = successor[f]
    <3> SUFFICES ASSUME NEW f \in Entries, f # e, f # old
                 PROVE  /\ status'[f] = status[f] /\ content'[f] = content[f]
                        /\ successor'[f] = successor[f]
      BY <1>4, <2>1, StoreAssumption
    <3>. QED
      BY <1>3, <1>4
  <2>. HIDE DEF e, old
  <2>. QED
    BY <2>1, <2>3, <2>4, CommitOthers DEF e, old
<1>9. ReqInv(r)'
  BY <1>2, FinishEffect, IdleInv
<1>. QED
  BY <1>5, <1>6, <1>7, <1>8, <1>9 DEF IInv, RowsInv

\* supersede() commits.
LEMMA CommitSupersedeIInv ==
  ASSUME IInv, RowLocking, NEW r \in Reqs, pc[r] = "commit", CommitSupersede(r), Finish(r)
  PROVE  IInv'
<1>. DEFINE e == args[r].entry
            old == args[r].old
<1>1. /\ args[r].op = "supersede"
      /\ status' = [status EXCEPT ![e] = "canon", ![old] = "superseded"]
      /\ successor' = [successor EXCEPT ![old] = e]
      /\ UNCHANGED <<key, content, captures>>
  BY DEF CommitSupersede
<1>2. /\ TypeOK /\ RowsInv /\ ReqInv(r) /\ e \in Entries /\ status[e] = "proposed"
      /\ old \in Entries /\ key[old] = key[e]
  BY <1>1, AtCommit
<1>3. /\ rowLock[e] = r /\ rowLock[old] = r /\ status[old] = "canon" /\ old # e
  BY <1>1, <1>2, AtCommit, StoreAssumption
<1>4. /\ status'[e] = "canon" /\ status'[old] = "superseded"
      /\ \A f \in Entries : f # e /\ f # old =>
            status'[f] = status[f] /\ successor'[f] = successor[f]
      /\ status' \in [Entries -> Statuses \cup {"absent"}]
      /\ successor' \in [Entries -> Entries \cup {None}]
  BY <1>1, <1>2, <1>3 DEF TypeOK, Statuses
<1>5. TypeOK'
  <2>1. \A f \in Entries : Known(f)' <=> Known(f)
    BY <1>2, <1>3, <1>4 DEF Known
  <2>. QED
    BY <1>1, <1>2, <1>4, <2>1, FinishEffect DEF TypeOK
<1>6. AbsentInv' /\ CaptureChain'
  BY <1>1, <1>2, <1>3, <1>4 DEF RowsInv, AbsentInv, CaptureChain
<1>7. AtMostOneCanon' /\ SupersessionLinks'
  BY <1>1, <1>2, <1>3, ReplaceRows
<1>8. \A s \in Reqs \ {r} : ReqInv(s)'
  BY <1>1, <1>2, <1>3, <1>4, CommitOthers DEF Known, MakesCanon, Inserts
<1>9. ReqInv(r)'
  BY <1>2, FinishEffect, IdleInv
<1>. QED
  BY <1>5, <1>6, <1>7, <1>8, <1>9 DEF IInv, RowsInv

\* Every step keeps the invariant.
LEMMA NextIInv ==
  ASSUME IInv, RowLocking, [Next]_vars
  PROVE  IInv'
<1>1. CASE UNCHANGED vars
  <2>1. UNCHANGED <<status, key, content, successor, captures, pc, args, seen,
                    rowLock, ownerLock, ownerShare, writer>>
    BY <1>1 DEF vars, rows, locks
  <2>2. TypeOK'
    BY <2>1 DEF IInv, TypeOK, Known
  <2>3. \A r \in Reqs : ReqInv(r)'
    BY <2>1 DEF IInv, ReqInv, AtOwnStatement, IdsInv, OwnerInv, EditInv, TransitionInv,
       SupersedeInv, NoRivalInv, MakesCanon, Inserts, Known, Lower, Upper, RowOk,
       Replaceable, Proposed, KeyOf, RivalCanon, CanonOf
  <2>4. RowsInv'
    BY <2>1 DEF IInv, RowsInv, AbsentInv, AtMostOneCanon, SupersessionLinks,
       CaptureChain, CanonOf
  <2>. QED
    BY <2>2, <2>3, <2>4 DEF IInv
<1>2. ASSUME NEW r \in Reqs, Arrive(r) PROVE IInv'
  BY <1>2, ArriveIInv
<1>3. ASSUME NEW r \in Reqs, Step(r) PROVE IInv'
  <2>1. CASE LockOwner(r)
    BY <2>1, LockOwnerIInv
  <2>2. CASE Insert(r)
    BY <2>2, InsertIInv
  <2>3. CASE Load(r)
    BY <2>3, LoadIInv
  <2>4. CASE LoadFirst(r)
    BY <2>4, LoadFirstIInv
  <2>5. CASE LoadSecond(r)
    BY <2>5, LoadSecondIInv
  <2>6. CASE FindCanon(r)
    BY <2>6, FindCanonIInv
  <2>7. CASE Flush(r)
    BY <2>7, FlushIInv
  <2>8. CASE Commit(r)
    BY <2>8, CommitCreateIInv, CommitAuthorIInv, CommitEditIInv, CommitTransitionIInv,
       CommitSupersedeIInv DEF Commit
  <2>. QED
    BY <1>3, <2>1, <2>2, <2>3, <2>4, <2>5, <2>6, <2>7, <2>8 DEF Step
<1>4. ASSUME NEW r \in Reqs, Rollback(r) PROVE IInv'
  BY <1>4, FinishIInv DEF Rollback
<1>. QED
  BY <1>1, <1>2, <1>3, <1>4 DEF Next

\* On a database with row locks the inductive invariant always holds.
THEOREM Invariance == RowLocking /\ Spec => []IInv
<1>1. RowLocking /\ IInv /\ [Next]_vars => IInv'
  BY NextIInv
<1>2. CASE RowLocking
  BY <1>1, <1>2, InitIInv, PTL DEF Spec
<1>. QED
  BY <1>2

\* The columns keep their types, and every row has a key and a text.
THEOREM TypeCorrect == RowLocking /\ Spec => []TypeOK
BY Invariance, PTL DEF IInv

\* The service never leaves two canon versions of a single-current identity.
THEOREM CanonUnique == RowLocking /\ Spec => []AtMostOneCanon
<1>1. IInv => AtMostOneCanon
  BY DEF IInv, RowsInv
<1>. QED
  BY <1>1, Invariance, PTL

\* superseded_by_entry_id always links a superseded row to its replacement.
THEOREM LinksSound == RowLocking /\ Spec => []SupersessionLinks
<1>1. IInv => SupersessionLinks
  BY DEF IInv, RowsInv
<1>. QED
  BY <1>1, Invariance, PTL

\* The captures of an Entry always tell its whole edit history.
THEOREM CapturesChain == RowLocking /\ Spec => []CaptureChain
<1>1. IInv => CaptureChain
  BY DEF IInv, RowsInv
<1>. QED
  BY <1>1, Invariance, PTL

\* No step but a commit writes a row.
LEMMA OnlyCommitWrites ==
  ASSUME [Next]_vars, ~UNCHANGED rows
  PROVE  \E r \in Reqs : Commit(r)
<1>1. ~UNCHANGED vars
  BY DEF vars, rows
<1>2. PICK r \in Reqs : Arrive(r) \/ Step(r) \/ Rollback(r)
  BY <1>1 DEF Next
<1>3. ~Arrive(r)
  BY DEF Arrive, BeginCreate, BeginAuthor, BeginEdit, BeginTransition,
         BeginSupersede, Begin, rows
<1>4. ~Rollback(r)
  BY DEF Rollback
<1>. QED
  BY <1>2, <1>3, <1>4 DEF Step, LockOwner, Insert, Load, LoadFirst, LoadSecond,
     FindCanon, Flush, rows

\* After its review no step changes the text, the key or the captures of a row.
THEOREM ReviewedStayFrozen == RowLocking /\ Spec => ReviewedFrozen
<1>1. IInv /\ [Next]_vars => [KeepsReviewed]_rows
  <2> SUFFICES ASSUME IInv, [Next]_vars, ~UNCHANGED rows,
                      NEW f \in Entries,
                      status[f] \in {"canon", "rejected", "superseded"}
               PROVE  /\ content'[f] = content[f] /\ key'[f] = key[f]
                      /\ captures'[f] = captures[f]
    BY DEF KeepsReviewed
  <2>1. PICK r \in Reqs : Commit(r)
    BY OnlyCommitWrites
  <2>2. pc[r] = "commit" /\ TypeOK
    BY <2>1 DEF Commit, IInv
  <2>3. args[r].op \in {"create", "author", "edit"} => f # args[r].entry
    BY <2>2, AtCommit
  <2>. QED
    BY <2>1, <2>2, <2>3 DEF Commit, CommitCreate, CommitAuthor, CommitEdit,
       CommitTransition, CommitSupersede, TypeOK
<1>. QED
  BY <1>1, Invariance, PTL DEF Spec, ReviewedFrozen

\* An identity that has a canon Entry has one after every step.
THEOREM CanonNeverLost == RowLocking /\ Spec => CanonStays
<1>1. IInv /\ [Next]_vars => [KeepsCanon]_rows
  <2> SUFFICES ASSUME IInv, [Next]_vars, ~UNCHANGED rows,
                      NEW i \in Idents, NEW e0 \in CanonOf(i)
               PROVE  \E f \in Entries : status'[f] = "canon" /\ IdentOf[key'[f]] = i
    BY DEF KeepsCanon, CanonOf
  <2>1. PICK r \in Reqs : Commit(r)
    BY OnlyCommitWrites
  <2>2. pc[r] = "commit" /\ TypeOK
    BY <2>1 DEF Commit, IInv
  <2>3. e0 \in Entries /\ status[e0] = "canon" /\ IdentOf[key[e0]] = i
    BY DEF CanonOf
  <2>4. CASE CommitCreate(r)
    <3>1. e0 # args[r].entry
      BY <2>2, <2>3, <2>4, AtCommit DEF CommitCreate
    <3>. QED
      BY <2>2, <2>3, <2>4, <3>1 DEF CommitCreate, TypeOK
  <2>5. CASE CommitAuthor(r)
    <3>1. /\ e0 # args[r].entry /\ args[r].entry \in Entries
          /\ args[r].old # None => key[args[r].old] = args[r].key
      BY <2>2, <2>3, <2>5, AtCommit DEF CommitAuthor
    <3>2. CASE e0 = args[r].old
      <4>1. args[r].old # None
        BY <2>3, <3>2, StoreAssumption
      <4>2. key'[args[r].entry] = args[r].key /\ status'[args[r].entry] = "canon"
        BY <2>2, <2>5, <3>1, <3>2, <4>1 DEF CommitAuthor, TypeOK
      <4>. QED
        BY <2>3, <3>1, <3>2, <4>1, <4>2
    <3>3. CASE e0 # args[r].old
      BY <2>2, <2>3, <2>5, <3>1, <3>3 DEF CommitAuthor, TypeOK
    <3>. QED
      BY <3>2, <3>3
  <2>6. CASE CommitEdit(r)
    BY <2>3, <2>6 DEF CommitEdit
  <2>7. CASE CommitTransition(r)
    <3>1. e0 # args[r].entry
      BY <2>2, <2>3, <2>7, AtCommit DEF CommitTransition, AllowedTransitions
    <3>. QED
      BY <2>2, <2>3, <2>7, <3>1 DEF CommitTransition, TypeOK
  <2>8. CASE CommitSupersede(r)
    <3>1. /\ args[r].entry \in Entries /\ args[r].old \in Entries
          /\ status[args[r].entry] = "proposed" /\ args[r].old # args[r].entry
          /\ key[args[r].old] = key[args[r].entry]
      <4>1. args[r].op = "supersede"
        BY <2>8 DEF CommitSupersede
      <4>2. /\ args[r].entry \in Entries /\ args[r].old \in Entries
            /\ status[args[r].entry] = "proposed"
            /\ key[args[r].old] = key[args[r].entry]
            /\ args[r].old # None => args[r].old # args[r].entry
        BY <2>2, <4>1, AtCommit
      <4>3. args[r].old # None
        BY <4>2, StoreAssumption
      <4>. QED
        BY <4>2, <4>3
    <3>2. /\ status'[args[r].entry] = "canon" /\ UNCHANGED key
          /\ \A f \in Entries : f # args[r].old /\ status[f] = "canon" => status'[f] = "canon"
      BY <2>2, <2>8, <3>1 DEF CommitSupersede, TypeOK
    <3>. QED
      BY <2>3, <3>1, <3>2
  <2>. QED
    BY <2>1, <2>4, <2>5, <2>6, <2>7, <2>8 DEF Commit
<1>. QED
  BY <1>1, Invariance, PTL DEF Spec, CanonStays
\* No rows supersede only each other.
Unbroken == \A S \in SUBSET Entries : (\A e \in S : successor[e] \in S) => S = {}

\* A link is only ever made to a row that has none.
LEMMA LinksMade ==
  ASSUME IInv, IInv', [Next]_vars, Unbroken
  PROVE  Unbroken'
<1>1. \/ successor' = successor
      \/ \E e, old \in Entries : /\ successor' = [successor EXCEPT ![old] = e]
                                 /\ status'[e] = "canon"
  <2> SUFFICES ASSUME ~UNCHANGED rows, successor' # successor
               PROVE  \E e, old \in Entries : /\ successor' = [successor EXCEPT ![old] = e]
                                              /\ status'[e] = "canon"
    BY DEF rows
  <2>1. PICK r \in Reqs : Commit(r)
    BY OnlyCommitWrites
  <2>2. pc[r] = "commit" /\ TypeOK /\ args[r].entry \in Entries
    BY <2>1, AtCommit DEF Commit
  <2>3. CASE CommitAuthor(r)
    <3>1. args[r].old # None
      BY <2>3 DEF CommitAuthor
    <3>2. args[r].old \in Entries /\ args[r].old # args[r].entry
      BY <2>2, <2>3, <3>1, AtCommit, StoreAssumption DEF CommitAuthor
    <3> QED
      BY <2>2, <2>3, <3>1, <3>2 DEF CommitAuthor, TypeOK
  <2>4. CASE CommitSupersede(r)
    <3>1. args[r].op = "supersede"
      BY <2>4 DEF CommitSupersede
    <3>2. args[r].old \in Entries /\ (args[r].old # None => args[r].old # args[r].entry)
      BY <2>2, <3>1, AtCommit
    <3>3. args[r].old \in Entries /\ args[r].old # args[r].entry
      BY <3>2, StoreAssumption
    <3> QED
      BY <2>2, <2>4, <3>3 DEF CommitSupersede, TypeOK
  <2> QED
    BY <2>1, <2>3, <2>4 DEF Commit, CommitCreate, CommitEdit, CommitTransition
<1> SUFFICES ASSUME NEW S \in SUBSET Entries, \A f \in S : successor'[f] \in S
             PROVE  S = {}
  BY DEF Unbroken
<1>2. CASE successor' = successor
  BY <1>2 DEF Unbroken
<1>3. ASSUME NEW e \in Entries, NEW old \in Entries,
             successor' = [successor EXCEPT ![old] = e], status'[e] = "canon"
      PROVE  S = {}
  <2>1. successor'[e] = None
    BY <1>3 DEF IInv, RowsInv, SupersessionLinks
  <2>2. e \notin S
    BY <2>1, StoreAssumption
  <2>3. old \notin S
    BY <1>3, <2>2 DEF IInv, TypeOK
  <2>4. \A f \in S : successor[f] \in S
    BY <1>3, <2>3 DEF IInv, TypeOK
  <2> QED
    BY <2>4 DEF Unbroken
<1> QED
  BY <1>1, <1>2, <1>3

\* A history of superseded rows alone.
Replaced(e, n) ==
    {h \in [0 .. n -> Entries] :
       /\ h[0] = e
       /\ \A k \in 0 .. n : status[h[k]] = "superseded"
       /\ \A k \in 1 .. n : h[k] = successor[h[k - 1]]}

\* It is no longer than there are rows: no row is in it twice.
LEMMA HistoriesEnd ==
  ASSUME IInv, Unbroken, IsFiniteSet(Entries), NEW e \in Entries
  PROVE  Replaced(e, Cardinality(Entries)) = {}
<1> DEFINE N == Cardinality(Entries)
<1>1. N \in Nat
  BY FS_CardinalityType
<1> HIDE DEF N
<1> SUFFICES ASSUME NEW h \in Replaced(e, N)
             PROVE  FALSE
  BY DEF N
<1>2. /\ h \in [0 .. N -> Entries]
      /\ \A k \in 1 .. N : h[k] = successor[h[k - 1]]
  BY DEF Replaced
<1>3. IsFiniteSet(0 .. N) /\ Cardinality(0 .. N) = N + 1
  BY <1>1, FS_Interval
<1>4. \E i, j \in 0 .. N : i # j /\ h[i] = h[j]
  <2> DEFINE places == 0 .. N
  <2>1. Cardinality(Entries) < Cardinality(places)
    BY <1>1, <1>3 DEF N
  <2>2. IsFiniteSet(places) /\ h \in [places -> Entries]
    BY <1>2, <1>3
  <2> HIDE DEF places
  <2>3. \E i, j \in places : i # j /\ h[i] = h[j]
    BY <2>1, <2>2, FS_PigeonHole
  <2> QED
    BY <2>3 DEF places
<1>5. PICK i \in 0 .. N, j \in 0 .. N : i < j /\ h[i] = h[j]
  BY <1>1, <1>4
<1> DEFINE S == {h[k] : k \in i .. (j - 1)}
<1>6. S \in SUBSET Entries /\ h[i] \in S
  BY <1>1, <1>2, <1>5
<1>7. ASSUME NEW f \in S
      PROVE  successor[f] \in S
  <2>1. PICK k \in i .. (j - 1) : f = h[k]
    OBVIOUS
  <2>2. k + 1 \in 1 .. N /\ k + 1 - 1 = k
    BY <1>1, <1>5
  <2>3. successor[f] = h[k + 1]
    BY <1>2, <2>1, <2>2
  <2>4. k + 1 = j \/ k + 1 \in i .. (j - 1)
    BY <1>1, <1>5
  <2> QED
    BY <1>5, <1>6, <2>3, <2>4
<1> HIDE DEF S
<1> QED
  BY <1>6, <1>7 DEF Unbroken

\* A superseded row leads to canon, or to superseded rows as far as one likes.
LEMMA HistoriesGrow ==
  ASSUME IInv, NEW e \in Entries, status[e] = "superseded", NEW N \in Nat
  PROVE  \/ Replaced(e, N) # {}
         \/ \E n \in 1 .. N : \E h \in [0 .. n -> Entries] :
              /\ h[0] = e /\ status[h[n]] = "canon"
              /\ \A k \in 1 .. n : h[k] = successor[h[k - 1]]
<1> DEFINE Ends(m) == \E n \in 1 .. m : \E h \in [0 .. n -> Entries] :
                        /\ h[0] = e /\ status[h[n]] = "canon"
                        /\ \A k \in 1 .. n : h[k] = successor[h[k - 1]]
           S == {m \in Nat : Replaced(e, m) # {} \/ Ends(m)}
<1>1. 0 \in S
  <2> DEFINE h == [k \in 0 .. 0 |-> e]
  <2>1. h \in Replaced(e, 0)
    BY DEF Replaced
  <2> QED
    BY <2>1
<1>2. ASSUME NEW m \in Nat, m \in S
      PROVE  m + 1 \in S
  <2>1. CASE Ends(m)
    <3>1. \A n \in 1 .. m : n \in 1 .. (m + 1)
      OBVIOUS
    <3> QED
      BY <2>1, <3>1
  <2>2. ASSUME NEW h \in Replaced(e, m)
        PROVE  m + 1 \in S
    <3>1. /\ h \in [0 .. m -> Entries] /\ h[0] = e
          /\ \A k \in 0 .. m : status[h[k]] = "superseded"
          /\ \A k \in 1 .. m : h[k] = successor[h[k - 1]]
      BY DEF Replaced
    <3> DEFINE next == successor[h[m]]
               g == [k \in 0 .. (m + 1) |-> IF k = m + 1 THEN next ELSE h[k]]
    <3>2. next \in Entries /\ status[next] \in {"canon", "superseded"}
      BY <3>1 DEF IInv, TypeOK, RowsInv, SupersessionLinks
    <3> HIDE DEF next
    <3>3. g \in [0 .. (m + 1) -> Entries] /\ g[0] = e /\ g[m + 1] = next
      BY <3>1, <3>2
    <3>4. ASSUME NEW k \in 1 .. (m + 1)
          PROVE  g[k] = successor[g[k - 1]]
      <4>1. k - 1 \in 0 .. m
        OBVIOUS
      <4>2. g[k - 1] = h[k - 1]
        BY <4>1
      <4>3. CASE k = m + 1
        BY <4>2, <4>3 DEF next
      <4>4. CASE k # m + 1
        <5>1. k \in 1 .. m
          BY <4>4
        <5> QED
          BY <3>1, <4>2, <5>1
      <4> QED
        BY <4>3, <4>4
    <3>5. \A k \in 0 .. m : g[k] = h[k]
      OBVIOUS
    <3> HIDE DEF g
    <3>6. CASE status[next] = "canon"
      <4>1. m + 1 \in 1 .. (m + 1)
        OBVIOUS
      <4>2. Ends(m + 1)
        BY <3>3, <3>4, <3>6, <4>1
      <4> QED
        BY <4>2
    <3>7. CASE status[next] = "superseded"
      <4>1. \A k \in 0 .. (m + 1) : status[g[k]] = "superseded"
        BY <3>1, <3>3, <3>5, <3>7
      <4>2. g \in Replaced(e, m + 1)
        BY <3>3, <3>4, <4>1 DEF Replaced
      <4> QED
        BY <4>2
    <3> QED
      BY <3>2, <3>6, <3>7
  <2> QED
    BY <1>2, <2>1, <2>2
<1> HIDE DEF S
<1>3. Nat \subseteq S
  BY <1>1, <1>2, Induction
<1> QED
  BY <1>3 DEF S

\* From every superseded row the links lead to a canon one, whatever becomes of
\* the rows between them; of the rows that may ever exist there are finitely many.
THEOREM HistoriesReachCanon == IsFiniteSet(Entries) /\ RowLocking /\ Spec => []HistoryReachesCanon
<1> SUFFICES ASSUME IsFiniteSet(Entries)
             PROVE  RowLocking /\ Spec => []HistoryReachesCanon
  OBVIOUS
<1>1. Init => Unbroken
  <2> SUFFICES ASSUME Init, NEW S \in SUBSET Entries, \A f \in S : successor[f] \in S
               PROVE  S = {}
    BY DEF Unbroken
  <2>1. \A f \in Entries : successor[f] = None
    BY DEF Init
  <2>2. None \notin Entries
    BY StoreAssumption
  <2>3. \A f \in S : FALSE
    BY <2>1, <2>2
  <2> QED
    BY <2>3
<1>2. IInv /\ Unbroken => HistoryReachesCanon
  <2> SUFFICES ASSUME IInv, Unbroken, NEW e \in Entries, status[e] = "superseded"
               PROVE  \E n \in 1 .. Cardinality(Entries) : \E h \in [0 .. n -> Entries] :
                        /\ h[0] = e /\ status[h[n]] = "canon"
                        /\ \A k \in 1 .. n : h[k] = successor[h[k - 1]]
    BY DEF HistoryReachesCanon
  <2>1. Cardinality(Entries) \in Nat
    BY FS_CardinalityType
  <2> QED
    BY <2>1, HistoriesEnd, HistoriesGrow
<1>3. IInv /\ IInv' /\ [Next]_vars /\ Unbroken => Unbroken'
  BY LinksMade
<1> QED
  BY <1>1, <1>2, <1>3, Invariance, PTL DEF Spec

-----------------------------------------------------------------------------
(* On a database with row locks, the interleaved statements of EntryStore    *)
(* implement the atomic operations of EntryLifecycle: every commit is one of *)
(* its actions and no other step changes its variables.                      *)

\* A row that keeps its text and its captures keeps its drafts.
LEMMA DraftsKept ==
  ASSUME NEW e \in Entries, captures'[e] = captures[e], content'[e] = content[e],
         status'[e] = "absent" <=> status[e] = "absent"
  PROVE  Drafts(e)' = Drafts(e)
BY DEF Drafts

\* An inserted row has one draft, the text it was inserted with.
LEMMA DraftsInserted ==
  ASSUME RowsInv, NEW e \in Entries, status[e] = "absent", status'[e] # "absent",
         captures' = captures
  PROVE  Drafts(e)' = <<content'[e]>>
BY DEF Drafts, RowsInv, AbsentInv

\* Captures hold texts.
LEMMA CapturedTexts ==
  ASSUME NEW q \in Seq(Captures), NEW k \in 1 .. Len(q)
  PROVE  q[k].before \in Contents /\ q[k].after \in Contents
<1>1. q[k] \in Captures
  OBVIOUS
<1>. QED
  BY <1>1 DEF Captures

\* The last draft is the text of the row.
LEMMA LastDraft ==
  ASSUME TypeOK, RowsInv, NEW e \in Entries, Known(e)
  PROVE  /\ Len(Drafts(e)) = Len(captures[e]) + 1
         /\ Drafts(e)[Len(Drafts(e))] = content[e]
<1>1. captures[e] \in Seq(Captures)
  BY DEF TypeOK
<1>2. CASE captures[e] = <<>>
  <2>1. Drafts(e) = <<content[e]>> /\ Len(captures[e]) = 0
    BY <1>2 DEF Drafts, Known
  <2>. QED
    BY <2>1
<1>3. CASE captures[e] # <<>>
  <2>. DEFINE n == Len(captures[e])
              h == <<captures[e][1].before>>
              t == [k \in 1 .. n |-> captures[e][k].after]
  <2>1. n \in Nat /\ n > 0 /\ captures[e][n].after = content[e]
    BY <1>1, <1>3 DEF RowsInv, CaptureChain
  <2>2. Drafts(e) = h \o t
    BY <1>3 DEF Drafts, Known
  <2>3. h \in Seq(Contents) /\ Len(h) = 1
    BY <1>1, <2>1, CapturedTexts
  <2>4. t \in Seq(Contents) /\ Len(t) = n /\ t[n] = captures[e][n].after
    BY <1>1, <2>1, CapturedTexts
  <2>. HIDE DEF h, t, n
  <2>5. Len(h \o t) = n + 1 /\ (h \o t)[n + 1] = t[n]
    <3>1. n + 1 \in 1 .. Len(h) + Len(t) /\ ~(n + 1 <= Len(h)) /\ (n + 1) - Len(h) = n
      BY <2>1, <2>3, <2>4
    <3>2. /\ Len(h \o t) = Len(h) + Len(t)
          /\ \A i \in 1 .. Len(h) + Len(t) :
                (h \o t)[i] = IF i <= Len(h) THEN h[i] ELSE t[i - Len(h)]
      BY <2>3, <2>4, ConcatProperties
    <3>. HIDE DEF h, t
    <3>3. (h \o t)[n + 1] = t[(n + 1) - Len(h)]
      BY <3>1, <3>2, Zenon
    <3>. QED
      BY <2>1, <2>3, <2>4, <3>1, <3>2, <3>3
  <2>. QED
    BY <2>1, <2>2, <2>4, <2>5 DEF n
<1>. QED
  BY <1>2, <1>3

\* An edit appends its text to the drafts.
LEMMA DraftsEdited ==
  ASSUME TypeOK, RowsInv, NEW e \in Entries, Known(e), NEW c \in Contents,
         status'[e] # "absent",
         captures'[e] = Append(captures[e], [before |-> content[e], after |-> c])
  PROVE  Drafts(e)' = Append(Drafts(e), c)
<1>. DEFINE q == captures[e]
            n == Len(q)
            p == [before |-> content[e], after |-> c]
            u == [k \in 1 .. n + 1 |-> captures'[e][k].after]
<1>1. q \in Seq(Captures) /\ n \in Nat /\ p \in Captures
  <2>1. q \in Seq(Captures)
    BY DEF TypeOK
  <2>2. content[e] \in Contents
    BY DEF TypeOK, Known
  <2>. QED
    BY <2>1, <2>2 DEF Captures
<1>2. /\ Len(captures'[e]) = n + 1 /\ captures'[e] # <<>>
      /\ captures'[e][n + 1] = p /\ \A k \in 1 .. n : captures'[e][k] = q[k]
  BY <1>1
<1>3. Drafts(e)' = <<captures'[e][1].before>> \o u
  BY <1>2 DEF Drafts
<1>4. CASE q = <<>>
  <2>1. n = 0 /\ Drafts(e) = <<content[e]>>
    BY <1>4 DEF Drafts, Known
  <2>2. captures'[e][1] = p
    BY <1>2, <2>1
  <2>3. u = <<c>>
    BY <2>1, <2>2
  <2>. QED
    BY <1>3, <2>1, <2>2, <2>3
<1>5. CASE q # <<>>
  <2>. DEFINE b == q[1].before
              t == [k \in 1 .. n |-> q[k].after]
  <2>1. n > 0
    BY <1>1, <1>5
  <2>2. captures'[e][1].before = b
    BY <1>2, <2>1
  <2>3. Drafts(e) = <<b>> \o t
    BY <1>5 DEF Drafts, Known
  <2>4. t \in Seq(Contents) /\ Len(t) = n
    BY <1>1, CapturedTexts
  <2>5. u = Append(t, c)
    BY <1>1, <1>2, <2>4
  <2>6. b \in Contents
    BY <1>1, <2>1, CapturedTexts
  <2>. HIDE DEF b, t, u
  <2>7. <<b>> \o Append(t, c) = Append(<<b>> \o t, c)
    BY <2>4, <2>6
  <2>. QED
    BY <1>3, <2>2, <2>3, <2>5, <2>7
<1>. QED
  BY <1>4, <1>5

\* The drafts of all rows when only those of e change.
LEMMA DraftsOfOne ==
  ASSUME NEW e \in Entries, \A f \in Entries : f # e => Drafts(f)' = Drafts(f)
  PROVE  [f \in Entries |-> Drafts(f)]' =
            [[f \in Entries |-> Drafts(f)] EXCEPT ![e] = Drafts(e)']
<1>1. \A f \in Entries :
        Drafts(f)' = IF f = e THEN Drafts(e)' ELSE Drafts(f)
  OBVIOUS
<1>. QED
  BY <1>1

\* create() commits: Insert.
LEMMA CreateRefines ==
  ASSUME IInv, NEW r \in Reqs, pc[r] = "commit", CommitCreate(r)
  PROVE  Lifecycle!Next
<1>. DEFINE e == args[r].entry
            D == [f \in Entries |-> Drafts(f)]
<1>1. /\ args[r].op = "create"
      /\ status' = [status EXCEPT ![e] = args[r].to]
      /\ key' = [key EXCEPT ![e] = args[r].key]
      /\ content' = [content EXCEPT ![e] = args[r].text]
      /\ UNCHANGED <<successor, captures>>
  BY DEF CommitCreate
<1>2. /\ TypeOK /\ RowsInv /\ e \in Entries /\ status[e] = "absent"
      /\ args[r].to \in {"captured", "proposed"}
      /\ args[r].key \in Keys /\ args[r].text \in Contents
  BY <1>1, AtCommit
<1>3. content'[e] = args[r].text /\ status'[e] # "absent"
      /\ \A f \in Entries : f # e => status'[f] = status[f] /\ content'[f] = content[f]
  BY <1>1, <1>2 DEF TypeOK
<1>. HIDE DEF e
<1>4. D' = [D EXCEPT ![e] = <<args[r].text>>]
  BY <1>1, <1>2, <1>3, DraftsKept, DraftsInserted, DraftsOfOne
<1>5. Lifecycle!Insert(e, args[r].key, args[r].text, args[r].to)
  BY <1>1, <1>2, <1>4 DEF Lifecycle!Insert
<1>. QED
  BY <1>2, <1>5 DEF Lifecycle!Next

\* create_user_authored() commits: Author or AuthorReplacement.
LEMMA AuthorRefines ==
  ASSUME IInv, NEW r \in Reqs, pc[r] = "commit", CommitAuthor(r)
  PROVE  Lifecycle!Next
<1>. DEFINE e == args[r].entry
            old == args[r].old
            D == [f \in Entries |-> Drafts(f)]
<1>1. /\ args[r].op = "author"
      /\ key' = [key EXCEPT ![e] = args[r].key]
      /\ content' = [content EXCEPT ![e] = args[r].text]
      /\ UNCHANGED captures
  BY DEF CommitAuthor
<1>2. /\ TypeOK /\ RowsInv /\ e \in Entries /\ status[e] = "absent"
      /\ args[r].key \in Keys /\ args[r].text \in Contents
  BY <1>1, AtCommit
<1>3. content'[e] = args[r].text
      /\ \A f \in Entries : f # e => content'[f] = content[f]
  BY <1>1, <1>2 DEF TypeOK
<1>4. CASE old = None
  <2>1. status' = [status EXCEPT ![e] = "canon"] /\ UNCHANGED successor
    BY <1>4 DEF CommitAuthor
  <2>2. IdentOf[args[r].key] \in SingleCurrent => CanonOf(IdentOf[args[r].key]) = {}
    <3>1. IdentOf[args[r].key] \in SingleCurrent => RivalCanon(r) = {}
      BY <1>1, <1>4, AtCommit
    <3>2. e \notin CanonOf(IdentOf[args[r].key])
      BY <1>2 DEF CanonOf
    <3>. QED
      BY <1>1, <3>1, <3>2 DEF RivalCanon, KeyOf
  <2>3. status'[e] # "absent" /\ \A f \in Entries : f # e => status'[f] = status[f]
    BY <1>2, <2>1 DEF TypeOK
  <2>. HIDE DEF e
  <2>4. D' = [D EXCEPT ![e] = <<args[r].text>>]
    BY <1>1, <1>2, <1>3, <2>3, DraftsKept, DraftsInserted, DraftsOfOne
  <2>5. Lifecycle!Author(e, args[r].key, args[r].text)
    BY <1>1, <1>2, <2>1, <2>2, <2>4
       DEF Lifecycle!Author, Lifecycle!MayBecomeCanon, Lifecycle!CanonOf, CanonOf
  <2>. QED
    BY <1>2, <2>5 DEF Lifecycle!Next
<1>5. CASE old # None
  <2>1. /\ status' = [status EXCEPT ![e] = "canon", ![old] = "superseded"]
        /\ successor' = [successor EXCEPT ![old] = e]
    BY <1>5 DEF CommitAuthor
  <2>2. /\ old \in Entries /\ old # e /\ status[old] = "canon"
        /\ key[old] = args[r].key
    BY <1>1, <1>5, AtCommit
  <2>3. status'[e] # "absent"
        /\ \A f \in Entries : f # e => (status'[f] = "absent" <=> status[f] = "absent")
    BY <1>2, <2>1, <2>2 DEF TypeOK
  <2>. HIDE DEF e, old
  <2>4. D' = [D EXCEPT ![e] = <<args[r].text>>]
    BY <1>1, <1>2, <1>3, <2>3, DraftsKept, DraftsInserted, DraftsOfOne
  <2>5. Lifecycle!AuthorReplacement(e, args[r].key, args[r].text, old)
    BY <1>1, <1>2, <2>1, <2>2, <2>4 DEF Lifecycle!AuthorReplacement
  <2>. QED
    BY <1>2, <2>2, <2>5 DEF Lifecycle!Next
<1>. QED
  BY <1>4, <1>5

\* edit_review_entry() commits: Edit, or a stutter if the text is unchanged.
LEMMA EditRefines ==
  ASSUME IInv, NEW r \in Reqs, pc[r] = "commit", CommitEdit(r)
  PROVE  Lifecycle!Next \/ UNCHANGED rows
<1>. DEFINE e == args[r].entry
            D == [f \in Entries |-> Drafts(f)]
            c == args[r].text
<1>1. args[r].op = "edit" /\ UNCHANGED <<status, key, successor>>
  BY DEF CommitEdit
<1>2. /\ TypeOK /\ RowsInv /\ e \in Entries /\ status[e] = "proposed"
      /\ seen[r].text = content[e] /\ c \in Contents
  BY <1>1, AtCommit
<1>3. CASE ~Changes(r)
  BY <1>1, <1>3 DEF CommitEdit, rows
<1>4. CASE Changes(r)
  <2>1. /\ captures' = [captures EXCEPT ![e] =
                            Append(captures[e], [before |-> content[e], after |-> c])]
        /\ content' = [content EXCEPT ![e] = c]
        /\ content[e] # c
    BY <1>2, <1>4 DEF CommitEdit, Changes
  <2>2. /\ captures'[e] = Append(captures[e], [before |-> content[e], after |-> c])
        /\ \A f \in Entries : f # e => captures'[f] = captures[f] /\ content'[f] = content[f]
        /\ Known(e) /\ status'[e] # "absent"
    BY <1>1, <1>2, <2>1 DEF TypeOK, Known
  <2>. HIDE DEF e, c
  <2>3. \A f \in Entries : f = e => Drafts(f)' = Append(Drafts(f), c)
    BY <1>2, <2>2, DraftsEdited
  <2>4. \A f \in Entries : f # e => Drafts(f)' = Drafts(f)
    BY <1>1, <2>2, DraftsKept
  <2>5. D' = [D EXCEPT ![e] = Append(D[e], c)]
    <3>1. PICK f \in Entries : f = e
      BY <1>2
    <3>2. D' = [D EXCEPT ![f] = Append(Drafts(f), c)]
      BY <2>3, <2>4, <3>1, DraftsOfOne
    <3>. QED
      BY <3>1, <3>2
  <2>6. D[e][Len(D[e])] = content[e]
    BY <1>2, <2>2, LastDraft
  <2>. HIDE DEF D
  <2>7. Lifecycle!Edit(e, c)
    BY <1>1, <1>2, <2>1, <2>5, <2>6 DEF Lifecycle!Edit, D
  <2>. QED
    BY <1>2, <2>7 DEF Lifecycle!Next
<1>. QED
  BY <1>3, <1>4

\* _transition_status() commits: Transition.
LEMMA TransitionRefines ==
  ASSUME IInv, NEW r \in Reqs, pc[r] = "commit", CommitTransition(r)
  PROVE  Lifecycle!Next
<1>. DEFINE e == args[r].entry
            D == [f \in Entries |-> Drafts(f)]
<1>1. /\ args[r].op \in {"accept", "reject", "update"}
      /\ status' = [status EXCEPT ![e] = args[r].to]
      /\ UNCHANGED <<key, content, successor, captures>>
  BY DEF CommitTransition
<1>2. /\ TypeOK /\ e \in Entries
      /\ <<status[e], args[r].to>> \in AllowedTransitions
      /\ args[r].to = "canon" /\ IdentOf[key[e]] \in SingleCurrent => RivalCanon(r) = {}
  BY <1>1, AtCommit
<1>3. /\ status[e] \in {"captured", "proposed"}
      /\ args[r].to \in {"proposed", "canon", "rejected"}
  BY <1>2 DEF AllowedTransitions
<1>4. \A f \in Entries : status'[f] = "absent" <=> status[f] = "absent"
  BY <1>1, <1>2, <1>3 DEF TypeOK
<1>5. D' = D
  BY <1>1, <1>4, DraftsKept
<1>6. args[r].to = "canon" => Lifecycle!MayBecomeCanon(key[e])
  <2>1. KeyOf(r) = key[e]
    BY <1>1 DEF KeyOf
  <2>2. e \notin CanonOf(IdentOf[key[e]])
    BY <1>3 DEF CanonOf
  <2>. QED
    BY <1>2, <2>1, <2>2 DEF Lifecycle!MayBecomeCanon, Lifecycle!CanonOf, CanonOf, RivalCanon
<1>. HIDE DEF e
<1>7. Lifecycle!Transition(e, args[r].to)
  BY <1>1, <1>2, <1>5, <1>6
     DEF Lifecycle!Transition, Lifecycle!AllowedTransitions, AllowedTransitions
<1>. QED
  BY <1>2, <1>3, <1>7 DEF Lifecycle!Next, Lifecycle!Statuses

\* supersede() commits: Supersede.
LEMMA SupersedeRefines ==
  ASSUME IInv, NEW r \in Reqs, pc[r] = "commit", CommitSupersede(r)
  PROVE  Lifecycle!Next
<1>. DEFINE e == args[r].entry
            old == args[r].old
            D == [f \in Entries |-> Drafts(f)]
<1>1. /\ args[r].op = "supersede"
      /\ status' = [status EXCEPT ![e] = "canon", ![old] = "superseded"]
      /\ successor' = [successor EXCEPT ![old] = e]
      /\ UNCHANGED <<key, content, captures>>
  BY DEF CommitSupersede
<1>2. /\ TypeOK /\ e \in Entries /\ status[e] = "proposed"
      /\ old \in Entries /\ key[old] = key[e]
  BY <1>1, AtCommit
<1>3. status[old] = "canon" /\ old # e
  BY <1>1, <1>2, AtCommit, StoreAssumption
<1>4. \A f \in Entries : status'[f] = "absent" <=> status[f] = "absent"
  BY <1>1, <1>2, <1>3 DEF TypeOK
<1>5. D' = D
  BY <1>1, <1>4, DraftsKept
<1>. HIDE DEF e, old
<1>6. Lifecycle!Supersede(old, e)
  BY <1>1, <1>2, <1>3, <1>5 DEF Lifecycle!Supersede
<1>. QED
  BY <1>2, <1>6 DEF Lifecycle!Next

\* Every behaviour of the statements is one of the atomic operations: a client
\* that sees only committed rows cannot tell the difference.
THEOREM Refinement == RowLocking /\ Spec => ImplementsLifecycle
<1>1. Init => Lifecycle!Init
  BY DEF Init, Lifecycle!Init, Drafts
<1>2. IInv /\ [Next]_vars => [Lifecycle!Next]_Lifecycle!vars
  <2> SUFFICES ASSUME IInv, [Next]_vars
               PROVE  Lifecycle!Next \/ UNCHANGED Lifecycle!vars
    OBVIOUS
  <2>1. CASE UNCHANGED rows
    BY <2>1 DEF rows, Lifecycle!vars, Drafts
  <2>2. CASE ~UNCHANGED rows
    <3>1. PICK r \in Reqs : Commit(r)
      BY <2>2, OnlyCommitWrites
    <3>. QED
      BY <2>1, <3>1, CreateRefines, AuthorRefines, EditRefines, TransitionRefines,
         SupersedeRefines DEF Commit
  <2>. QED
    BY <2>1, <2>2
<1>. QED
  BY <1>1, <1>2, Invariance, PTL DEF Spec, ImplementsLifecycle, Lifecycle!Spec

=============================================================================
