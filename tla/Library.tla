------------------------------- MODULE Library -------------------------------
(***************************************************************************)
(* What an Entry is anchored to, and what becomes of it when an anchor is  *)
(* deleted (services/entry_service.py, novel_service.py, world_service.py, *)
(* character_service.py, novel_generation_sources.py,                      *)
(* entry_generation_context.py).                                           *)
(*                                                                         *)
(* An Entry names records by id, with no foreign key but that of its       *)
(* origin.  Works, worlds and characters are soft-deleted, chapters are    *)
(* deleted; nothing comes back.  Creation and acceptance check the anchors *)
(* one query at a time under READ COMMITTED, and so does the retrieval of  *)
(* a chat; a continuation reads one snapshot, so it is one step.  Records  *)
(* and entries are those of one user, on PostgreSQL.                       *)
(*                                                                         *)
(* An entry has a type, a scope and a subject, each a kind and what it     *)
(* names ("pair" names a set of two characters), a source (the chapter its *)
(* provenance requires) and an origin (created_at_chapter_id).  Message,   *)
(* import and user provenance never die and are not told apart.            *)
(***************************************************************************)
EXTENDS Naturals, Sequences, FiniteSets, FiniteSetsExt

CONSTANTS
    Works, Worlds, Characters, Chapters,
    WorkOf,         \* chapters.work_id
    Nothing,        \* NULL
    Shapes,         \* bound: scope, subject, source and origin of new entries
    FirstWorld,     \* the world_id of every work and character at first
    FirstCast,      \* the characters linked to each work at first
    PageLimit,      \* limit of a page
    MaxRequests     \* bound: requests other than the generation

\* EntryType
Types == {"character.identity", "character.behavior", "character.voice",
          "character.exemplar", "world.fact", "world.term", "story.fact", "story.knowledge",
          "story.promise", "story.summary", "relationship.state", "style.preference",
          "user.preference", "note"}

\* What an Entry may name: a scope, a subject, the chapter of its provenance and
\* the chapter it came from.
Shape == [type : Types,
          scope : {<<"user", Nothing>>} \cup ({"work"} \X Works) \cup ({"world"} \X Worlds)
                    \cup ({"character"} \X Characters),
          subject : {<<"none", Nothing>>} \cup ({"work"} \X Works) \cup ({"world"} \X Worlds)
                      \cup ({"character"} \X Characters) \cup ({"chapter"} \X Chapters)
                      \cup ({"pair"} \X SUBSET Characters),
          source : Chapters \cup {Nothing}, origin : Chapters \cup {Nothing}]

ASSUME LibraryAssumption ==
    /\ WorkOf \in [Chapters -> Works] /\ Shapes \subseteq Shape
    /\ (Works \cup Worlds \cup Characters) \cap Chapters = {}
    /\ Nothing \notin Works \cup Worlds \cup Characters \cup Chapters
    /\ FirstWorld \in Worlds \cup {Nothing} /\ FirstCast \subseteq Works \X Characters
    /\ PageLimit \in Nat \ {0} /\ MaxRequests \in Nat

VARIABLES
    deleted,        \* records with deleted_at, and deleted chapters
    worldOf,        \* works.world_id and characters.world_id
    links,          \* rows of work_characters, counted
    entries,        \* the rows of entries
    req,            \* the requests
    gen,            \* one generation, or one client reading a list
    list            \* what that client asks for and has been shown

vars == <<deleted, worldOf, links, entries, req, gen, list>>

-----------------------------------------------------------------------------
(* Anchors *)

Requests == 1 .. MaxRequests

NoShape == [type |-> "note", scope |-> <<"user", Nothing>>, subject |-> <<"none", Nothing>>,
            source |-> Nothing, origin |-> Nothing]

\* EntryCreate.validate_contract(): what each type may be about.
Valid(e) ==
    LET scope == e.scope[1]
        subject == e.subject[1]
        InWork(subjects) == scope = "work" /\ subject \in subjects
    IN CASE e.type \in {"character.identity", "character.behavior", "character.voice",
                        "character.exemplar"} -> subject = "character"
         [] e.type \in {"world.fact", "world.term"} ->
              subject = "world" \/ (subject = "none" /\ scope = "world")
         [] e.type = "story.knowledge" -> InWork({"character"})
         [] e.type = "story.fact" -> InWork({"none", "work", "chapter"})
         [] e.type = "story.promise" -> InWork({"none", "work"})
         [] e.type = "story.summary" -> InWork({"work", "chapter"})
         [] e.type = "relationship.state" -> InWork({"pair"})
         [] e.type = "user.preference" -> scope = "user"
         [] e.type = "style.preference" -> scope \in {"user", "work"}
         [] OTHER -> TRUE

Named(ids) == ids \ {Nothing}

\* entries.created_at_chapter_id is ON DELETE SET NULL.
Bare(e) == [e EXCEPT !.origin = Nothing]

\* _validate_and_normalize_subject(), _validate_chapter_origin(): a subject of
\* the kind of the scope is the scope, and chapters belong to it.
Coherent(e) ==
    /\ e.scope[1] = e.subject[1] => e.scope[2] = e.subject[2]
    /\ e.scope[1] = "work" =>
         \A h \in Named({e.origin} \cup IF e.subject[1] = "chapter" THEN {e.subject[2]} ELSE {}) :
           WorkOf[h] = e.scope[2]

\* The records creation loads one after the other: scope, subject, provenance
\* and origin.  A chapter of a deleted work will do.
Loaded(e) ==
    {l \in {<<1, e.scope[2]>>, <<3, e.source>>, <<4, e.origin>>}
              \cup ({2} \X IF e.subject[1] = "pair" THEN e.subject[2] ELSE {e.subject[2]}) :
       l[2] # Nothing}

\* _entry_character_anchor_ids(): a subject hides the scope.
CharacterAnchors(e) ==
    IF e.subject[1] = "character" THEN {e.subject[2]}
    ELSE IF e.subject[1] = "pair" THEN e.subject[2]
    ELSE IF e.scope[1] = "character" THEN {e.scope[2]} ELSE {}

\* What each query of _exclude_orphaned_candidates() and of
\* _entries_with_live_required_provenance() asks for.
Wanted(kind, e) ==
    CASE kind = "character" -> CharacterAnchors(e)
      [] kind = "source" -> Named({e.source})
      [] kind = "origin" -> Named({e.origin})
      [] OTHER -> {a[2] : a \in {b \in {e.scope, e.subject} : b[1] = kind}}

\* Fault: only the chapter itself is checked.
ActiveFault(kind, x, gone) == x \notin gone

\* _active_ids(), _active_chapter_anchor_ids(): a chapter lives with its work.
Active(kind, x, gone) ==
    x \notin gone /\ (kind \in {"chapter", "source", "origin"} => WorkOf[x] \notin gone)

Answer(kind, batch, gone) ==
    {<<kind, x>> : x \in {y \in UNION {Wanted(kind, e) : e \in batch} : Active(kind, y, gone)}}

\* Fault: one live character of a pair is enough.
AnchorsAreLiveFault(e, seen) ==
    /\ e.scope[1] = "user" \/ e.scope \in seen
    /\ CASE e.subject[1] = "none" -> TRUE
         [] e.subject[1] = "pair" -> \E c \in e.subject[2] : <<"character", c>> \in seen
         [] OTHER -> e.subject \in seen /\ Coherent(Bare(e))

\* _anchors_are_live()
AnchorsAreLive(e, seen) ==
    /\ e.scope[1] = "user" \/ e.scope \in seen
    /\ CASE e.subject[1] = "none" -> TRUE
         [] e.subject[1] = "pair" -> \A c \in e.subject[2] : <<"character", c>> \in seen
         [] OTHER -> e.subject \in seen /\ Coherent(Bare(e))

SourceIsLive(e, seen) == e.source = Nothing \/ <<"source", e.source>> \in seen

\* The queries of an acceptance and of a retrieval, by their place in the order;
\* one that would ask for nothing is not issued.
Queries(order, batch) == {i \in DOMAIN order : \E e \in batch : Wanted(order[i], e) # {}}

IsNext(i, asks) == i \in asks /\ \A j \in asks : i <= j

AcceptanceOrder == <<"work", "character", "world", "chapter", "source", "origin">>

RetrievalOrder == <<"source", "work", "character", "world", "chapter">>

ListOrder == <<"work", "character", "world", "chapter", "source">>

-----------------------------------------------------------------------------
(* Initial state *)

NewRequest == [pc |-> "new", op |-> "none", shape |-> NoShape, entry |-> 0, link |-> <<>>,
               loads |-> {}, asks |-> {}, seen |-> {}, before |-> {}]

NoList == [after |-> 0, page |-> {}, more |-> FALSE, asks |-> {}, seen |-> {},
           items |-> {}, shown |-> <<>>, begun |-> {}, before |-> {}]

Init ==
    /\ deleted = {}
    /\ worldOf = [x \in Works \cup Characters |-> FirstWorld]
    /\ links = [l \in Works \X Characters |-> IF l \in FirstCast THEN 1 ELSE 0]
    /\ entries = <<>>
    /\ req = [r \in Requests |-> NewRequest]
    /\ gen = [pc |-> "new", scopes |-> {}, found |-> {}, asks |-> {}, seen |-> {},
              told |-> {}, cast |-> [c \in Characters |-> 0], world |-> Nothing,
              before |-> {}]
    /\ list = NoList

-----------------------------------------------------------------------------
(* Requests for entries *)

Arrives(r) == req[r].pc = "new" /\ \A s \in 1 .. (r - 1) : req[s].pc # "new"

Answered(r, outcome) == req' = [req EXCEPT ![r] = [NewRequest EXCEPT !.pc = outcome]]

\* _lock_active_owner() is held until the commit.
OwnerFree == \A r \in Requests : req[r].op \in {"author", "accept"} => req[r].pc \in {"ok", "failed"}

\* EntryAuthoringCreate has no provenance: it is the user.
Authored(shape) == [shape EXCEPT !.source = Nothing]

\* create() and create_user_authored() begin with a valid DTO.
BeginCreate(r) ==
    /\ Arrives(r)
    /\ \E op \in {"create", "author"} :
       \E shape \in IF op = "create" THEN Shapes ELSE {Authored(e) : e \in Shapes} :
         /\ Valid(shape)
         /\ op = "author" => OwnerFree
         /\ req' = [req EXCEPT ![r] = [NewRequest EXCEPT
                      !.pc = "validate", !.op = op, !.shape = shape,
                      !.loads = Loaded(shape), !.before = deleted]]
    /\ UNCHANGED <<deleted, worldOf, links, entries, gen, list>>

\* _assert_owned_record(): the session loads a record once.
ValidateAnchor(r) ==
    /\ req[r].pc = "validate"
    /\ \E l \in req[r].loads :
         /\ \A k \in req[r].loads : l[1] <= k[1]
         /\ IF l[2] \in deleted
            THEN Answered(r, "failed")
            ELSE req' = [req EXCEPT ![r].loads = {k \in @ : k[2] # l[2]}]
    /\ UNCHANGED <<deleted, worldOf, links, entries, gen, list>>

Validated(r) == req[r].pc = "validate" /\ req[r].loads = {}

\* The row can be inserted: its origin is a foreign key.
Insertable(e) == Coherent(e) /\ e.origin \notin deleted

\* create(): the row is committed as a proposal.
InsertProposal(r) ==
    /\ Validated(r) /\ req[r].op = "create"
    /\ IF Insertable(req[r].shape)
       THEN entries' = Append(entries, [shape |-> req[r].shape, status |-> "proposed"])
            /\ Answered(r, "ok")
       ELSE Answered(r, "failed") /\ UNCHANGED entries
    /\ UNCHANGED <<deleted, worldOf, links, gen, list>>

\* create_user_authored(): the row is flushed and goes through acceptance.
FlushAuthored(r) ==
    /\ Validated(r) /\ req[r].op = "author"
    /\ IF Insertable(req[r].shape)
       THEN req' = [req EXCEPT ![r].pc = "anchors",
                               ![r].asks = Queries(AcceptanceOrder, {req[r].shape})]
       ELSE Answered(r, "failed")
    /\ UNCHANGED <<deleted, worldOf, links, entries, gen, list>>

\* accept_review_entry(): owner and row are locked.
BeginAccept(r) ==
    /\ Arrives(r) /\ OwnerFree
    /\ \E n \in DOMAIN entries :
         /\ entries[n].status = "proposed"
         /\ req' = [req EXCEPT ![r] = [NewRequest EXCEPT
                      !.pc = "anchors", !.op = "accept", !.shape = entries[n].shape,
                      !.entry = n, !.before = deleted,
                      !.asks = Queries(AcceptanceOrder, {entries[n].shape})]]
    /\ UNCHANGED <<deleted, worldOf, links, entries, gen, list>>

\* One query of _validate_acceptance_anchors(), about this entry alone.
CheckAnchors(r) ==
    /\ req[r].pc = "anchors"
    /\ \E i \in req[r].asks :
         /\ IsNext(i, req[r].asks)
         /\ req' = [req EXCEPT ![r].asks = @ \ {i},
              ![r].seen = @ \cup Answer(AcceptanceOrder[i], {req[r].shape}, deleted)]
    /\ UNCHANGED <<deleted, worldOf, links, entries, gen, list>>

\* Fault: acceptance trusts the checks creation made of scope and subject.
AcceptableFault(r) ==
    /\ SourceIsLive(req[r].shape, req[r].seen)
    /\ req[r].shape.origin = Nothing \/ <<"origin", req[r].shape.origin>> \in req[r].seen

Acceptable(r) ==
    /\ AnchorsAreLive(req[r].shape, req[r].seen)
    /\ SourceIsLive(req[r].shape, req[r].seen)
    /\ req[r].shape.origin = Nothing \/ <<"origin", req[r].shape.origin>> \in req[r].seen

\* The entry is canon when the transaction commits.
CommitCanon(r) ==
    /\ req[r].pc = "anchors" /\ req[r].asks = {}
    /\ Answered(r, IF Acceptable(r) THEN "ok" ELSE "failed")
    /\ entries' = IF ~Acceptable(r) THEN entries
                  ELSE IF req[r].op = "accept"
                  THEN [entries EXCEPT ![req[r].entry].status = "canon"]
                  ELSE Append(entries, [shape |-> req[r].shape, status |-> "canon"])
    /\ UNCHANGED <<deleted, worldOf, links, gen, list>>

-----------------------------------------------------------------------------
(* Requests for the other records *)

\* delete_work(), WorldService.soft_delete(), CharacterService.soft_delete().
SoftDelete(r) ==
    /\ Arrives(r)
    /\ \E x \in (Works \cup Worlds \cup Characters) \ deleted : deleted' = deleted \cup {x}
    /\ Answered(r, "ok")
    /\ UNCHANGED <<worldOf, links, entries, gen, list>>

\* The transactions that hold a lock on the chapter or on an entry that came
\* from it: an insert through the foreign key, an acceptance through the row.
Holding(h) == {r \in Requests : req[r].pc = "anchors" /\ req[r].shape.origin = h}

\* delete_chapter() clears the origins.
DeleteChapter(r) ==
    /\ Arrives(r)
    /\ \E h \in Chapters \ deleted :
         /\ Holding(h) = {}
         /\ deleted' = deleted \cup {h}
         /\ entries' = [n \in DOMAIN entries |->
              IF entries[n].shape.origin = h
              THEN [entries[n] EXCEPT !.shape = Bare(@)] ELSE entries[n]]
    /\ Answered(r, "ok")
    /\ UNCHANGED <<worldOf, links, gen, list>>

\* update_work() takes any world, CharacterService.update() an active one; a
\* patch to NULL is ignored.
Attach(r) ==
    /\ Arrives(r)
    /\ \E x \in DOMAIN worldOf \ deleted, w \in Worlds :
         /\ x \in Characters => w \notin deleted
         /\ worldOf[x] # w
         /\ worldOf' = [worldOf EXCEPT ![x] = w]
    /\ Answered(r, "ok")
    /\ UNCHANGED <<deleted, links, entries, gen, list>>

\* link_character() finds no link yet ...
LinkRead(r) ==
    /\ Arrives(r)
    /\ \E l \in DOMAIN links :
         /\ l[1] \notin deleted /\ links[l] = 0
         /\ req' = [req EXCEPT ![r].pc = "link", ![r].op = "link", ![r].link = l]
    /\ UNCHANGED <<deleted, worldOf, links, entries, gen, list>>

\* Fault: uq_work_character is not declared.
LinkWriteFault(r) ==
    /\ req[r].pc = "link"
    /\ links' = [links EXCEPT ![req[r].link] = @ + 1]
    /\ Answered(r, "ok")
    /\ UNCHANGED <<deleted, worldOf, entries, gen, list>>

\* ... and inserts one, or breaks uq_work_character.
LinkWrite(r) ==
    /\ req[r].pc = "link"
    /\ links' = [links EXCEPT ![req[r].link] = 1]
    /\ Answered(r, IF links[req[r].link] = 0 THEN "ok" ELSE "failed")
    /\ UNCHANGED <<deleted, worldOf, entries, gen, list>>

\* unlink_character()
Unlink(r) ==
    /\ Arrives(r)
    /\ \E l \in DOMAIN links :
         l[1] \notin deleted /\ links[l] > 0 /\ links' = [links EXCEPT ![l] = 0]
    /\ Answered(r, "ok")
    /\ UNCHANGED <<deleted, worldOf, entries, gen, list>>

-----------------------------------------------------------------------------
(* The generation *)

\* _scope_selectors()
Selectors(work, world, characters) ==
    {<<"user", Nothing>>}
      \cup {<<"work", n>> : n \in Named({work})}
      \cup {<<"world", w>> : w \in Named({world})}
      \cup {<<"character", c>> : c \in characters}

\* list_retrieval_candidates()
Canon(scopes) ==
    {entries[n].shape : n \in {m \in DOMAIN entries :
        entries[m].status = "canon" /\ entries[m].shape.scope \in scopes}}

\* retrieve(): what is left of the candidates once the queries are answered.
\* _excluded_by_chronology() of a story.summary, which drops an Entry for the
\* place of its chapter rather than for an anchor, is StoryOrder's Candidates.
Surviving(batch, seen) == {e \in batch : SourceIsLive(e, seen) /\ AnchorsAreLive(e, seen)}

\* load_novel_generation_sources(): linked characters and the world of a work
\* that are not deleted.
CastOf(work) == [c \in Characters |-> IF c \in deleted THEN 0 ELSE links[<<work, c>>]]

WorldOf(work) == IF worldOf[work] \in deleted THEN Nothing ELSE worldOf[work]

\* The first transaction of a continuation reads one snapshot.
NovelGenerate ==
    /\ gen.pc = "new"
    /\ \E h \in {g \in Chapters : Active("chapter", g, deleted)} :
         LET work == WorkOf[h]
             characters == {c \in Characters : CastOf(work)[c] > 0}
             scopes == Selectors(work, WorldOf(work), characters)
             found == Canon(scopes)
             seen == UNION {Answer(RetrievalOrder[k], found, deleted) :
                              k \in DOMAIN RetrievalOrder}
         IN gen' = [pc |-> "novel", scopes |-> {}, found |-> found, asks |-> {},
                    seen |-> {}, told |-> Surviving(found, seen),
                    cast |-> CastOf(work), world |-> WorldOf(work), before |-> deleted]
    /\ UNCHANGED <<deleted, worldOf, links, entries, req, list>>

\* The first transaction of a chat loads its character and that one's world,
\* deleted or not ...
ChatBegin ==
    /\ gen.pc = "new"
    /\ \E c \in Characters :
         gen' = [gen EXCEPT !.pc = "candidates", !.world = worldOf[c],
                            !.cast = [@ EXCEPT ![c] = 1],
                            !.scopes = Selectors(Nothing, worldOf[c], {c}),
                            !.before = deleted]
    /\ UNCHANGED <<deleted, worldOf, links, entries, req, list>>

\* ... then the candidates ...
ChatCandidates ==
    /\ gen.pc = "candidates"
    /\ gen' = [gen EXCEPT !.pc = "anchors", !.found = Canon(gen.scopes),
                          !.asks = Queries(RetrievalOrder, Canon(gen.scopes))]
    /\ UNCHANGED <<deleted, worldOf, links, entries, req, list>>

\* ... and the anchors of all of them, one kind at a time.
ChatAnchors ==
    /\ gen.pc = "anchors"
    /\ \E i \in gen.asks :
         /\ IsNext(i, gen.asks)
         /\ gen' = [gen EXCEPT !.asks = @ \ {i},
                               !.seen = @ \cup Answer(RetrievalOrder[i], gen.found, deleted)]
    /\ UNCHANGED <<deleted, worldOf, links, entries, req, list>>

ChatRetrieved ==
    /\ gen.pc = "anchors" /\ gen.asks = {}
    /\ gen' = [gen EXCEPT !.pc = "chat", !.told = Surviving(gen.found, gen.seen),
                          !.scopes = {}, !.seen = {}]
    /\ UNCHANGED <<deleted, worldOf, links, entries, req, list>>

-----------------------------------------------------------------------------
(* The list of canon, PageLimit entries to a page *)

UnchangedByList == UNCHANGED <<deleted, worldOf, links, entries, req>>

CanonRows == {n \in DOMAIN entries : entries[n].status = "canon"}

\* The first PageLimit of a set of rows.
Lowest(S) == {n \in S : Cardinality({m \in S : m <= n}) <= PageLimit}

\* A client asks for the first page.
ListBegin ==
    /\ gen.pc = "new"
    /\ gen' = [gen EXCEPT !.pc = "rows"]
    /\ list' = [NoList EXCEPT !.begun = CanonRows, !.before = deleted]
    /\ UnchangedByList

\* EntryRepository.list_page(): the rows after the cursor.
ListRows ==
    /\ gen.pc = "rows"
    /\ LET rest == {n \in CanonRows : n > list.after}
           rows == {<<n, entries[n].shape>> : n \in Lowest(rest)}
       IN list' = [list EXCEPT !.page = rows, !.more = (Lowest(rest) # rest), !.seen = {},
                     !.asks = Queries(ListOrder, {x[2] : x \in rows})]
    /\ gen' = [gen EXCEPT !.pc = "live"]
    /\ UnchangedByList

\* _exclude_orphaned_candidates() for those rows, one query at a time.
ListAnchors ==
    /\ gen.pc = "live"
    /\ \E i \in list.asks :
         /\ IsNext(i, list.asks)
         /\ list' = [list EXCEPT !.asks = @ \ {i},
              !.seen = @ \cup Answer(ListOrder[i], {x[2] : x \in list.page}, deleted)]
    /\ UNCHANGED gen /\ UnchangedByList

Collected ==
    list.items \cup {x[1] : x \in {y \in list.page : y[2] \in Surviving({y[2]}, list.seen)}}

LastRow == Max({x[1] : x \in list.page})

\* The client is shown a page and asks for the next one, after the row n.
ShowPage(page, n) ==
    list' = [NoList EXCEPT !.begun = list.begun, !.before = list.before,
               !.after = n, !.shown = Append(list.shown, page)]

\* Fault: the client is given the cursor of the rows that were read.
ListPageFault ==
    /\ gen.pc = "live" /\ list.asks = {}
    /\ Cardinality(Collected) > PageLimit
    /\ ShowPage(Lowest(Collected), LastRow)
    /\ gen' = [gen EXCEPT !.pc = "rows"]
    /\ UnchangedByList

\* More live entries than a page: the cursor is the last entry shown.
ListPage ==
    /\ gen.pc = "live" /\ list.asks = {}
    /\ Cardinality(Collected) > PageLimit
    /\ ShowPage(Lowest(Collected), Max(Lowest(Collected)))
    /\ gen' = [gen EXCEPT !.pc = "rows"]
    /\ UnchangedByList

\* Not enough live ones yet: more rows are read.
ListScan ==
    /\ gen.pc = "live" /\ list.asks = {}
    /\ Cardinality(Collected) <= PageLimit /\ list.more
    /\ list' = [list EXCEPT !.items = Collected, !.after = LastRow]
    /\ gen' = [gen EXCEPT !.pc = "rows"]
    /\ UnchangedByList

\* The last page.
ListEnds ==
    /\ gen.pc = "live" /\ list.asks = {}
    /\ Cardinality(Collected) <= PageLimit /\ ~list.more
    /\ ShowPage(Collected, 0)
    /\ gen' = [gen EXCEPT !.pc = "listed"]
    /\ UnchangedByList

-----------------------------------------------------------------------------
(* Specification *)

Next ==
    \/ \E r \in Requests :
         \/ BeginCreate(r) \/ ValidateAnchor(r) \/ InsertProposal(r) \/ FlushAuthored(r)
         \/ BeginAccept(r) \/ CheckAnchors(r) \/ CommitCanon(r)
         \/ SoftDelete(r) \/ DeleteChapter(r) \/ Attach(r)
         \/ LinkRead(r) \/ LinkWrite(r) \/ Unlink(r)
    \/ NovelGenerate
    \/ ChatBegin \/ ChatCandidates \/ ChatAnchors \/ ChatRetrieved
    \/ ListBegin \/ ListRows \/ ListAnchors \/ ListPage \/ ListScan \/ ListEnds

Spec == Init /\ [][Next]_vars

-----------------------------------------------------------------------------
(* Properties *)

\* No record the entry names is gone, nor the work of a chapter it names.
Sound(e, gone) ==
    \A l \in Loaded(Bare(e)) :
      l[2] \notin gone /\ (l[2] \in Chapters => WorkOf[l[2]] \notin gone)

\* "Default retrieval must exclude a candidate when its scope anchor or any
\* required subject anchor is soft-deleted" (RFC-003): nothing that was deleted
\* when a generation began speaks in it, whatever commits between its queries
\* and however the entry became canon.
RetrievedIsSound ==
    gen.pc \in {"novel", "chat"} => \A e \in gen.told : Sound(e, gen.before)

\* Canon is not lost to a generation for its anchors: the anchor checks exclude
\* only an entry with a dead anchor, although _entry_character_anchor_ids()
\* leaves out a scope that a pair hides and liveness is decided for the batch as
\* a whole.  (A summary may also be excluded for its place: see Surviving.)
OnlyOrphansExcluded ==
    gen.pc \in {"novel", "chat"} => \A e \in gen.found \ gen.told : ~Sound(e, deleted)

\* A continuation is given each linked character once, and neither a deleted
\* one nor a deleted world, whatever links and deletes race with it.
CastIsLive ==
    gen.pc = "novel" =>
      /\ \A c \in Characters : gen.cast[c] > 0 => gen.cast[c] = 1 /\ c \notin gen.before
      /\ gen.world \notin gen.before

\* A client that follows the cursors to the end has seen every entry that was
\* canon from the first page on and is still alive, in order, and none whose
\* anchors had died before it began: orphans "cannot ... cause later live records
\* to be skipped" (entry_service.py), whatever is accepted or deleted meanwhile.
ListIsExact ==
    gen.pc = "listed" =>
      /\ \A i, j \in DOMAIN list.shown :
           i < j => \A m \in list.shown[i], n \in list.shown[j] : m < n
      /\ \A n \in list.begun :
           Sound(entries[n].shape, deleted) => \E i \in DOMAIN list.shown : n \in list.shown[i]
      /\ \A i \in DOMAIN list.shown : \A n \in list.shown[i] :
           Sound(entries[n].shape, list.before)

\* No entry becomes canon whose anchors had died before the request that made
\* it so began: a proposal about what was deleted meanwhile stays one.
\* (supersede() checks its replacement in the same way; update_status(), which
\* checks no anchor, is called by no route.)
CanonWasAnchored ==
    [][\A r \in Requests :
         req[r].pc = "anchors" /\ req'[r].pc = "ok" =>
           /\ Sound(req[r].shape, req[r].before)
           /\ req[r].shape.origin # Nothing => WorkOf[req[r].shape.origin] \notin req[r].before
      ]_vars

=============================================================================
