# Formal model of gorofan

gorofan is a workspace for writing fiction with an AI: a FastAPI / SQLAlchemy
backend (`src/backend/app`) on SQLite or PostgreSQL and a Next.js client
(`src/frontend/src`). This directory holds TLA+ modules for the parts of it
whose correctness depends on order, the TLC runs that check them on small
instances, and TLAPS proofs for instances of every size.

Paths below are relative to `src/backend/app` unless they start with
`frontend/`, `docs/` or `.kiro/`.

## 1. Inventory

| Component | State it keeps | Operations | Interacts with |
|---|---|---|---|
| Entry Store (`services/entry_service.py`, `repositories/entry_repository.py`) | `entries` rows: status, key, text, successor | create, create_user_authored, edit / accept / reject review, update_status, supersede, list, retrieve | owner row (`users`) as a lock, edit captures, anchors in worlds / works / characters |
| Edit-diff capture (`services/edit_diff_capture.py`) | `edit_diff_captures`: before and after text, sequence, settled_at | capture an edit, capture a continuation, settle | called inside the transactions of the Entry Store and of the novel service |
| Chapter text (`services/novel_service.py`) | `chapters` row: content_text, content_doc, version; `_active_continue` of each process | continue (SSE), update, delete | captures, provider stream, the editor page |
| Chapter order (`services/novel_service.py`) | `chapters.index` under a unique index | create_chapter, reorder_chapters | story order |
| Chapter editor page (`frontend/.../chapters/[chapterId]/page.tsx`) | editor document, version, autosave timer, stream | type, autosave, continue, stop, reload | the chapter API |
| Chat (`services/chat_service.py`, `engines/chat`) | `messages`, `_active_streams` | stream_message, regenerate, force_summarize | provider stream, memory, job queue |
| Job queue and summaries (`core/jobs.py`, `engines/memory`, `services/summary_job.py`) | `_seen_keys`, tasks; `memories` with version and cover_up_to | enqueue, run with retries, summarize | chat messages, provider |
| Provider layer (`adapters/`) | semaphore, attempt, partial answer | stream with retries before the first token | every generator |
| Story order (`services/story_order_snapshot.py`, `story_summary_chronology.py`, `novel_generation_sources.py`) | none; one snapshot per prompt | read the order of chapters, place Entries before or after the chapter | chapter order, Entry Store |
| Retrieval (`services/entry_retrieval.py`) | none | select, rank and trace canon | Entry Store, context assembly |
| Context assembly, prompt budget (`engines/prompt/`) | none | turn Entries into blocks, fit blocks into a context window | chat, novel |
| Generation preparation (`engines/novel/`, `core/scene_generation.py`) | none | build and validate immutable inputs | novel |
| Legacy-entry equivalence (`services/legacy_entry_equivalence.py`) | none | compare legacy and Entry projections | read only |
| AI configuration (`services/ai_config_service.py`) | `model_configs.is_default`, templates, credentials | create, list | provider resolution |
| Authentication (`auth/service.py`) | `_pending` OAuth states, users, accounts | begin, complete | every request |
| Worlds, characters, personas (`services/world_service.py`, `character_service.py`) | rows with soft deletion, `world_id`, links of a cast | CRUD, link, unlink | anchors of Entries, sources of a generation |
| Database sessions (`db/session.py`, `core/deps.py`) | transactions, locks | begin, commit, roll back | everything above |

Hard behaviours, by component (each is a hazard in PROJECT.json, at its line):

* Entry Store: checks that are plain reads and hold only through locks; two lock
  orders (row then owner, owner then row); anchors that carry no foreign key and
  may be deleted between any two queries, in a creation, an acceptance, a
  retrieval or a list that is read page by page.
* Captures: they must commit with the text they explain, in order, and be settled
  once with the chapter as it is.
* Chapter text: a continuation spans two transactions with a long stream in
  between; saves use a version but no lock; more than one worker process.
* Chapter order: indexes are read in one statement and written back in another;
  a continuation reads them in several queries.
* Chat: four pieces of work per turn; a disconnect, a transport error or a
  restart between any two; an in-process guard.
* Summaries: concurrent jobs read the same latest version; a key that is never
  forgotten makes a failed job unrepeatable.
* Provider: retries only before the first token, a semaphore held through
  back-off, Gemini's interleaved candidates and streams that just stop.
* Prompt: cuts that are approximate, a loop that must gain in each turn, a
  configuration older than the capability of its model.
* Editor page: a timer and closures that remember an old `streaming`.

What makes each component correct: the Entry Store has one current version per
single-current identity and an immutable reviewed history, and what speaks in a
prompt rests on records that live; captures lose no AI text; a chapter holds
every acknowledged text once and in order; a chat answers each message once;
each summary extends one before it; a stream is one attempt of one candidate; a
prompt fits its window and gives up the least important first; a continuation
sees only what comes before its chapter.

## 2. Modules

| Module | What it is |
|---|---|
| `EntryLifecycle` | The promise of the Entry Store: each operation is one atomic step on status, key, text history and successor. |
| `EntryStore` | The service, one database statement per step, with the locks of PostgreSQL or the single writer of SQLite. Refines `EntryLifecycle`. |
| `EntryStoreProofs` | The inductive invariant of `EntryStore` and the safety theorems; the proof that it implements `EntryLifecycle`. |
| `Library` | The records Entries are about: creation, acceptance, retrieval and lists of Entries against soft deletion, links and moves. |
| `LibraryProofs` | Its inductive invariant and the theorems about what a generation and a list are given. |
| `ChapterContinuation` | One chapter: continuations, their captures, saves, deletion, any number of worker processes, both databases. |
| `ChapterContinuationProofs` | The inductive invariant of `ChapterContinuation` and the theorems about captures and versions. |
| `StoryOrder` | The order of a work's chapters, edited while a continuation reads the story before its chapter. |
| `StoryOrderProofs` | What a continuation is told and what an edit leaves, as theorems. |
| `Chat` | One chat session, the job queue and the rolling summaries. |
| `ChatProofs` | Its inductive invariant and the theorems about answers and summaries. |
| `ProviderStream` | Streaming calls over the semaphore: permits, retries, what each adapter makes of what it receives. |
| `ProviderStreamProofs` | Its inductive invariant and the theorems about attempts, candidates and permits. |
| `NaturalLemmas` | Least and greatest elements, induction over a set of naturals, repeated choice, images and places of finite sets, for the proofs. |
| `EntryRetrieval` | Tokens, ranking, selection and rendering of Entries, as operators. |
| `PromptAssembly` | One prompt, from the resolution of its configuration to the blocks that are sent. Extends `EntryRetrieval`. |
| `PromptAssemblyProofs` | What its operators compute, its inductive invariant and the theorems about selection, cuts and the window. |
| `MC*` | Small instances of the module in their name, for TLC. |

How they meet. A continuation is cut in three: `StoryOrder` and `Library` say what
it reads (`Prepare` of `ChapterContinuation` is that step), `PromptAssembly` what
it makes of it, `ChapterContinuation` what becomes of the answer. A chat turn is
cut likewise: `Library` and `PromptAssembly` are inside the step `StoreUserMessage`
or `HideLastAnswer` of `Chat`. The stream of either is one call of
`ProviderStream`, whose four results (complete, a provider error, another error,
closed) are the ways a stream ends in `Chat` and `ChapterContinuation`.
`Library` leaves out what `EntryStore` is about (rivals, locks on rows, edits) and
takes an acceptance as its anchor queries and its commit.

Definitions whose name ends in `Fault` are the definition after them with a
plausible bug in it. No specification uses them; replacing a definition by its
`Fault` shows that the properties notice.

### 2.1 EntryStore

A request (`Reqs`) is one HTTP call in a session of its own: `args` holds its
operation, `pc` its next statement, `seen` what its session has loaded. `Begin*`
starts an operation, `LockOwner` is `_lock_active_owner()`, `Load` is
`_get_for_update()`, `LoadFirst` and `LoadSecond` are the two ordered row locks
of `supersede()`, `FindCanon` is `find_active_canon_for_update()`, `Insert` and
`Flush` are the flushes that take the foreign-key lock, `Commit*` publishes the
writes of the operation, and `Rollback` is what `get_db()` does after any
refusal, error, disconnect or crash. Rows change only in `Commit*`, because
neither database shows uncommitted data.

`RowLocking = TRUE` is PostgreSQL at READ COMMITTED: `FOR UPDATE` on `users`
(`ownerLock`) and on `entries` (`rowLock`), and `FOR KEY SHARE` on `users`
(`ownerShare`), which every insert with a foreign key takes. `FALSE` is SQLite in
WAL mode with the driver's legacy transactions: `FOR UPDATE` is ignored, SELECTs
see the latest commit, and the first write takes `writer`.

A key stands for scope, type, subject and subject_data; `IdentOf` drops the
subject_data, as the canon lookup does. Texts are values; titles, producers,
provenance, importance, anchors and owners are left out (all statements are
filtered by `user_id`, so owners do not meet).

### 2.2 ChapterContinuation

A text is a sequence of pieces, so that what is lost, doubled or out of order can be
seen: `<<r, i>>` is the word that continuation `r` streamed as its piece `i`,
`<<s, 0>>` a word of the author, and `Blank` a character of white space, which a stream
may bring as well. `Separator` and `Strip` are the empty line and the `strip()` of
`_append_chapter()`: `Merged` is what stands in the chapter, while a capture keeps the
segment as it was streamed and `insert_offset`, the length of the text *before* the
separator. `Start`, `Kept` and `EndOf` say how the segment is found again from them. A
continuation runs
`StartContinue` (the guard `_active_continue` of its worker), `Prepare`,
`SettleLoad` / `SettleCommit` (one transaction), `Token`*, `StreamDone` or
`StreamFail`, `AppendLoad` / `Merge` (another transaction, which writes the
capture too). `SettleFail`, `AppendFail` and `Disconnect` are its failures. A
save runs `Open` (a client reads the version and sends any text of `Texts`, any document
or both: text moved, deleted or inserted, words of a continuation that lack a capture),
`SaveLoad` (a plain load and the comparison of versions) and `SaveWrite` (an UPDATE by
primary key of the fields that were sent). Word counts, titles and the contents of the
prompt are left out.

### 2.3 Library

`deleted` holds the soft-deleted works, worlds and characters and the deleted
chapters; `worldOf` and `links` are `world_id` and `work_characters`; `entries`
the rows, as their anchors (scope, subject, source, origin) and a status.
`BeginCreate`, `ValidateAnchor`* and `InsertProposal` or `FlushAuthored` are
`create()` and `create_user_authored()`, one `_assert_owned_record()` a step;
`BeginAccept`, `CheckAnchors`* and `CommitCanon` are an acceptance, one query a
step. `Queries` lists the queries in the order of the code and leaves out those
that would ask for nothing. `ChatBegin` to `ChatRetrieved` are the retrieval of a
chat, whose queries see different moments; `NovelGenerate` is one step, because
a continuation reads a snapshot. `List*` are `list_entries()`: rows, anchors,
and a page, another read or the end. The remaining actions are single
transactions of the other services; `LinkRead` and `LinkWrite` are the two
statements of `link_character()`. An authored Entry takes its place in the list
when it commits. The queries that were made are the set of their places in that
order, the records an acceptance must load are a set too, and a client has the
list as a sequence of pages, each a set of rows. `Bare` is a shape without its
source, as `ON DELETE SET NULL` leaves it when the chapter goes. A summary may also be
excluded from a retrieval for the place of its chapter (`_apply_story_summary_chronology()`);
that is in `StoryOrder`, and `OnlyOrphansExcluded` is about the anchor checks.

### 2.4 StoryOrder

`index` is `chapters.index`, 0 for no chapter; `legacy` says which chapters have a
summary of their own, from before: no request writes it any more. `CreateRead` / `CreateWrite` and `ReorderRead` /
`ReorderWrite` are the reads and the flush of the two requests that read before
they write. `Shifted` is the index after any number of the UPDATEs of the first
phase, `Assigned` after the second; a violated `uq_chapter_work_index` rolls back. A
reorder takes any list of ids: empty, partial, with ids of no chapter (those it did not
read) and with ids twice, of which the last counts (`Place`). A row that was deleted
after it was read (`Rows` are the others) may fail the flush or not: SQLAlchemy compares
the row count of a single UPDATE but not of a batch under asyncpg, so both happen.
`Begin` takes the snapshot and the target, `ReadPriors` is
`_build_story_context()`, `Retrieve` is the retrieval with its drift checks,
`Classify` and the exclusions, and the validation of the preparation. `View` is what
a query sees: the snapshot.

### 2.5 Chat

A turn is `Accept` (the guard `_active_streams`), T1 as `StoreUserMessage` or
`HideLastAnswer` (or `RollBackTurn`), T2 ended by `StreamEnds`, `ProviderFails` or
`StreamIsLost`, T3 as `PersistPartial`, `PersistComplete` or `PersistFails`, T4 as
`MaybeEnqueue`. A job runs `ReadSummary`, `ReadMessages`, `InsertSummary` or
`JobFails`, and any number of jobs overlap. `Restart` empties everything that
lives in the process. `Message` and `Job` give the shape of the rows and tasks.
`parent` is the message an answer is filed under, `prompted` (history) the one whose text
it answers. They differ when the newest message has lost its answer: `regenerate()` then
hides the answer of an older message and files the new one there (section 6).

### 2.6 ProviderStream

`Arrive` queues for the semaphore, `Acquire` wakes the first waiter, `Connect` is
the answer to the request, `Receive*` one event of an adapter, `EndOfStream` and
`Break` its end, `Retry` the end of a pause, `Close` the consumer leaving. `Raise`
decides between a retry and an error. `GeminiEvents` and `Follow` are the
candidates and which of them the stream belongs to.

### 2.7 EntryRetrieval and PromptAssembly

A text is a sequence of wide, narrow and blank characters, which is all the
tokenizer sees; scores are integers in millionths. `Sorted` is Python's `sorted()` of
items paired with keys that differ (the place in the list is the last part of a key,
which makes the sort stable): an item stands in the place given by how many come
`Earlier`. A sum of tokens (`Total`) is the size of a set of pairs. Both are stated
this way, not by recursion, so that they can be proved about. `Resolve` is
`resolve_provider_request()`, with the target of a continuation; `RankCandidates`,
`SelectEntry`* and `OrderStory` are the end of `retrieve()`; `RenderEntry`* is
`assemble_entry_context()`; `Collect` and `Order` build the blocks from the sources
(system text with the cast of a novel, cards, lore whose keyword occurs, entries,
memories within their share, chapters, recent messages, the user and the
instruction). `TrimProtected`* and `Reserve` settle the protected blocks, `Include`,
`Cut` and `Drop` are one turn each of the loop of `fit()`, `Finish` is its last check.

## 3. Runs

| Run | Instance | What it shows |
|---|---|---|
| `EntryStore_canon` | PostgreSQL, 2 requests, 3 Entries, 2 keys (one single-current), no edits | `TypeOK`, `AtMostOneCanon`, `SupersessionLinks`, `HistoryReachesCanon`, `CanonStays` |
| `EntryStore_edit` | PostgreSQL, 2 requests, 2 Entries, 2 texts, 2 edits of an Entry | `CaptureChain`, `ReviewedFrozen`, `ImplementsLifecycle` |
| `EntryStore_live` | PostgreSQL, 2 requests, 2 Entries, 2 texts | `RequestsFinish`, through deadlocks too |
| `Library_anchors` | 3 requests, 1 work with 1 chapter, 1 world, 3 characters, 5 shapes of Entries, pages of 1, one generation or one list | `RetrievedIsSound`, `OnlyOrphansExcluded`, `CastIsLive`, `ListIsExact`, `CanonWasAnchored` |
| `Chapter_streams` | PostgreSQL, 3 continuations of 2 pieces, 2 workers, no saves, a chapter created empty | `CapturesTile`, `VersionAdvances`, `SettledOnce` |
| `Chapter_saves` | PostgreSQL, 2 continuations of 1 piece, 1 save of either of 2 texts, 1 worker | `UnsettledIsLast`, `AppendsToLatest`, `SettledWithChapter`, `ContinuationsEnd` |
| `Chapter_lost_update` | PostgreSQL, 1 continuation, 1 save | violated: a save overwrites what it has not seen |
| `StoryOrder_edits` | 3 chapters, 2 edits, lists of up to 3 ids, 2 summaries as Entries, 1 continuation | `StoryContextIsPrior`, `EachChapterToldOnce`, `EditsNeverFailContinuation`, `ReorderObeyed` |
| `Chat_turns` | 3 requests, 1 retry of a job, 1 restart, a summary for each 2 messages | `OneAnswerPerMessage`, `AnswersInOrder`, `SummariesExtend`, `SessionReopens`, `QueueDrains` |
| `Provider_calls` | 3 calls, 2 permits, 1 retry, 2 tokens | `OneAttempt`, `OneCandidate`, `GeminiAnswersAreWhole`, `WaitersServed` |
| `Prompt_assembly` | 12 chat turns and 12 continuations, 4 requests, 3 candidate sets for each task, 4 configurations, 3 capabilities (one of which says little) | `SelectionIsMaximal`, `AuthorBeforeExtraction`, `CanonWhole`, `LowerPriorityGivesWay`, `WithinWindow`, `AssemblyEnds` |
| `Prompt_trim` | the same | violated: an optional block fails an assembly |

The violated runs are disagreements between the code and a sentence of its own
documents; each is quoted in PROJECT.json under "findings".

Bounds. Two requests are enough for every race of the Entry Store that a pair of
operations can have, and the theorems below hold for any number. Three Entries
make a history of two replacements, so a chain and a rival can exist together;
`MaxCaptures` 2 makes a chain of captures. Three continuations make a settle
pass race an append and another settle pass; two pieces, each a word or white space,
make segments with white space at either end, at both and alone, and a partial one
differ from a whole one and from none. The two texts of `Chapter_saves` have white space
at both ends, and the words of both continuations in the wrong order around one of the
author; a chapter is created with either of them or empty. In `Library` three requests are a proposal,
its acceptance and a deletion between them, under a generation; each shape has
one combination of anchors that the code treats apart, and pages of one make
every boundary a page boundary. In `StoryOrder` three chapters leave one before and
one behind the target, two edits race each other and the continuation, and two
Entries may be about one chapter. In `Chat` three requests are a turn, a
regeneration and a refused one, or three turns with two summaries. In
`ProviderStream` three calls over two permits have one that waits. In
`PromptAssembly` windows, texts and thresholds are scaled down together: the
sources hold a text over the budget, one dense at its end, one dense at its
beginning, one with a space, none, more memories and messages than are taken,
lore of a protected priority, and characters that make the system text longer.

`CHECK_DEADLOCK FALSE`: a request is made at most once, so these models stop when all
are used up (`PromptAssembly` has a step for its end instead); a real deadlock of the
Entry Store would break `RequestsFinish`. Symmetry is used over requests and texts in
runs without liveness.

Fairness. `EntryStore`: strong fairness of each request's next statement, because
PostgreSQL queues the waiters of a row and grants a lock that keeps coming free,
and weak fairness of the deadlock detector. `ChapterContinuation`: weak fairness
of a started request's own statements except the wait for a token, which nothing
bounds (the adapters stream with `timeout=None`). `Chat`: weak fairness of the turns
except that wait, and of the tasks of the queue, whose provider call has a
timeout. `ProviderStream`: weak fairness of waking a waiter and of the end of a
pause; no provider is fair, so `WaitersServed` excepts the case that every permit is
held by a silent one. `PromptAssembly`: weak fairness of its steps, which wait for
nobody. Nothing makes a client send a request, and no failure is fair.

## 4. Proofs

Every theorem holds for every value of the constants that the named assumption of
its module admits; TLC evaluates these assumptions in each run. Where a theorem
assumes more, its statement says so.

`EntryStoreProofs`, for any number of requests, Entries, keys and texts, from
`StoreAssumption` and `RowLocking`, which section 6 shows to be needed:

* `Invariance`: `IInv` is an invariant. `IInv` is what the safety properties need to
  be inductive: they speak of committed rows only, and a commit keeps them only
  if what its request has checked is still true. So `IInv` says of each request, at
  each statement, what it holds and knows (`EditInv`, `TransitionInv`,
  `SupersedeInv`, `NoRivalInv`), why nobody else can change it (`OwnerInv`, the
  row locks), and that inserted ids are private (`IdsInv`). Its proof has a lemma
  per action; `Others` and `CommitOthers` carry the parts that speak of the
  other requests.
* `TypeCorrect`, `CanonUnique`, `LinksSound`, `CapturesChain` follow from `IInv`;
  `ReviewedStayFrozen` and `CanonNeverLost` are action properties, from `IInv` and the
  fact that only a commit writes rows (`OnlyCommitWrites`).
* `HistoriesReachCanon`, for finitely many Entries: the inductive part is `Unbroken`,
  no nonempty set of rows is superseded by rows of that set alone. A link is made
  from a canon row to one that becomes canon, so it closes no circle. A history
  that never reached a canon row would, by the pigeonhole principle, be such a
  set.
* `Refinement`: every behaviour of `EntryStore` with row locks is one of
  `EntryLifecycle`, with the text history rebuilt from the captures (`Drafts`). Each
  step maps to the operation it commits or to a stutter.

`LibraryProofs`, for any records, shapes of Entries and requests and pages of any
length, from `LibraryAssumption`:

* `Invariance`: retrievals and lists read in several queries while records go, so
  `IInv` says what has been found *so far*: nothing that was dead when the request
  began (`FoundLive`), and everything alive now that the queries already made ask
  for (`Found`). The second is stable because nothing comes back to life
  (`Grows`). `Admitted` is what acceptance leaves in a canon row, and is why a query
  exists that can find the row's scope live again; without it
  `OnlyOrphansExcluded` fails.
* `RetrievalIsSound`, `RetrievalIsComplete`, `CastLives` follow. `ListsAreExact` needs
  `ShownSane` (what the client has, up to the cursor, is ordered, sound and complete)
  and `PageSane` (no canon row hides between the rows of the page or, unless the page
  says that there are more, behind it).
* `CanonRestsOnLive` is the action property: the commit of an acceptance or an
  authored Entry finds every anchor alive in what the request itself has seen.

`ChapterContinuationProofs`, for any number of continuations, saves, workers,
pieces and texts, from `ChapterAssumption` and `RowLocking`:

* `Invariance`: `IInv` says that a continuation between a locked load and its
  COMMIT holds the row, and that the text, version and unsettled captures it
  loaded are the current ones (`Loaded`). Every property about a COMMIT needs
  this: the COMMIT writes what was loaded a step earlier. A continuation that
  holds no lock can rely on nothing (`LoadedVoid`), which is why saves, which
  lock nothing before their UPDATE, do not disturb it.
* `TypeCorrect`, `SettledForGood` and `SettledAsRead` follow with `CaptureStep`, which
  says what one step can do to a capture.
* `AppendsLatest` holds whatever saves write: by `Loaded` the text that a continuation
  appends to is the committed one, and the capture it files has that text's length.
* `SegmentsTile` and `VersionsAdvance` assume `Saves = {}`: a save that was checked
  against an old version breaks both (`Chapter_lost_update`), and one that was not may
  move the segments. `SegmentsTile` also assumes `Texts = {}`, a chapter that was created
  empty: `strip()` takes white space away from the front of an author's text, and the
  offset, measured before, is then off (section 6). `TileInv` adds that the chapter is
  stripped, so that a later append takes nothing away from it, that every segment ends
  within the text, and that no capture has a version above that of the chapter; the proof
  rests on lemmas about stripping a concatenation.
* `OnlyLastUnsettled` assumes one worker process: with two, section 6 applies.
  `Alone` adds that at most one continuation is under way and that nothing is
  unsettled once it is past a settle pass that did not fail.

`StoryOrderProofs`, for any number of chapters, edits and Entries, from
`StoryOrderAssumption`: `GenSane` says that all a continuation has been told is of its
one snapshot. `ContextIsPrior`, `ToldOnce` and `ContinuationsPrepare` follow from it;
`ReordersObeyed` is about the chapters that still exist at the commit: those listed have
their place in the list (`PlaceIs`), which is below the offset, and the others keep theirs
above it (`AssignedIs`).

`ChatProofs`, for any number of requests, retries and restarts, from
`ChatAssumption`:

* `IInv` has the guard (`OneStream`, also the theorem `SessionGuarded`), the order of the
  stored messages against the moment a prompt was read (`Ordered`), what a turn
  whose answer is still to be stored may rely on (`InHand`: it saw the newest message of
  the user, nothing visible is filed where its answer goes, and every visible answer
  stands before that) and what a job works from (`JobSane`).
* `OneVisibleAnswer`, `AnswersFollow` and `SummariesGrow` follow. The guard is what makes
  `InHand` stable between the transactions; a restart empties it together with the
  turns that relied on it.

`ProviderStreamProofs`, for any number of calls, permits, retries and tokens, from
`ProviderAssumption`: `Sane` says of one call that the tokens it has passed on are of
the attempt and the candidate it follows and that only a stream has any; `InLine`
and `WithinPermits` relate the queue and the permits to the calls.
`TokensOfOneAttempt`, `TokensOfOneCandidate`, `PermitsAndQueueAgree` and the action
property `GeminiWhole` follow.

`PromptAssemblyProofs`, for any capabilities, configurations, requests and sources and
any finite sets of candidates, from `TokenAssumption` and `PromptAssumption`:

* The lemmas about operators come first. `EarlierOrder` and `SortedIs`: keys of one
  length are in a strict total order, and sorting lists every pair once, in it (each
  pair has a place of its own by `Places` of `NaturalLemmas`). `TotalAdd` and
  `TextTokensAppend`: sums grow by what is added. `TrimToPrefix`: a cut leaves a
  beginning of the text, for any number of tokens. `AuthorScoresMore`: nine factors of
  two comparable Entries are equal, and the one of authority exceeds all that the
  one of confidence can add. `CollectedType` and `OrderedType`: what is collected are
  blocks that may be cut only if they are neither system text nor canon.
* `Invariance`: `IInv` says of each loop what its finished turns have settled.
  `Weighing`: what has been weighed ranks before what has not, and nothing is lost.
  `Selected` and `AuthorFirst`: the sum is that of the entries taken, and a candidate
  turned away had no room *even now*, because the sum only grows; so a comparable,
  shorter Entry of the author, ranked before, cannot have been turned away when an
  extracted one is taken. `Placed` is the same for rendering. `Fitting`: optional
  blocks are whole until the fit looks at them, it looks at them in one order, and
  after a cut or an omission for want of room nothing is available. Without that
  last part `LowerPriorityGivesWay` is not inductive.
* `SelectionMaximal`, `AuthorPreferred`, `CanonStaysWhole`, `PriorityRespected` and
  `FitsWindow` follow; the last with the rounding of the safety margin, which is up.

Induction over a list or a chain goes through `NaturalLemmas`, which states it for a
set of naturals and derives it from the well-foundedness of `<`.

Model-checked only: the liveness properties `RequestsFinish`, `ContinuationsEnd`,
`SessionReopens`, `QueueDrains`, `WaitersServed` and `AssemblyEnds`. They need ENABLED,
which is out of the reach of TLAPS here. Every invariant and every other action
property of a passing run has a theorem.

## 5. Not modelled

* The editor page and the other pages of the web client: React closures and a
  browser event loop. `ChapterContinuation` covers the server against any client: its
  theorems about saves hold for every set of texts. That the page may save words of a
  stream before they are appended (`page.tsx:84`) is a text among others there; no
  property of the server forbids it.
* Authentication: token formats and the OAuth exchange. The rest of the program sees
  a user id, by which every statement is filtered.
* The legacy-entry equivalence (`services/legacy_entry_equivalence.py`): a read-only
  diagnostic without state of its own.
* Of the generation preparation, the copying into frozen records and the evidence
  for diagnostics; of the AI configuration, credentials, templates and the flag
  `is_default`; migrations; prompt wording and template variables.
* Several owners at once: no query crosses a `user_id`.

## 6. Other disagreements

Met while modelling, each with the sentence it contradicts or the place where it
can be seen; no run stands for them.

* Entry Store, on SQLite (`RowLocking = FALSE` in `EntryStore_canon.cfg`): `FOR UPDATE` is ignored and the
  checks run outside a transaction, so two acceptances of one single-current
  identity both commit. `services/entry_service.py:1131` says SQLite "retains its
  single-writer behavior".
* An edit of a Review Card locks the row and then the owner (through the foreign
  key of its capture), an acceptance the owner and then the row: they deadlock
  and PostgreSQL aborts one. docs/architecture/edit-diff-capture-design.md:1239 says no Entry is
  "blocked by capture". `EntryStore_live` shows that both are answered.
* A proposal that differs from the canon version only in `subject_data` is refused
  by acceptance, which points to `supersede()` (`entry_service.py:746`), and by
  `supersede()` as well.
* A proposal of CHARACTER scope outside its pair subject can be created and never
  accepted (`_entry_character_anchor_ids`). Creation takes a chapter of a deleted
  work, acceptance does not.
* `_active_continue` is a set of one process: with two workers a capture may stay
  unsettled behind a later one although no settle pass failed
  (docs/architecture/edit-diff-capture-design.md:730); on SQLite a settled capture may be settled again
  (:753).
* `insert_offset` is measured before the separator (`novel_service.py:536`), so it does not
  say where the segment stands, as docs/architecture/edit-diff-capture-design.md:634 has it,
  but two characters before, unless the chapter was empty. And it is measured before
  `strip()`: if the author's text began with white space, the append takes that away and
  the offset is behind by as much (:1052 has it locate the segment in the text before the
  append).
* A full reorder after an earlier partial one may fail on the unique index: the
  offset of `novel_service.py:166` meets indexes that are offset already.
* Two summary jobs of one chat may cover the same messages twice, as two summaries
  of one version (.kiro/specs/ai-creative-workspace/requirements.md:99, AC-MEM-3, says coverage is
  monotonic). A forced summary is skipped the second time until a restart
  (`core/jobs.py:47`; requirements.md:102).
* `regenerate()` after the answer of the newest message was lost hides the answer of an
  *older* message, and files the answer to the newest one under that older message
  (`chat_service.py:143-148`): the old message is left without its answer, the new one has
  an answer that is filed elsewhere. `AnswersInOrder` says what holds all the same.
* A disconnect or a transport error loses what was streamed of a chat answer
  (`chat_service.py:198` handles `AppError` only; requirements.md:195, ERR-4). A network
  failure before the first token is not retried (requirements.md:122, AC-AI-4).
* `_trim_protected()` cuts the user's message, which requirements.md:111 (AC-PROMPT-4) protects
  absolutely.
* The messages of a chat are rendered newest first (`engines/prompt/engine.py:236` and
  `:251`), and the message that is answered occurs twice: in the history and at the
  end. `scan_depth` of lore has no effect, as both engines pass an empty history.
* A chat reads its character and world by primary key, deleted ones included
  (`chat_service.py:137`).
* Two default configurations created at once leave two defaults
  (`ai_config_service.py:45`; models/ai_config.py:3 claims one).
