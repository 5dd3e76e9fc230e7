# SinkDuce in TLA+

SinkDuce is a local-first knowledge box: files, meetings and notes are ingested into a vector
store and a set of SQLite and JSON stores, and are searched, discussed and reported on through a
web client and MCP tools. One server process does the work: an asyncio loop, a threadpool for
the synchronous routes and tools, and detached worker threads. What is hard about it is not the
individual functions but these three meeting: work that is cancelled, retried, interrupted by a
crash, or reported to clients while it is still going on. That is what is modelled here.

## 1. Inventory

| Part | State | Operations | Hard because | Must hold |
|---|---|---|---|---|
| Task manager (`tasks/task_manager.py`) | task table, cancel epochs, two queues, slot counters, released slots, executions | create, enqueue, dequeue, execute, release slot, complete, fail, cancel, retry, clear | executions of one task overlap; MCP tools and file deletion call it from worker threads | slots are neither leaked nor overdrawn; a cancelled execution never completes its task; nobody waits for nothing; every accepted task settles |
| Upload ledger, ingest history, recovery (`tasks/task_persistence.py`, `tasks/history_store.py`, `main.py`) | rows of `tasks.db`, history files, rows recovery holds | record, finish, mark, retry a row, recover at start | a crash can come between any two writes; two stores describe one task | what was accepted is ingested, shown as failed or still owed after any restart |
| Change stream (`events/bus.py`, `events/routes.py`, `frontend/src/api/events.ts`, `event-apply.ts`) | sequence number, ring, per-client queue and overflow flag, cursors on both sides | publish, replay, deliver, resync, reconnect | publishers are threads, queues are bounded, connections break, servers restart | a client ends up knowing every change it may see, and applies none twice |
| Ingest pipeline, versions, deletion (`tasks/handlers.py`, `file_mgmt/files.py`, `db/qdrant.py`) | chunks with their flags in Qdrant, rows in `meta.db`, uploads on disk | parse to store, new version, rollback, delete a version or the file, exclude from search | nothing spans the two stores; a version or a deletion overtakes an ingest under way; a failed ingest may have stored; flags are rewritten by reading points and writing them back | searches find the current version or nothing; a deleted file leaves nothing; what was uploaded is found in the end |
| Sparse index (`rag/sparse_recalc.py`, `rag/sparse_encoder.py`, `db/qdrant.py`) | vectors, and vocabulary, counter and lock inside the collection's config point | encode and store, delete, count, rebuild under the lock | every update rewrites the whole config, other parts update it too; Qdrant calls fail in silence | one rebuild at a time; vectors fit the vocabulary; no count lost; drift is rebuilt |
| Debounced consolidation (`api/routes/info.py`) | window with timer and snapshot per collection | schedule, fire, clear | a dict without a lock between requests, timers and the task they start; snapshots come from Qdrant | every change is consolidated in the end |
| Coverage lines (`rag/catalog.py`) | cooling flag, dirty mark, timer, lock per collection | trigger, defer, generate, end the cooling period | the generation is left to whoever thinks to be the last | the line covers the files in the end |
| Live summary of a recording (`meeting/live_summary.py`, `meeting/routes.py`) | engine state, tail, loop thread and its event, `live_summary.json` | start, stop, reset, finalize, drop; rounds, compaction | the event loop, loop threads and finalize meet when a recording starts again; a join gives up | running as asked with one loop; no line taken twice or left out; the file is not behind |
| File management: folders, timeline, to-dos | `meta.db` per collection | CRUD in transactions | mostly one writer | referential consistency |
| Chatbox and sessions | sessions, pending confirmations | ask, confirm, stream | driven by a language model | a confirmation is used once |
| Meetings, notes, reports | JSON stores | generate, edit, review | long generations over a store others edit | no edit is overwritten |
| MCP server, hub | staged uploads, the session's current box | tools, forwarding | tools run in worker threads | tools do what the routes do |
| Pairing, identity, collections, hot words, speakers | JSON stores | CRUD, access decisions | a store is written whole | decisions follow the store |
| Retrieval, providers, parsers, evaluation, frontend, desktop | none, or caches | pure processing, adapters, user interface | external services | |

How they meet: routes and tools create tasks; a handler runs on the loop and in executor threads
and writes Qdrant and `meta.db`; every committed write publishes an event, which the bus hands to
the SSE generators on the loop; clients re-read what the event names. Uploads leave a ledger row
and a history row behind, which the next start reads. Consolidation, sparse rebuilds and coverage
lines are triggered by ingests and deletions; the first two run as tasks again. The live summary has
its own threads and meets the rest only in the client.

The hazards, each at its line, are in `PROJECT.json`; the ones no property covers say why.

## 2. Modules

| Module | Models | Shown by |
|---|---|---|
| `TaskLifecycle` | the abstract promise: wait, run, settle; an upload is on the ledger until it settles | refined by `TaskManager` |
| `TaskManager` | `task_manager.py`, with the ledger and history writes of one process | runs `tm_*`, `v_cancelled_runs`, `v_offloop_retry` |
| `TaskManagerProofs` | theorems about `TaskManager`, and the safety part of its refinement | TLAPS |
| `UploadRecovery` | ledger, history, version transaction, crash, recovery, the two retries | runs `recovery`, `v_torn_upload`, `v_history_retry` |
| `UploadRecoveryProofs` | theorems about `UploadRecovery` | TLAPS |
| `Filtering` | what a comprehension over a list keeps, as a recursive function: used by `EventStream` and `UploadRecovery` | their runs |
| `FilteringProofs` | what `Filtering` does, for every sequence and every set | TLAPS |
| `EventStream` | bus, SSE generator, client | runs `events`, `v_events_missed` |
| `EventStreamProofs` | theorems about `EventStream` | TLAPS |
| `SearchableFile` | the abstract promise: a search sees the current version or nothing | refined by `FileIngest` |
| `FileIngest` | one file: its operations, its ingests, `meta.db`, Qdrant, uploads on disk, crash and recovery | runs `overlap`, `versions` |
| `FileIngestProofs` | theorems about `FileIngest`, the refinement among them | TLAPS |
| `SparseIndex` | vectors, vocabulary, counter, lock, rebuilds, other writers of the config point, failing calls, crash and start | run `upkeep` |
| `SparseIndexProofs` | theorems about `SparseIndex` | TLAPS |
| `SummaryDebounce` | the debounce window, its timers, consolidations | run `upkeep` |
| `CoverageRefresh` | triggers, cooling period, generation of the coverage line | run `upkeep` |
| `LiveSummary` | the live summary engine, its threads, its file | run `upkeep` |
| `LiveSummaryProofs` | theorems about `LiveSummary` | TLAPS |
| `CollectionProofs` | theorems about `SummaryDebounce` and `CoverageRefresh` | TLAPS |
| `MCTaskManager`, `MCUploadRecovery`, `MCFileIngest` | model values, and the symmetry sets of the runs that check no liveness | |
| `MCUpkeep` | one instance of each of `SparseIndex`, `SummaryDebounce`, `CoverageRefresh`, `LiveSummary`, and their fairness | run `upkeep` |

### TaskManager

One action is one uninterrupted stretch of the event loop. `CreateTask` puts the task in the table
and schedules `_enqueue_task` (`enq`); `EnqueueTask` writes the ledger and history rows and puts the
item in its queue; `Dequeue` and `StartRun` are the processor before and after its wait for a slot
(`held` is the item it keeps meanwhile). An execution is a *run* `r`: `pc[r]` goes from `created`
(the asyncio.Task exists) through `handling` and, for uploads, `released` (the slot was given back after
parse) to `completed` or `ended`; `lost` is a task cancelled before its first step. `runEpoch[r]` is the
local variable `epoch`. `FinishRun` is the four ways out of `_execute_task`, each with the
finally clauses of both functions. Cancel, retry and clear come as calls on the loop; the cancel that
the MCP tool and `delete_file` run in a worker thread is split at every statement the loop can get between
(`off` is its program counter), and the retry from a worker thread ends in the exception that
`asyncio.create_task` raises there. The clear of the MCP tool lists the settled tasks (`OffLoopClear`, `listed`) and then deletes
them one by one (`OffLoopDelete`), whatever they have become; it gives up with a KeyError when the loop has cleared one meanwhile
(`OffLoopClearRaises`). A task removed while it is active still has its item or its execution: that finds no task, the ledger row
goes, the history row stays as it was. `TaskLifecycle` says the same in its own terms: a waiting or running task goes only
by a clear that had listed it when it was settled (`Remove`).

Abstracted: what a handler does besides releasing the slot and ending; the cooperative cancel
events (an execution asked to cancel may end in any way, which covers them); progress and messages.
Crashes are in `UploadRecovery`.

### UploadRecovery

One file's life is: transaction opened (`draft`), task created inside it, ledger row, history row, queue,
chunks, success or failure row, ledger row removed. Each is an action; `Crash` may follow any of them and keeps
`cur` (the committed `current_version_id`), `ledger`, `rows` and `indexed`. `Restart` is everything up
to the settle delay, `RequeueSurvivors` what comes after it. A version is named by the
first task made for it. `queued` and `processing` of a history row are one state, `open`: nothing in recovery
tells them apart.

Two history variables serve the properties: `recorded` (tasks that ever reached the ledger) and
`excused`, the files that met one of the cases which the code is known not to handle: a retry of a task (it makes an old
version's ledger row the newest), and an upload that a crash or the recovery met between its ledger
row and its commit (finding 3).

### EventStream

A publisher stamps under the lock (`Stamp`), posts to the loop outside it (`Post`), and the loop offers
the event to the queue (`Offer`). `gen` is where the connection's generator stands, `cursor` its cursor;
`wire` the frames in flight; `since` the client's cursor; `known` the changes the client has re-read.
Changes are numbered by their event, `seq` starts over when the server does.

The stream loses changes in a few known ways, the *holes*. Each is recorded in
`excused` by the action where it happens, and only for the changes that really fall in it:
a publisher overtaken between stamp and post (`Post`); a reconnect without cursor (`Greet`); a cursor of an earlier
process that looks replayable (`CheckReplay`); an eviction between `can_replay` and `snapshot_since`
(`TakeSnapshot`); a surface the full reconcile does not re-read (`ReceiveResync`); an event that names no collection, for which the
client plans no refetch although it moves its cursor (`Unscoped`, `ReceiveChange`: a task cleared or cancelled, a file or note of no collection). The properties say that
there is no other way.

Abstracted: other clients (each has its own queue), echo suppression, the debounce of refetches (it makes the
client read later, hence more), keepalive frames, views that poll
(the database view reads every second while a task of its collection runs). The resync frame, the drain and the new cursor are one
step, because the generator goes on before the loop can serve the refetch that the frame causes.

### FileIngest and SearchableFile

`file`, `versions`, `number` are what `meta.db` has committed; `lock` is its one write lock, which a transaction
takes with its first write and keeps to its commit, while reads and Qdrant calls go ahead. `op[t]` is the operation a
thread is in and what it has read: `lock` (before the first write), `purge` (blobs and chunks go), `scroll` and
`upsert` (the two halves of a rewrite of flags), `queue` (the task is created), `commit`. A commit fails, or
the lock times out, where the code lets it. An ingest `i` goes from `queued` through `running`, `checked`
(`_file_row_exists`), `stored` and the second check to `done` and `settled`, or through `failed` to `aborted`; a
crash leaves it `gone`, and recovery turns that into `replaced`; `shownAs[i]` is what became of its task (`open`, `failed`, `retried`,
or `past` when that was before a restart and nothing can be retried any more), because the two part: a sparse upsert or a counter that raises after the store leaves the points and a
failed task (`FailStored`), and a cancel or the timeout ends the handler while `_do_store` goes on in its thread (`CutIngest`). `RetryIngest` is `retry_task`
of a failed task: the same version is queued again and nothing is deleted first, which is the hole `repeated` if the ingest had stored
or was about to; `chunks[i]` are the points it wrote, shown to searches (`live`) or not (`history`). `Recover` is the start-up
recovery with its rule for the newest row, without the two ledger races that `UploadRecovery` has.

The ways in which this goes wrong are the *holes*, each recorded by the action where it happens, with the condition
that really makes it one. The properties say that there is no other way, and each names only the holes it needs.
`SearchableFile` is what remains: whatever operations and ingests overlap, until a hole is met a search sees the
current version or nothing, and the version is replaced only while nothing is shown.

### SparseIndex

`config` is the collection's config point. Every `update_collection_config` is two steps, a read into `proc[p].seen` and a
write of the whole record (`Updates`); `undone` records the fields that a write put back to an older value. A thread per
chunk encodes under `_sparse_vocab_lock`, stores, counts and schedules; it may delete and store again. A rebuild
takes the config lock (or waits, or takes over a stale one), scrolls, writes vectors, saves the vocabulary,
subtracts from the counter, releases, and re-checks the counter. A read of the config may fail and answer with defaults
((`MisreadConfig`), which the next write makes real; writes of vectors, vocabulary and counter may fail. The updates of the other fields of the point
are threads of their own (`BeginUpdate`, `EndUpdate`), and what they undo is in `undone` too. The
process may crash and start again, which clears the lock (`AtStart`) unless the config cannot be read or written then: the lock stays, with nobody
behind it (`kept`), or the defaults are written over everything. `mishaps` are the named ways; two of them are ways into the lock that
have to be told apart: `raced` when two rebuilds stand between the read of the lock and its write, and `misread` when a
rebuild took a lock for free because the config could not be read.

### SummaryDebounce

`window` is the entry of `_debounce`; a change `k` is first the thread that calls `schedule_debounced_consolidate` and
then the timer it armed, hence one program counter `call[k]`. The dict has no lock, so the entry can go between two statements
(`MissWindow`, the KeyError). `run[j]` is a consolidation task and what it read; `StoreSummary` replaces the
summary and closes whatever window is open by then. A snapshot that cannot be taken ends the timer after it has popped the window (`FailCompare`), or the caller
before it opens one (`FailSnapshot`): the loss `unread`. `losses` are the named ways.

### CoverageRefresh

`actor[a]` is where a task, request or timer is on its way through the trigger: counting the other ingest tasks
(`CountOthers`), `mark_dirty`, `update_coverage` with the cooling flag (`Defer`, `Update`), the generation under
`Catalog._lock` (`owner`), the cooling period and its timer. `files` counts changes, `covered` is what the line was written
from. An update of another field of the config point may put an older line back (`OverwriteLine`). `neglects` are the named ways.

### LiveSummary

`worker[w]` is where a loop or a finalize thread is, `asked` the call the event loop is in; `event` is the current
`_stop_evt` and `stopped` those that are set, `worker[l].on` the one a loop waits on: it re-reads `_stop_evt` after each
round, which is how a loop outlives its stop. A join ends when the loop has ended or is in a round (the two seconds pass). A line
stands for the end of a final segment; `tail` is `tail_from_t`; `times` counts the rounds a line was new in. Of
the file and of each snapshot in hand, `copy` says whether the state has changed since: snapshots are taken under
the lock and written outside it. `surprises` are the named ways.

### MCUpkeep

The four mechanisms share no variable of their modules, and in the code they meet at one place, the config point, which the coverage line, the
summary's counter, the tags and the settings share with the fields of `SparseIndex`. That meeting is inside the modules: `Writers` are
threads that read the whole point and write it back, and `OverwriteLine` is such a write undoing the line. So `MCUpkeep` checks the four next to each
other, each behaviour being one of a `mechanism`; it is one run because the question is one: does derived data catch up with
what it is made of. It models nothing of its own.

## 3. Runs

| Run | Instance | Checks |
|---|---|---|
| `tm_cancel` | 2 uploads, 2 slots, 3 executions, one call of each kind, an off-loop clear among them | types; slot counting; the parse gate; cut executions never complete; PENDING is queued and PROCESSING is worked on (tasks driven from the loop) |
| `tm_quiet` | 2 uploads, 1 general task, 1 slot per queue, 2 retries, 1 off-loop clear, no cancel | refinement of `TaskLifecycle` with its liveness; history agrees with status and ledger |
| `recovery` | 1 file, 3 task ids, 2 crashes, 1 task retry, 1 history retry | accepted uploads survive; no ledger row without work; they settle |
| `events` | 2 publishers, ring 2, queue 1, 4 changes (one hidden, one not reconciled, one without a collection), 2 broken connections, 1 restart | no double or backward delivery; nothing dropped in silence; nothing missed outside the holes; every visible change arrives |
| `overlap` | 2 symmetric threads, 3 operations of any of the 6 kinds, 2 versions and up to 2 more, 3 ingests that may be cut or fail, no crash and no retry | the row names a version; searches find the current version, excluded files nothing; nothing outlives the file; the current version is found and has its upload |
| `versions` | 1 thread, 2 operations or one and a retry, 1 version and 1 more, 4 ingests, 1 crash | refinement of `SearchableFile`; a version is indexed twice only by one of the two reruns; uploads become searchable |
| `upkeep` | 2 chunks, 2 rebuilds, 1 other writer, threshold 2, 2 uses; 3 changes, 2 consolidations, 1 extra; 2 uploads, 1 summary, 1 request, 1 fault; 2 lines, window 1, 3 client messages, 1 finalize, 1 miss | rebuilds apart and the lock with its holder; vectors fit, counts are kept; the line covers; the live engine is as asked, takes lines once, keeps its file; all four catch up |
| `v_cancelled_runs`, `v_offloop_retry`, `v_torn_upload`, `v_history_retry`, `v_events_missed` | smallest that show it | the findings below |

Why the bounds are enough. `MaxRuns` is the number of tasks plus the retries, as many as can ever start, so
it cuts nothing off. Two tasks and three executions are what it takes for two executions of one task to
overlap while another task competes for the slot. Two crashes let the second hit the recovery of the
first; three task ids let two versions and a retry of either coexist. A ring of two with four changes
evicts, a queue of one overflows at once, two drops and a restart let a reconnect fail again and meet the
new process. One process-wide instance of each store is what the code has.

In `overlap` two operations overlap and a third finds what they left; two versions at first are what a rollback or the
deletion of a version needs, two more what two uploads make. Three ingests let a new version's overlap with the old
one's. `versions` has one thread and two operations because liveness, the retry and the crash multiply the states; more operations, and their overlap, are in the other
run, and the refinement is proved for any number of all of them. Four ingests are an upload's next to the first one's, with one more for the retry and one for recovery,
so a rerun never waits for a free number. The one off-loop clear meets every retry. The two chunks of `upkeep` reach the
threshold, so that a rebuild meets another store; two rebuilds race for the lock. Three changes are a window, its restart
and a change during the consolidation. Two uploads leave the generation to each other, a document summary and a request
come between. Three client messages are a start, an end of the recording and a start that meets its finalize; that a third
loop appears takes a fourth, which was run apart from the rest. One other writer is enough to undo any field, since it may read the point at any time and write it back at
any later one.

An excuse is worth what it excludes. Each hole, mishap, loss, neglect and surprise is set only where the
offending order really occurs, a property names only those it needs, and each was taken out in turn to see that the property
then fails. For some that takes a larger instance than the run's: the fourth message for `orphaned` in `EnabledIsServed`, three
uses for `misread` in `OneRebuild` and `VectorsFitVocabulary` and for `raced` in `CounterCoversChanges`, four for `misread` there.
`DriftIsRebuilt` turned out to need none of the three ways past the lock, and no longer names them.

`CHECK_DEADLOCK FALSE` is set everywhere: an idle server, or a stream with nothing to send, may rest.

Fairness. The loop runs whatever is ready and threads get on with their calls (weak fairness per kind of
step); `asyncio.wait_for` ends every handler, hence weak fairness of `FinishRun` and of `WorkOn`; somebody starts the
process again (`Restart`); a client reads its stream and reconnects with backoff (`Connect`,
`Receive`). No fairness is given to users, crashes, drops, publishers or the release of a slot. The deletions of a clear that has begun are fair too. In `FileIngest` ingests,
the steps of an operation that has begun, and recovery are fair; no operation has to begin, nothing has to fail or to be retried. In `MCUpkeep` threads
run, timers fire, the general queue starts what is queued, tasks, generations and rounds end; nobody has to ask,
to change or delete anything or to speak, and nothing has to fail. Failures are bounded: with a model or a Qdrant
that fails for ever nothing catches up.

Each property of a passing run has a mutation in the module it is about ("Mutation of ..."): a plausible bug
in the code that the run would report.

## 4. What is proved

`TaskManagerProofs` proves, for every set of tasks, every `max_concurrent` and all bounds:
`TypeCorrect`, `SlotsAccounted`, `ParseGated` and `CutRunsNeverComplete`. It rests on the assumptions on the
constants in `TaskManager` and nothing else. The inductive invariant is

    SafetyInv == WeakTypes /\ Assigned /\ Routed /\ SlotInv /\ CutInv

- `WeakTypes` is `TypeOK` with slot counters in `Int`: that they do not go negative is not inductive by types
  alone and comes from `SlotInv`.
- `Assigned`: an execution that was started works for a task; `Routed`: items are in the queue of their task's
  type, so that `StartRun` takes a slot of the right counter.
- `SlotInv` adds to `SlotAccounting` that every entry of `_upload_slot_released` has an execution of its task that is
  past parse, and that the counters stay within the limit. Without the former, the finally clause could
  consume an entry that no holder stands behind; `Matching` counts the entries against the executions and gives
  the parse gate.
- `CutInv`: the epoch a running execution has read is never ahead of its task's, and strictly behind it once the execution is cut.

There is one lemma per part for `Init`, one for the step (one proof step per action), and lemmas for the
writes several actions share.

`FileIngestProofs` proves, for any number of versions, threads, ingests, operations and crashes: `TypeCorrect`,
`RowIsSound`, `SearchesAreCurrent`, `DeletionIsFinal`, and `Refinement`, that `FileIngest` implements `SearchableFile`.
The inductive invariant is

    Inv == Base /\ CurrentRow /\ Ordered /\ Progressed /\ LiveIsCurrent /\ NothingLeft

- `Base` is types, what an operation has in its hands (`Shaped`), the write lock (`LockHeld`), that only
  queued ingests have a version and chunks (`Assigned`), and how far an ingest is whose task has ended (`Ended`).
- `CurrentRow`: the files row of a file that is there names a version row.
- `Ordered`: `version_no` orders the versions and the current one is the last, so the later versions a rollback
  collects are all that can stand above its target.
- `Progressed`: what an operation can rely on after the steps it has taken. At its commit a rollback has no chunks
  of a later version left that are shown; an upload has read every point before it writes them back and has none shown
  when it queues its task; what an unarchive shows again is of the current version; a file deletion has purged all.
- `LiveIsCurrent`: chunks that are shown are of the current version. `NothingLeft`: once a deletion has purged the
  file, only an ingest between its store and its second check has chunks.

`Ordered`, `Progressed` and `LiveIsCurrent` are conditional on the holes not met so far (`Calm`).

The refinement follows from `Inv` and `Inv'`, one step per action: a step that changes the version shows nothing
before and after, or loses trust.

The other four properties of the runs follow from a second invariant, which rests on `Inv`:

    Inv2 == UsedOnce /\ OneIngest /\ CutIsBare /\ Kept /\ OwnIsLive /\ Found /\ Hidden
            /\ OwnIsUncut /\ Succeeded

- `UsedOnce` and `OneIngest`: a version id is given once, and of the ingests of a version all but one were replaced after
  a crash or retried (`Superseded`); with `CutIsBare` (an ingest that was cut or retried has left nothing and will store nothing, but for the holes `replayed` and
  `repeated`) this is `StoredOnce`, for any number of crashes, retries, cancels and failures after the store.
- `Kept` (`BlobsAreKept`): a version that is, or that an upload may still commit, has its blob, and its chunks if it was
  ingested, unless an operation has removed them whose next commit removes the row. It has to speak of uploads
  that have not committed, because the commit is where their version becomes the current one.
- `Found` (`CurrentIsSearchable`): the chunks of the current version are shown, or somebody is about to show them. `OwnIsLive`
  gives it for a version that becomes current, and says nobody touches its chunks before.
- `Hidden` (`ExclusionHolds`): while the file is excluded only the operation that ends the exclusion shows anything, and the one that
  brings it about has seen all there is before it commits.
- `Succeeded`: an ingest that recovery gave up, or whose task was retried, has one in its place for the same version, unless that version was dropped. `OwnIsUncut` is
  what makes this inductive: no upload that still goes on has an ingest cut by a crash, because the crash takes the upload with it, so a
  commit cannot bring back a version whose ingest was given up.

`NoUploadIsLost` is read off `Inv` and `Inv2`: when no operation is under way and the file is neither deleted nor archived, an ingest of its
current version is shown, under way, failed where the user sees it, or waits for recovery. Three holes are excused
(`stale`, `torn`, `dropped`); TLC shows for each that the statement fails without it. This is the safety half of
`UploadsBecomeSearchable`; that the ingest then ends is the run's.

**Tasks that wait.** For tasks that nobody touches from a worker thread, `PendingIsServed` and `ProcessingIsServed` follow
from `SafetyInv` and `LoopInv == HandlesAreOwn /\ LoopPendingIsQueued /\ LoopProcessingIsLive`: an entry of `_async_tasks` is an execution of
its task that was started, without which a cancel could strike the execution of another task, or one yet to come.

**The refinement of TaskLifecycle.** `HistoryIsMirrored` and `KeepsLifecycle` are about the constants of `tm_quiet`, with any
number of tasks and of everything else: nobody cancels, and retries come on the loop (`Quiet`); clears may come from anywhere, and an active task that one of them removes
has the ledger row until its execution has found out. The invariant
`QuietInv == Calm /\ \A t \in Tasks : OneItem(t)` says that a task is at one place only (to be queued, in its queue, held by the
processor, or in one execution) and what status, ledger and history are at each. From it every step of `TaskManager` is a step of
`TaskLifecycle` or a stutter; the fairness of the abstract specification is left to the run.

**UploadRecoveryProofs**, for any numbers of files, tasks, crashes and retries: `RecoveryTypes`, `LedgerIsServed` (no ledger row is
left without work while the process runs), `UploadsAreOwed` (what was recorded is ingested, shown as failed or still owed) and, from the two,
`EveryUploadIsAnswered`: where the system comes to rest nothing is owed any more, the safety half of `UploadsSettle`.

    UploadInv == Base /\ LedgerRowHasWork /\ OwnVersion /\ RekeyExcused /\ Latest /\ InOrder /\ Outcome /\ Held

- `Base`: types, a process that is down has no memory (`Asleep`), task numbers grow with the versions of a file (`Born`), where a task can
  wait (`Queued`), and a task that is worked on has its ledger row (`OnRecord`).
- Recovery keeps the newest ledger row of each file and drops the others, and this is right only because of the order: `InOrder`
  says that the ledger, and the rows recovery holds, list the tasks of a file that is not excused in the order of its versions,
  and `Latest` that the last of them is the current version or the one being uploaded.
- `OwnVersion` and `RekeyExcused`: only tasks of excused files work on the version of another task, or took its row.
- `Outcome` ties stages to the stores; `Held` is the property for the task of the current version or of the one being uploaded.

**EventStreamProofs**, for any number of publishing threads and changes, whichever of them are hidden, not reconciled or without a collection, and any sizes of ring and queue: `EventTypes`, `FramesMoveOn`, `AheadIsKept` and
`HolesAreAll`.

    EventInv == TypeOK /\ Numbered /\ Staged /\ Ordered /\ AboveFloor /\ Ahead /\ Behind /\ Reached

- `Numbered`: the ring is the last numbers without a gap, and what is in hand, posted, queued, replayed or on the wire was numbered
  by this process. `Staged`: what is on the wire, and what the client has, fits where the generator stands.
- `Ordered` and `AboveFloor`: numbers go up along wire and replay, and nothing there is behind the cursor the client has or will have.
- `Ahead`: once greeted, every number after the generator's cursor is on its way, or the overflow flag is up. `Behind`: an event that comes
  after one with a higher number has been excused.
- `Reached`: for every surface that is open, each change is known, excused, or yet to come by a frame, a refetch or a reconnect.
  `AheadIsKept` and `HolesAreAll` are read off it.

A bus filters its ring by a list comprehension, so these proofs, and those of recovery, need what filtering does to an arbitrary sequence. That is a
statement by induction over data; `FilteringProofs` gets it (`KeptIsFiltered`) from the least counterexample: among the
prefixes for which it fails there would be a shortest one, which is not empty and whose predecessor does not fail.

**SparseIndexProofs**, for any numbers of chunks, rebuilds and other writers, failing calls, crashes and starts that leave the lock: `IndexTypes`, `RebuildsAreApart`, `LocksHaveHolders`, `VectorsKeepTheirMeaning`,
`NoChangeIsForgotten` and `DriftHasItsRebuild`.

    IndexInv == /\ Typed /\ VocabLockHeld /\ RebuildAlone /\ LockHasHolder
                /\ Counting /\ CounterCoversChanges /\ Fitting /\ DriftIsSeen

- `RebuildAlone` also excludes a rebuild that has read the lock and not yet written it: without that `OneRebuild` is not
  inductive. It showed that the model had noted `raced` too late and had no name for a lock that could not be read.
- `Counting`: between its scroll and its update of the counter, what a rebuild saw there and what has been counted since add up.
- `Fitting`: who is in the vocabulary lock has the collection's vocabulary and its own term, who has left it finds its term there by the
  same id; a rebuild has the terms of all chunks, and once it has written, all chunks have its ids.
- `DriftIsSeen`, the safety part of `DriftIsRebuilt`: a counter at the threshold has a rebuild, or a thread about to create one. It
  is inductive as it stands, given the types.

**LiveSummaryProofs**, for any numbers of lines, messages, loops and finalize threads: `LiveTypes`, `EachLineOnce`, `FileIsCurrent`, `ClientIsServed`,
`TheRestIsOwed` and `EveryLineHasItsRound`, from `LiveInv == LiveBase /\ LinesInv /\ FileInv /\ ServeInv /\ Owed`. `LinesInv` relates the tail to the lines that rounds have taken and to
what the round under way has read; `FileInv` says who holds a snapshot and that the file is behind only while somebody does;
`ServeInv` relates the stop event, the loop's handle and the engine to the call under way, to the finalize threads and to what the client wanted: one loop
waits on the event that is current, and a set event, or none, leaves no loop that goes on. `Owed` says who will have the lines after the tail: a
loop that goes on, a finalize with its round before it, or a stop that is about to name them. It is false without its three excuses
(`disabled`: the engine was stopped or reset with lines left and no loop to take them; `missed`: finalize's round got no usable answer; `tooLate`:
a line came while that round was asking, or after).
At rest nobody owes anything, so every line has had its round (`EveryLineHasItsRound`, the safety half of `LinesAreSummarized`).

**CollectionProofs.** For `CoverageRefresh`, with any tasks and requests: `CoverageTypeCorrect`, `CoolingEnds` (the cooling flag always has a
timer) and `NothingPassedOver` (when all is quiet the line covers the files, or a named way was met). The invariant adds that
only the lock's holder begins or ends a cooling period (`GenerationIsWarm`), that the line is never ahead of
the files (`NeverAhead`), and, the heart of it, `PassedOn`: as long as the line is behind, somebody is still to see to it.

For `SummaryDebounce`, with any number of changes and consolidations: `SummaryTypes` and `SummaryIsCurrent` (when nothing is under way the summary is
made of what takes part, or a named way was met: the safety part of `SummaryCatchesUp`), from

    SummaryInv == SummaryTyped /\ HasTimer /\ TimersOfWindow /\ Followed

`TimersOfWindow`: the armed timer is the one of the window that is open; with `HasTimer` a quiet state has no open window. `Followed` says the same
twice, of what the text says and of whether anything takes part, because a forced consolidation is needed for the
first and a net comparison of snapshots may stop one for the second: a running consolidation that has read something else has a change on its way behind
it, and a summary made of something else has that or a consolidation to come.

**Only model-checked.** Liveness under fairness and `ENABLED` are out of the proof system's reach: `UploadsSettle`, `ChangesArrive`,
`UploadsBecomeSearchable`, `DriftIsRebuilt`, `SummaryCatchesUp`, `CoverageCatchesUp`, `LinesAreSummarized`, and the fairness of
`TaskLifecycle` in `ImplementsLifecycle`. Each of them has its safety part proved, as a statement of the states in which nothing is under way, or
of who is still to act (for `ImplementsLifecycle`, the steps):

| liveness property | safety part proved |
|---|---|
| `UploadsSettle` | `EveryUploadIsAnswered` |
| `ChangesArrive` | `AheadIsKept`, `HolesAreAll` |
| `UploadsBecomeSearchable` | `NoUploadIsLost` |
| `DriftIsRebuilt` | `DriftHasItsRebuild` |
| `SummaryCatchesUp` | `SummaryIsCurrent` |
| `CoverageCatchesUp` | `NothingPassedOver` |
| `LinesAreSummarized` | `TheRestIsOwed`, `EveryLineHasItsRound` |
| `ImplementsLifecycle` | `KeepsLifecycle` |

What the runs add is that the states of rest are reached. What the `v_` runs refute is false, and has no proof. Every invariant of a
passing run, and every other action property of one, is a theorem.

## 5. Findings

1. `v_cancelled_runs`: a task cancelled while queued is executed when its turn comes. `cancel_task` leaves the
   item in the queue, and `_execute_task` only asks whether the task is still listed.
2. `v_offloop_retry`: `retry_task` from the MCP tool resets the status and then raises, because a worker
   thread has no running loop: the task stays PENDING and cannot be retried again.
3. `v_torn_upload`: a new version's ledger row may be written before the version is committed. A crash in between makes
   recovery drop both that row and the one of the version that is still current.
4. `v_history_retry`: retrying an old version's failed history row deletes all chunks of the file, also those of the
   current version.
5. `v_events_missed`: after a resync frame the client has no cursor; if the connection breaks before the next
   change it reconnects as if for the first time, and the change in between is never shown.

6. `clear_completed_tasks` of the MCP tool says that pending and processing tasks are not affected. It runs in a worker thread,
   lists the finished tasks and deletes them afterwards: one that was retried on the loop in between is removed while it is active
   (`OffLoopDelete`, `mcp/tools/tasks.py:269`, `tasks/task_manager.py:276`).
7. The comments where `task.cleared` and `task.cancelled` are emitted say that other devices are to follow
   (`api/routes/documents.py:305`, `:329`). Both events have no collection, and a client plans nothing for a task event without one
   (hole `Unscoped`, `event-apply.ts:83`).
8. The re-check at the end of a sparse rebuild asks `has_active_task` while its own task is still PROCESSING, so the
   next pass it is there to queue is never queued (`Recheck`, mishap `selfBlocked`, `tasks/handlers.py:2680`).
9. `run_sparse_recalc` says that its lock keeps uploads and deletions out and that a failure leaves the collection
   consistent. They do not take the lock, and vectors are written before the vocabulary (mishaps `crossed`, `halfway`).
10. `toggle_archive` says that an archived file is excluded from search. An ingest that stores later stores its chunks
   as live, whatever `files.archived` says (hole `excluded`).
11. `update_coverage` says that it is called after a file is deleted. `delete_file` and `delete_file_version` do not
   call it (`DeleteQuietly`, neglect `unannounced`).
12. `reset` of the live summary says that the next round goes on from now. It makes the engine idle, and segments go
    to a running engine only: after a reset nothing is taken until the client starts it again (surprise `reset`).
13. `finalize` says that a reconnecting client's start wins. A start that comes before the ending loop has noticed trusts that
    loop, and one during the join has its loop's handle dropped (surprises `restarted`, `orphaned`).

Findings 6 to 13 have no violation run of their own: the step is in the model, and the property (for 6 the abstract specification) names it as the exception
without which it fails.

Met on the way and kept as hazards: an asyncio.Task cancelled before its first step keeps its slot for good (`LoseRun`);
a retry makes an old version's ledger row the newest of its file; the retry of an upload whose points were stored before it failed
stores them a second time (`RetryIngest`).

## 6. Not modelled

Cooperative cancel events and `stop()`; unversioned uploads and the cap on history rows; unreadable databases; the
content of files, prompts, answers and documents; the parts listed as `not_modelled` in `PROJECT.json` with their
reasons. Parsers, retrieval, providers and the user interface have no shared state to speak of; reports, notes and
chat are driven by model answers. The repository has some 96 thousand lines, most of them such processing, routes
and views: the modules cover its concurrent core, which is a small share of the lines.

Inside the modelled parts: in `FileIngest` the folders of `toggle_archive` and `delete_file`, the flag for unassigned
files, an `upsert_points` that fails, Qdrant calls that fail in an operation, and the history retry (in `UploadRecovery`; the retry of a task is modelled); in
`SparseIndex` rebuild tasks that are cancelled or time out, the paging of the scroll and document frequencies; in
`SummaryDebounce` consolidations that are deferred for want of summaries, and two calls that arm a timer between
each other's statements, and `summary_change_counter`, which nothing acts on; in `LiveSummary` a disk that refuses `live_summary.json` (`_persist` logs the error and goes
on, `live_summary.py:439-445`: the file then stays behind), the deduplication of segments by key, an engine that resumes a saved state, deletion of
the meeting, and the AttributeError of a stop and a finalize that join the same handle at once.

## 7. Plan

Every safety property of a passing run is proved, and the safety part of every liveness property. What is left, in this order:

1. More of the system: the confirmations a chat stream awaits, and the review decisions of a report.
2. Meetings beyond the live summary: the stages of the generation pipeline against edits of the transcript.
