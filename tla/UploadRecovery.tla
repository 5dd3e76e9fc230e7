--------------------------- MODULE UploadRecovery ---------------------------
(***************************************************************************)
(* Upload tasks across crashes: the transaction that stores a new file     *)
(* version (file_mgmt/files.py), the durable ledger (task_persistence.py), *)
(* the ingest history (history_store.py), the start-up recovery of         *)
(* TaskManager and the two ways to retry a failed ingest.                  *)
(*                                                                         *)
(* The queue itself is module TaskManager; here a task has one unit of     *)
(* work in flight at most (nobody cancels).  Every durable write is an     *)
(* action of its own, so that a crash can come between any two of them.    *)
(***************************************************************************)
EXTENDS Naturals, Sequences, FiniteSets, SequencesExt, Filtering

CONSTANTS
  Files,              \* managed files of one collection
  NoFile,             \* the file of a task id not used yet
  MaxTasks,           \* bound: upload tasks ever created
  MaxCrashes,         \* bound: crashes
  MaxRetries,         \* bound: calls of retry_task
  MaxHistoryRetries   \* bound: calls of retry_ingest_history

ASSUME FilesAssumption == IsFiniteSet(Files) /\ NoFile \notin Files
ASSUME BoundsAssumption == /\ MaxTasks \in Nat
                           /\ MaxCrashes \in Nat
                           /\ MaxRetries \in Nat
                           /\ MaxHistoryRetries \in Nat

TaskIds == 1..MaxTasks
CallKinds == {"crash", "retry", "historyRetry"}

VARIABLES
  cur,        \* files.current_version_id; 0: no committed row for this file
  draft,      \* file and version of the upload transaction that is open
  work,       \* file and version a task ingests; a version is known by the
              \* first task made for it
  stage,      \* how far a task is: "queued" until the handler ends, "stored" when it
              \* has written its chunks; "unborn": id not used, "gone": in a crash
  scheduled,  \* _enqueue_task coroutines waiting for the event loop, in order
  ledger,     \* the rows of tasks.db, oldest first
  rows,       \* the ingest history, oldest first
  rekey,      \* history row a retry is about to hand to its new task
  survivors,  \* rows recovery holds while it waits for settle_delay
  indexed,    \* versions with chunks in the vector store
  up,         \* the process runs
  calls,      \* calls made so far, against the bounds above
  recorded,   \* history: tasks that ever got a ledger row
  excused     \* history: files retried, or with an upload that a crash or the
              \* recovery met between the ledger row and the commit

diskVars == <<cur, ledger, rows, indexed>>
memoryVars == <<draft, stage, scheduled, rekey, survivors>>
history == <<recorded, excused>>
vars == <<diskVars, memoryVars, work, up, calls, history>>

RowStates == {"open", "success", "failed"}  \* "open": queued or processing
InFlight == {"scheduled", "persisted", "queued", "stored", "succeeded", "failing"}
Stages == InFlight \union {"unborn", "gone", "COMPLETED", "FAILED"}

TypeOK ==
  /\ cur \in [Files -> 0..MaxTasks]
  /\ draft \in {<<>>} \union (Files \X TaskIds)
  /\ work \in [TaskIds -> [file : Files \union {NoFile}, ver : 0..MaxTasks]]
  /\ stage \in [TaskIds -> Stages]
  /\ scheduled \in Seq(TaskIds) /\ IsInjective(scheduled)
  /\ ledger \in Seq(TaskIds) /\ IsInjective(ledger)
  /\ rows \in Seq([task : TaskIds, status : RowStates])
  /\ rekey \in {<<>>} \union ((DOMAIN rows) \X TaskIds)
  /\ survivors \in Seq(TaskIds) /\ ToSet(survivors) \subseteq ToSet(ledger)
  /\ indexed \subseteq Files \X (1..MaxTasks)
  /\ up \in BOOLEAN
  /\ calls \in [CallKinds -> Nat]
  /\ recorded \subseteq TaskIds
  /\ excused \subseteq Files

Init ==
  /\ cur = [f \in Files |-> 0]
  /\ draft = <<>>
  /\ work = [t \in TaskIds |-> [file |-> NoFile, ver |-> 0]]
  /\ stage = [t \in TaskIds |-> "unborn"]
  /\ scheduled = <<>>
  /\ ledger = <<>>
  /\ rows = <<>>
  /\ rekey = <<>>
  /\ survivors = <<>>
  /\ indexed = {}
  /\ up = TRUE
  /\ calls = [k \in CallKinds |-> 0]
  /\ recorded = {}
  /\ excused = {}

----------------------------------------------------------------------------
\* The ledger and the history.

Without(s, t) == Kept(s, TaskIds \ {t})

FileOf(t) == work[t].file

\* _find_by_task: the last row with this task id, 0 if there is none.
RowOf(t) == SelectLastInSeq(rows, LAMBDA row : row.task = t)

SetRow(i, s) == [rows EXCEPT ![i].status = s]

\* mark_success, mark_failed; mark_processing leaves the row open.
MarkRow(t, s) == rows' = IF RowOf(t) = 0 THEN rows ELSE SetRow(RowOf(t), s)

\* record_queued reuses the task's row.
RecordQueued(t) ==
  rows' = IF RowOf(t) = 0
          THEN Append(rows, [task |-> t, status |-> "open"])
          ELSE SetRow(RowOf(t), "open")

CountCall(k, max) ==
  /\ calls[k] < max
  /\ calls' = [calls EXCEPT ![k] = @ + 1]

\* create_task, or the create_task(_enqueue_task(..)) of retry and recovery.
Schedule(t) ==
  /\ stage' = [stage EXCEPT ![t] = "scheduled"]
  /\ scheduled' = Append(scheduled, t)

IsFresh(t) ==
  /\ stage[t] = "unborn"
  /\ \A u \in TaskIds : u < t => stage[u] # "unborn"

----------------------------------------------------------------------------
\* Uploading.  The task is created inside the transaction that makes the new
\* version current, so the event loop may work on it before the commit.

BeginUpload(f, t) ==
  /\ up
  /\ draft = <<>>
  /\ IsFresh(t)
  /\ draft' = <<f, t>>
  /\ work' = [work EXCEPT ![t] = [file |-> f, ver |-> t]]
  /\ Schedule(t)
  /\ UNCHANGED <<diskVars, rekey, survivors, up, calls, history>>

CommitUpload ==
  /\ draft # <<>>
  /\ cur' = [cur EXCEPT ![draft[1]] = draft[2]]
  /\ draft' = <<>>
  /\ UNCHANGED <<ledger, rows, indexed, stage, scheduled, rekey, survivors, work,
                 up, calls, history>>

\* _enqueue_task: first the ledger row (INSERT OR REPLACE with a new
\* created_at), then the history row, then the queue.
PersistTask ==
  /\ scheduled # <<>>
  /\ LET t == Head(scheduled) IN
       /\ ledger' = Append(Without(ledger, t), t)
       /\ stage' = [stage EXCEPT ![t] = "persisted"]
       /\ recorded' = recorded \union {t}
  /\ scheduled' = Tail(scheduled)
  /\ UNCHANGED <<cur, rows, indexed, draft, rekey, survivors, work, up, calls, excused>>

QueueTask(t) ==
  /\ stage[t] = "persisted"
  /\ RecordQueued(t)
  /\ stage' = [stage EXCEPT ![t] = "queued"]
  /\ UNCHANGED <<cur, ledger, indexed, draft, scheduled, rekey, survivors, work,
                 up, calls, history>>

\* The store stage refuses a file without a committed row.
StoreChunks(t) ==
  /\ stage[t] = "queued"
  /\ cur[FileOf(t)] # 0
  /\ indexed' = indexed \union {<<FileOf(t), work[t].ver>>}
  /\ stage' = [stage EXCEPT ![t] = "stored"]
  /\ UNCHANGED <<cur, ledger, rows, draft, scheduled, rekey, survivors, work, up,
                 calls, history>>

RecordSuccess(t) ==
  /\ stage[t] = "stored"
  /\ MarkRow(t, "success")
  /\ stage' = [stage EXCEPT ![t] = "succeeded"]
  /\ UNCHANGED <<cur, ledger, indexed, draft, scheduled, rekey, survivors, work,
                 up, calls, history>>

RecordFailure(t) ==
  /\ stage[t] \in {"queued", "stored"}
  /\ MarkRow(t, "failed")
  /\ stage' = [stage EXCEPT ![t] = "failing"]
  /\ UNCHANGED <<cur, ledger, indexed, draft, scheduled, rekey, survivors, work,
                 up, calls, history>>

\* Mutation of FinishUpload: only a success removes the ledger row.
FinishUploadIfCompleted(t) ==
  /\ stage[t] \in {"succeeded", "failing"}
  /\ ledger' = IF stage[t] = "succeeded" THEN Without(ledger, t) ELSE ledger
  /\ stage' = [stage EXCEPT ![t] = IF @ = "succeeded" THEN "COMPLETED" ELSE "FAILED"]
  /\ UNCHANGED <<cur, rows, indexed, draft, scheduled, rekey, survivors, work, up,
                 calls, history>>

\* The finally of _execute_upload_task; the status is visible from here on.
FinishUpload(t) ==
  /\ stage[t] \in {"succeeded", "failing"}
  /\ ledger' = Without(ledger, t)
  /\ stage' = [stage EXCEPT ![t] = IF @ = "succeeded" THEN "COMPLETED" ELSE "FAILED"]
  /\ UNCHANGED <<cur, rows, indexed, draft, scheduled, rekey, survivors, work, up,
                 calls, history>>

----------------------------------------------------------------------------
\* Retrying.

\* retry_task keeps the task id; the task list does not survive a crash.
RetryTask(t) ==
  /\ stage[t] = "FAILED"
  /\ CountCall("retry", MaxRetries)
  /\ Schedule(t)
  /\ excused' = excused \union {FileOf(t)}
  /\ UNCHANGED <<diskVars, draft, rekey, survivors, work, up, recorded>>

\* retry_ingest_history, in a threadpool thread: all chunks of the row's source
\* go (the key is the file, not the version), then a new task is created with
\* the arguments of the old one, and only then the row is handed to it.
HistoryRetry(i, t) ==
  /\ up
  /\ rekey = <<>>
  /\ rows[i].status = "failed"
  /\ IsFresh(t)
  /\ CountCall("historyRetry", MaxHistoryRetries)
  /\ work' = [work EXCEPT ![t] = work[rows[i].task]]
  /\ indexed' = {p \in indexed : p[1] # FileOf(rows[i].task)}
  /\ Schedule(t)
  /\ rekey' = <<i, t>>
  /\ excused' = excused \union {FileOf(rows[i].task)}
  /\ UNCHANGED <<cur, ledger, rows, draft, survivors, up, recorded>>

\* retry_record: only a row that is still failed changes hands.
RekeyRow ==
  /\ rekey # <<>>
  /\ rows' = IF rows[rekey[1]].status = "failed"
             THEN [rows EXCEPT ![rekey[1]] = [task |-> rekey[2], status |-> "open"]]
             ELSE rows
  /\ rekey' = <<>>
  /\ UNCHANGED <<cur, ledger, indexed, draft, stage, scheduled, survivors, work,
                 up, calls, history>>

----------------------------------------------------------------------------
\* Crash, start and recovery.

\* A version that was not committed is rolled back; its ledger row is not.
TornFiles == IF draft = <<>> \/ draft[2] \notin recorded THEN {} ELSE {draft[1]}

Crash ==
  /\ up
  /\ CountCall("crash", MaxCrashes)
  /\ up' = FALSE
  /\ draft' = <<>>
  /\ stage' = [t \in TaskIds |-> IF stage[t] = "unborn" THEN "unborn" ELSE "gone"]
  /\ scheduled' = <<>>
  /\ rekey' = <<>>
  /\ survivors' = <<>>
  /\ excused' = excused \union TornFiles
  /\ UNCHANGED <<diskVars, work, recorded>>

\* mark_interrupted: rows the dead process left behind, except those whose
\* task has a ledger row.
MarkInterrupted ==
  rows' = [i \in DOMAIN rows |->
            IF rows[i].status \in {"success", "failed"} \/ rows[i].task \in ToSet(ledger)
            THEN rows[i]
            ELSE [rows[i] EXCEPT !.status = "failed"]]

\* Mutation of IsNewest: the first row of a file wins.
IsOldest(t) ==
  \A i, j \in DOMAIN ledger :
    ledger[i] = t /\ j < i => FileOf(ledger[j]) # FileOf(t)

\* The last row of its file; rows are read oldest first.
IsNewest(t) ==
  \A i, j \in DOMAIN ledger :
    ledger[i] = t /\ j > i => FileOf(ledger[j]) # FileOf(t)

\* Mutation of Restart: the superseded rows are dropped and recovered all the same.
RestartRecoversAll ==
  /\ ~ up
  /\ up' = TRUE
  /\ MarkInterrupted
  /\ ledger' = Kept(ledger, {t \in TaskIds : IsNewest(t)})
  /\ survivors' = ledger
  /\ UNCHANGED <<cur, indexed, draft, stage, scheduled, rekey, work, calls, history>>

\* From process start to the wait: superseded rows are dropped at once.
Restart ==
  /\ ~ up
  /\ up' = TRUE
  /\ MarkInterrupted
  /\ ledger' = Kept(ledger, {t \in TaskIds : IsNewest(t)})
  /\ survivors' = Kept(ledger, {t \in TaskIds : IsNewest(t)})
  /\ UNCHANGED <<cur, indexed, draft, stage, scheduled, rekey, work, calls, history>>

VersionIsCurrent(t) == cur[FileOf(t)] = work[t].ver

\* Mutation of RequeueSurvivors: the stale rows are dropped, the others forgotten.
RequeueNothing ==
  /\ survivors # <<>>
  /\ ledger' = Kept(ledger, {t \in TaskIds : t \in ToSet(survivors) => VersionIsCurrent(t)})
  /\ survivors' = <<>>
  /\ UNCHANGED <<cur, rows, indexed, draft, stage, scheduled, rekey, work, up, calls,
                 history>>

\* After settle_delay: tasks of a version that is no longer current are dropped,
\* the others are scheduled again under their own id.
RequeueSurvivors ==
  /\ survivors # <<>>
  /\ LET requeued == Kept(survivors, {t \in ToSet(survivors) : VersionIsCurrent(t)}) IN
       /\ scheduled' = scheduled \o requeued
       /\ stage' = [t \in TaskIds |->
                     IF t \in ToSet(requeued) THEN "scheduled" ELSE stage[t]]
       /\ ledger' = Kept(ledger, {t \in TaskIds :
                      t \in ToSet(survivors) => t \in ToSet(requeued)})
  /\ survivors' = <<>>
  /\ excused' = excused \union (IF draft = <<>> THEN {} ELSE {draft[1]})
  /\ UNCHANGED <<cur, rows, indexed, draft, rekey, work, up, calls, recorded>>

----------------------------------------------------------------------------
WorkOn(t) == \/ QueueTask(t) \/ StoreChunks(t) \/ RecordSuccess(t)
             \/ RecordFailure(t) \/ FinishUpload(t)

Next ==
  \/ \E f \in Files, t \in TaskIds : BeginUpload(f, t)
  \/ CommitUpload
  \/ PersistTask
  \/ \E t \in TaskIds : WorkOn(t) \/ RetryTask(t)
  \/ \E i \in DOMAIN rows, t \in TaskIds : HistoryRetry(i, t)
  \/ RekeyRow
  \/ Crash \/ Restart \/ RequeueSurvivors

Spec == Init /\ [][Next]_vars

\* Threads and the event loop go on, a handler ends (asyncio.wait_for), the
\* settle delay passes and somebody starts the process again.
Fairness ==
  /\ WF_vars(CommitUpload)
  /\ WF_vars(PersistTask)
  /\ \A t \in TaskIds : WF_vars(WorkOn(t))
  /\ WF_vars(RekeyRow)
  /\ WF_vars(Restart)
  /\ WF_vars(RequeueSurvivors)

FairSpec == Spec /\ Fairness
----------------------------------------------------------------------------
TasksFor(f) == {t \in TaskIds : work[t] = [file |-> f, ver |-> cur[f]]}

\* The current version is committed and its task once reached the ledger.
Accepted(f) == TasksFor(f) \intersect recorded # {}

Ingested(f) == <<f, cur[f]>> \in indexed

\* The user sees the failure, and can retry it.
ShownFailed(f) == \E t \in TasksFor(f) : RowOf(t) # 0 /\ rows[RowOf(t)].status = "failed"

Owed(f) == \E t \in TasksFor(f) : t \in ToSet(ledger) \/ stage[t] \in InFlight

\* Wherever a crash comes, a file whose current version reached the ledger is
\* ingested, shown as failed or still owed an ingest (main.py: "so uploaded
\* files never sit un-ingested after a restart").
UploadsSurviveRestart ==
  \A f \in Files : Accepted(f) => Ingested(f) \/ ShownFailed(f) \/ Owed(f)

\* The same for files that nobody retried and whose uploads no crash or recovery
\* met between the ledger row and the commit of the version.
UntornUploadsSurvive ==
  \A f \in Files \ excused : Accepted(f) => Ingested(f) \/ ShownFailed(f) \/ Owed(f)

\* A ledger row always has an execution ahead of it: once a start is over, no
\* row is left for a later recovery to run again (task_persistence.py: "the row
\* is deleted on any terminal state"), retries and crashes included.
LedgerRowHasWork ==
  up => \A t \in ToSet(ledger) : t \in ToSet(survivors) \/ stage[t] \in InFlight

\* Every such file is in the end ingested or shown as failed, if crashes stop.
UploadsSettle ==
  \A f \in Files :
    Accepted(f) ~> (~ Accepted(f) \/ Ingested(f) \/ ShownFailed(f) \/ f \in excused)

\* A retry from the history clears what the failed attempt half-wrote, and never
\* the chunks of the current version, ingested meanwhile by a task of its own
\* (comment in retry_ingest_history: "Clear whatever the failed attempt
\* half-wrote").
RetryKeepsOthersChunks ==
  [][\A t \in TaskIds :
       draft = <<>> /\ stage[t] = "COMPLETED" /\ VersionIsCurrent(t) /\ Ingested(FileOf(t))
         => <<FileOf(t), work[t].ver>> \in indexed']_vars
============================================================================
