---------------------------- MODULE TaskManager ----------------------------
(***************************************************************************)
(* The in-process task queue (src/src/tasks/task_manager.py): two asyncio  *)
(* queues, one processor coroutine each, an execution (asyncio.Task) per   *)
(* dequeued item, the upload slot that is handed back after parse, cancel, *)
(* retry and clear, the durable upload ledger (task_persistence.py) and    *)
(* the ingest history row (history_store.py).                              *)
(*                                                                         *)
(* One action is one uninterrupted stretch of the event loop.  The cancel, *)
(* retry and clear that the MCP tools and the file-delete route run in a   *)
(* worker thread are separate actions (OffLoop...), split where the loop   *)
(* thread can run between two of their statements and tell the difference. *)
(***************************************************************************)
EXTENDS Naturals, Integers, Sequences, FiniteSets

CONSTANTS
  Tasks,             \* task ids
  Uploads,           \* the ids whose task type is "upload"
  NoTask,            \* no item held / no off-loop cancel in progress
  MaxConcurrent,     \* TaskManager.max_concurrent
  MaxRuns,           \* bound: executions ever started
  MaxCancels,        \* bound: cancel_task calls made on the event loop
  MaxRetries,        \* bound: retry_task calls made on the event loop
  MaxOffLoopCancels, \* bound: cancel_task calls made in a worker thread
  MaxOffLoopRetries, \* bound: retry_task calls made in a worker thread
  MaxOffLoopClears   \* bound: clear_completed_tasks calls made in a worker thread

ASSUME TasksAssumption == /\ IsFiniteSet(Tasks)
                          /\ Uploads \subseteq Tasks
                          /\ NoTask \notin Tasks
ASSUME LimitAssumption == /\ MaxConcurrent \in Nat \ {0}
                          /\ MaxRuns \in Nat
                          /\ MaxCancels \in Nat
                          /\ MaxRetries \in Nat
                          /\ MaxOffLoopCancels \in Nat
                          /\ MaxOffLoopRetries \in Nat
                          /\ MaxOffLoopClears \in Nat

Runs == 1..MaxRuns
NoRun == 0
Channels == {"upload", "general"}
Chan(t) == IF t \in Uploads THEN "upload" ELSE "general"
CallKinds == {"cancel", "retry", "offLoopCancel", "offLoopRetry", "offLoopClear"}

VARIABLES
  status,    \* tasks[t].status; "unborn" and "cleared": t is not in tasks
  epoch,     \* _task_epoch[t]
  enq,       \* how many _enqueue_task coroutines of t are scheduled
  queue,     \* _upload_queue and _general_queue
  held,      \* the item a processor has taken and holds while no slot is free
  running,   \* _upload_running and _general_running
  released,  \* _upload_slot_released
  pc,        \* where each execution is
  runTask,   \* the task an execution works for
  runEpoch,  \* the local `epoch` an execution read when it began
  cancelReq, \* executions whose asyncio.Task was asked to cancel
  atask,     \* _async_tasks[t]
  ledger,    \* task ids with a row in tasks.db
  hist,      \* status of t's ingest history row
  off,       \* the off-loop cancel in progress
  listed,    \* to_remove of the off-loop clear in progress, what is left of it
  calls,     \* calls made so far, against the bounds above
  cut,       \* history: executions under way when their task's epoch advanced
  offLoop    \* history: tasks an off-loop cancel or retry was called on

queueVars == <<enq, queue, held>>
runVars == <<pc, runTask, runEpoch, cancelReq>>
slotVars == <<running, released>>
durable == <<ledger, hist>>
callVars == <<off, listed, calls, cut, offLoop>>
vars == <<status, epoch, queueVars, slotVars, runVars, atask, durable, callVars>>

Active == {"PENDING", "PROCESSING"}
Terminal == {"COMPLETED", "FAILED"}
Handling == {"handling", "released"}  \* the handler runs, before / after parse
Live == Handling \union {"created"}

Statuses == Active \union Terminal \union {"unborn", "cleared"}
Stages == Live \union {"idle", "lost", "ended", "completed"}
HistoryStates == {"none", "queued", "processing", "success", "failed"}
OffLoopCalls == [pc : {"idle", "signal", "fail", "bump", "record"},
                 task : Tasks \union {NoTask}]

InTable(t) == status[t] \notin {"unborn", "cleared"}
RunsOf(t) == {r \in Runs : runTask[r] = t}

TypeOK ==
  /\ status \in [Tasks -> Statuses]
  /\ epoch \in [Tasks -> Nat]
  /\ enq \in [Tasks -> Nat]
  /\ queue \in [Channels -> Seq(Tasks)]
  /\ held \in [Channels -> Tasks \union {NoTask}]
  /\ running \in [Channels -> Nat]
  /\ released \subseteq Uploads
  /\ pc \in [Runs -> Stages]
  /\ runTask \in [Runs -> Tasks \union {NoTask}]
  /\ runEpoch \in [Runs -> Nat]
  /\ cancelReq \subseteq Runs
  /\ atask \in [Tasks -> Runs \union {NoRun}]
  /\ ledger \subseteq Uploads
  /\ hist \in [Tasks -> HistoryStates]
  /\ off \in OffLoopCalls
  /\ listed \subseteq Tasks
  /\ calls \in [CallKinds -> Nat]
  /\ cut \subseteq Runs
  /\ offLoop \subseteq Tasks

Init ==
  /\ status = [t \in Tasks |-> "unborn"]
  /\ epoch = [t \in Tasks |-> 0]
  /\ enq = [t \in Tasks |-> 0]
  /\ queue = [c \in Channels |-> <<>>]
  /\ held = [c \in Channels |-> NoTask]
  /\ running = [c \in Channels |-> 0]
  /\ released = {}
  /\ pc = [r \in Runs |-> "idle"]
  /\ runTask = [r \in Runs |-> NoTask]
  /\ runEpoch = [r \in Runs |-> 0]
  /\ cancelReq = {}
  /\ atask = [t \in Tasks |-> NoRun]
  /\ ledger = {}
  /\ hist = [t \in Tasks |-> "none"]
  /\ off = [pc |-> "idle", task |-> NoTask]
  /\ listed = {}
  /\ calls = [k \in CallKinds |-> 0]
  /\ cut = {}
  /\ offLoop = {}

----------------------------------------------------------------------------
\* Writes shared by several operations.

\* task.status = s, through an object the table may already have dropped.
SetStatus(t, s) ==
  status' = IF InTable(t) THEN [status EXCEPT ![t] = s] ELSE status

\* mark_processing, mark_success and mark_failed return early without a row.
MarkHistory(t, s) ==
  hist' = IF hist[t] = "none" THEN hist ELSE [hist EXCEPT ![t] = s]

CountCall(k) == calls' = [calls EXCEPT ![k] = @ + 1]

\* Everything in flight for t loses the right to settle it.
AdvanceEpoch(t) ==
  /\ epoch' = [epoch EXCEPT ![t] = @ + 1]
  /\ cut' = cut \union {r \in RunsOf(t) : pc[r] \in Handling}

----------------------------------------------------------------------------
\* Creating and queueing.

CreateTask(t) ==
  /\ status[t] = "unborn"
  /\ status' = [status EXCEPT ![t] = "PENDING"]
  /\ enq' = [enq EXCEPT ![t] = @ + 1]
  /\ UNCHANGED <<epoch, queue, held, slotVars, runVars, atask, durable, callVars>>

\* _enqueue_task: the ledger row and the history row come before the queue.
\* _persist_upload_task writes neither when the task is no longer listed.
PersistUpload(t) ==
  /\ ledger' = ledger \union {t}
  /\ hist' = [hist EXCEPT ![t] = "queued"]

EnqueueTask(t) ==
  /\ enq[t] > 0
  /\ enq' = [enq EXCEPT ![t] = @ - 1]
  /\ queue' = [queue EXCEPT ![Chan(t)] = Append(@, t)]
  /\ IF t \in Uploads /\ InTable(t) THEN PersistUpload(t) ELSE UNCHANGED durable
  /\ UNCHANGED <<status, epoch, held, slotVars, runVars, atask, callVars>>

\* A processor takes an item, then polls until a slot is free.
Dequeue(c) ==
  /\ held[c] = NoTask
  /\ queue[c] # <<>>
  /\ held' = [held EXCEPT ![c] = Head(queue[c])]
  /\ queue' = [queue EXCEPT ![c] = Tail(@)]
  /\ UNCHANGED <<status, epoch, enq, slotVars, runVars, atask, durable, callVars>>

\* Mutation of SlotFree: off by one.
SlotFreeOneMore(c) == running[c] <= MaxConcurrent

SlotFree(c) == running[c] < MaxConcurrent

StartRun(c, r) ==
  /\ held[c] # NoTask
  /\ SlotFree(c)
  /\ pc[r] = "idle"
  /\ \A s \in Runs : s < r => pc[s] # "idle"
  /\ running' = [running EXCEPT ![c] = @ + 1]
  /\ pc' = [pc EXCEPT ![r] = "created"]
  /\ runTask' = [runTask EXCEPT ![r] = held[c]]
  /\ atask' = [atask EXCEPT ![held[c]] = r]
  /\ held' = [held EXCEPT ![c] = NoTask]
  /\ UNCHANGED <<status, epoch, enq, queue, released, runEpoch, cancelReq,
                 durable, callVars>>

----------------------------------------------------------------------------
\* Executing.

\* Mutation of GiveBack: decrements whether or not the slot was handed back.
GiveBackAlways(t) ==
  /\ running' = [running EXCEPT ![Chan(t)] = @ - 1]
  /\ released' = released \ {t}
  /\ ledger' = ledger \ {t}

\* Mutation of GiveBack: the ledger row survives the task.
GiveBackKeepsRow(t) ==
  /\ running' = IF t \in released
                THEN running
                ELSE [running EXCEPT ![Chan(t)] = @ - 1]
  /\ released' = released \ {t}
  /\ UNCHANGED ledger

\* The finally of _execute_upload_task and _execute_general_task.
GiveBack(t) ==
  /\ running' = IF t \in released
                THEN running
                ELSE [running EXCEPT ![Chan(t)] = @ - 1]
  /\ released' = released \ {t}
  /\ ledger' = ledger \ {t}

\* The finally of _execute_task, then the one around it.
EndRun(r, outcome) ==
  /\ pc' = [pc EXCEPT ![r] = outcome]
  /\ atask' = [atask EXCEPT ![runTask[r]] = NoRun]
  /\ GiveBack(runTask[r])
  /\ UNCHANGED <<queueVars, epoch, runTask, runEpoch, cancelReq, callVars>>

\* An asyncio.Task cancelled before its first step never enters the coroutine,
\* so none of the finally clauses run: the slot it took is gone for good.
LoseRun(r) ==
  /\ pc[r] = "created"
  /\ r \in cancelReq
  /\ pc' = [pc EXCEPT ![r] = "lost"]
  /\ UNCHANGED <<status, epoch, queueVars, slotVars, runTask, runEpoch,
                 cancelReq, atask, durable, callVars>>

\* The task was cleared from the list: return before the try, so only the
\* outer finally runs and _async_tasks keeps its entry.
RunFindsNoTask(r) ==
  /\ pc[r] = "created"
  /\ r \notin cancelReq
  /\ ~ InTable(runTask[r])
  /\ pc' = [pc EXCEPT ![r] = "ended"]
  /\ GiveBack(runTask[r])
  /\ UNCHANGED <<status, epoch, queueVars, runTask, runEpoch, cancelReq, atask,
                 hist, callVars>>

\* Whatever the status is by now, the task is PROCESSING from here on.
BeginRun(r) ==
  /\ pc[r] = "created"
  /\ r \notin cancelReq
  /\ InTable(runTask[r])
  /\ pc' = [pc EXCEPT ![r] = "handling"]
  /\ runEpoch' = [runEpoch EXCEPT ![r] = epoch[runTask[r]]]
  /\ SetStatus(runTask[r], "PROCESSING")
  /\ MarkHistory(runTask[r], "processing")
  /\ UNCHANGED <<epoch, queueVars, slotVars, runTask, cancelReq, atask, ledger,
                 callVars>>

\* Mutation of HandBackSlot: not idempotent per task.
HandBackSlotEveryTime(t) ==
  /\ released' = released \union {t}
  /\ running' = IF running["upload"] = 0
                THEN running
                ELSE [running EXCEPT !["upload"] = @ - 1]

\* release_upload_slot, called by the upload handler once the file is parsed;
\* it remembers task ids, not executions.
HandBackSlot(t) ==
  /\ released' = released \union {t}
  /\ running' = IF t \in released \/ running["upload"] = 0
                THEN running
                ELSE [running EXCEPT !["upload"] = @ - 1]

ReleaseSlot(r) ==
  /\ pc[r] = "handling"
  /\ runTask[r] \in Uploads
  /\ pc' = [pc EXCEPT ![r] = "released"]
  /\ HandBackSlot(runTask[r])
  /\ UNCHANGED <<status, epoch, queueVars, runTask, runEpoch, cancelReq, atask,
                 durable, callVars>>

SameEpoch(r) == epoch[runTask[r]] = runEpoch[r]

\* The handler returned and nobody cancelled the task meanwhile.
CompleteRun(r) ==
  /\ pc[r] \in Handling
  /\ SameEpoch(r)
  /\ SetStatus(runTask[r], "COMPLETED")
  /\ MarkHistory(runTask[r], "success")
  /\ EndRun(r, "completed")

\* The handler returned although the task was cancelled: the cancelled state stays.
FinishCancelled(r) ==
  /\ pc[r] \in Handling
  /\ ~ SameEpoch(r)
  /\ MarkHistory(runTask[r], "failed")
  /\ EndRun(r, "ended")
  /\ UNCHANGED status

\* Mutation of FailRun: the status is left alone.
FailRunUnnoticed(r) ==
  /\ pc[r] \in Handling
  /\ MarkHistory(runTask[r], "failed")
  /\ EndRun(r, "ended")
  /\ UNCHANGED status

\* Mutation of FailRun: success is recorded on every way out of the try.
FailRunRecordsSuccess(r) ==
  /\ pc[r] \in Handling
  /\ IF SameEpoch(r) THEN SetStatus(runTask[r], "FAILED") ELSE UNCHANGED status
  /\ MarkHistory(runTask[r], "success")
  /\ EndRun(r, "ended")

\* The handler raised, or asyncio.wait_for timed out.
FailRun(r) ==
  /\ pc[r] \in Handling
  /\ IF SameEpoch(r) THEN SetStatus(runTask[r], "FAILED") ELSE UNCHANGED status
  /\ MarkHistory(runTask[r], "failed")
  /\ EndRun(r, "ended")

\* asyncio.CancelledError is no Exception: only the finally clauses run.  A
\* request that comes in while the last step runs can also be outrun by
\* CompleteRun, FinishCancelled and FailRun (wait_for returns a result that is
\* already there).
UnwindRun(r) ==
  /\ pc[r] \in Handling
  /\ r \in cancelReq
  /\ EndRun(r, "ended")
  /\ UNCHANGED <<status, hist>>

FinishRun(r) == CompleteRun(r) \/ FinishCancelled(r) \/ FailRun(r) \/ UnwindRun(r)
----------------------------------------------------------------------------
\* Cancel, retry, clear.

AskToCancel(t) ==
  cancelReq' = IF atask[t] # NoRun /\ pc[atask[t]] \in Live
               THEN cancelReq \union {atask[t]}
               ELSE cancelReq

\* The tail of cancel_task, for uploads: the ledger row goes, history says failed.
RecordCancel(t) ==
  IF t \in Uploads
  THEN /\ ledger' = ledger \ {t}
       /\ MarkHistory(t, "failed")
  ELSE UNCHANGED durable

\* cancel_task from an async route.  The item stays in its queue.
CancelTask(t) ==
  /\ calls["cancel"] < MaxCancels
  /\ CountCall("cancel")
  /\ status[t] \in Active
  /\ AskToCancel(t)
  /\ SetStatus(t, "FAILED")
  /\ AdvanceEpoch(t)
  /\ RecordCancel(t)
  /\ UNCHANGED <<queueVars, slotVars, pc, runTask, runEpoch, atask, off, listed,
                 offLoop>>

\* Mutation of RetryTask: the task starts over with epoch 0.
RetryTaskResetsEpoch(t) ==
  /\ calls["retry"] < MaxRetries
  /\ CountCall("retry")
  /\ status[t] = "FAILED"
  /\ SetStatus(t, "PENDING")
  /\ epoch' = [epoch EXCEPT ![t] = 0]
  /\ enq' = [enq EXCEPT ![t] = @ + 1]
  /\ UNCHANGED <<queue, held, slotVars, runVars, atask, durable, off, listed, cut,
                 offLoop>>

\* Mutation of RetryTask: relies on the item that may still be queued.
RetryTaskNotQueued(t) ==
  /\ calls["retry"] < MaxRetries
  /\ CountCall("retry")
  /\ status[t] = "FAILED"
  /\ SetStatus(t, "PENDING")
  /\ UNCHANGED <<epoch, queueVars, slotVars, runVars, atask, durable, off, listed,
                 cut, offLoop>>

\* retry_task from an async route: the epoch is left as it is.
RetryTask(t) ==
  /\ calls["retry"] < MaxRetries
  /\ CountCall("retry")
  /\ status[t] = "FAILED"
  /\ SetStatus(t, "PENDING")
  /\ enq' = [enq EXCEPT ![t] = @ + 1]
  /\ UNCHANGED <<epoch, queue, held, slotVars, runVars, atask, durable, off, listed,
                 cut, offLoop>>

\* clear_completed_tasks from an async route.
ClearCompletedTasks ==
  /\ \E t \in Tasks : status[t] \in Terminal
  /\ status' = [t \in Tasks |->
                 IF status[t] \in Terminal THEN "cleared" ELSE status[t]]
  /\ UNCHANGED <<epoch, queueVars, slotVars, runVars, atask, durable, callVars>>

\* retry_task from the MCP tool's worker thread: asyncio.create_task raises
\* there (no running loop), after the status has been reset.
OffLoopRetry(t) ==
  /\ calls["offLoopRetry"] < MaxOffLoopRetries
  /\ CountCall("offLoopRetry")
  /\ status[t] = "FAILED"
  /\ SetStatus(t, "PENDING")
  /\ offLoop' = offLoop \union {t}
  /\ UNCHANGED <<epoch, queueVars, slotVars, runVars, atask, durable, off, listed,
                 cut>>

\* cancel_task from a worker thread (MCP tool, file delete), statement by statement.
OffLoopCancel(t) ==
  /\ off.pc = "idle"
  /\ calls["offLoopCancel"] < MaxOffLoopCancels
  /\ CountCall("offLoopCancel")
  /\ status[t] \in Active
  /\ off' = [pc |-> "signal", task |-> t]
  /\ offLoop' = offLoop \union {t}
  /\ UNCHANGED <<status, epoch, queueVars, slotVars, runVars, atask, durable, listed,
                 cut>>

OffLoopSignal ==
  /\ off.pc = "signal"
  /\ AskToCancel(off.task)
  /\ off' = [off EXCEPT !.pc = "fail"]
  /\ UNCHANGED <<status, epoch, queueVars, slotVars, pc, runTask, runEpoch, atask,
                 durable, listed, calls, cut, offLoop>>

OffLoopFail ==
  /\ off.pc = "fail"
  /\ SetStatus(off.task, "FAILED")
  /\ off' = [off EXCEPT !.pc = "bump"]
  /\ UNCHANGED <<epoch, queueVars, slotVars, runVars, atask, durable, listed, calls,
                 cut, offLoop>>

OffLoopBump ==
  /\ off.pc = "bump"
  /\ AdvanceEpoch(off.task)
  /\ off' = [off EXCEPT !.pc = "record"]
  /\ UNCHANGED <<status, queueVars, slotVars, runVars, atask, durable, listed, calls,
                 offLoop>>

\* _task_args has lost the task type when the task was cleared meanwhile.
OffLoopRecord ==
  /\ off.pc = "record"
  /\ IF InTable(off.task) THEN RecordCancel(off.task) ELSE UNCHANGED durable
  /\ off' = [pc |-> "idle", task |-> NoTask]
  /\ UNCHANGED <<status, epoch, queueVars, slotVars, runVars, atask, listed, calls,
                 cut, offLoop>>

OffLoopStep == OffLoopSignal \/ OffLoopFail \/ OffLoopBump \/ OffLoopRecord

\* clear_completed_tasks from the MCP tool's worker thread: the comprehension,
\* taken as one look at the table, and then one task after the other.
OffLoopClear ==
  /\ calls["offLoopClear"] < MaxOffLoopClears
  /\ CountCall("offLoopClear")
  /\ listed = {}
  /\ \E t \in Tasks : status[t] \in Terminal
  /\ listed' = {t \in Tasks : status[t] \in Terminal}
  /\ UNCHANGED <<status, epoch, queueVars, slotVars, runVars, atask, durable, off, cut,
                 offLoop>>

\* The task goes, whatever became of it since it was listed; only another worker
\* thread could see it without its _task_args still there.
OffLoopDelete(t) ==
  /\ t \in listed
  /\ InTable(t)
  /\ status' = [status EXCEPT ![t] = "cleared"]
  /\ listed' = listed \ {t}
  /\ UNCHANGED <<epoch, queueVars, slotVars, runVars, atask, durable, off, calls, cut,
                 offLoop>>

\* `del` raises for a task the loop has cleared meanwhile; the rest stays.
OffLoopClearRaises ==
  /\ \E t \in listed : ~ InTable(t)
  /\ listed' = {}
  /\ UNCHANGED <<status, epoch, queueVars, slotVars, runVars, atask, durable, off,
                 calls, cut, offLoop>>

ClearStep == OffLoopClearRaises \/ \E t \in Tasks : OffLoopDelete(t)
----------------------------------------------------------------------------
StepRun(r) == \/ LoseRun(r) \/ RunFindsNoTask(r) \/ BeginRun(r)
              \/ ReleaseSlot(r) \/ FinishRun(r)

Next ==
  \/ \E t \in Tasks : \/ CreateTask(t) \/ EnqueueTask(t)
                      \/ CancelTask(t) \/ RetryTask(t)
                      \/ OffLoopCancel(t) \/ OffLoopRetry(t)
  \/ ClearCompletedTasks
  \/ OffLoopClear \/ ClearStep
  \/ OffLoopStep
  \/ \E c \in Channels : \/ Dequeue(c)
                         \/ \E r \in Runs : StartRun(c, r)
  \/ \E r \in Runs : StepRun(r)

Spec == Init /\ [][Next]_vars

\* The event loop runs whatever is ready, a worker thread gets on with its
\* call, and asyncio.wait_for ends every handler within `timeout` seconds.
Fairness ==
  /\ \A t \in Tasks : WF_vars(EnqueueTask(t))
  /\ \A c \in Channels : WF_vars(Dequeue(c)) /\ WF_vars(\E r \in Runs : StartRun(c, r))
  /\ \A r \in Runs : /\ WF_vars(LoseRun(r) \/ RunFindsNoTask(r) \/ BeginRun(r))
                     /\ WF_vars(FinishRun(r))
  /\ WF_vars(OffLoopStep)
  /\ WF_vars(ClearStep)

FairSpec == Spec /\ Fairness
----------------------------------------------------------------------------
\* Slots.

Holders(c) ==
  {r \in Runs : /\ pc[r] \in Live \union {"lost"}
                /\ runTask[r] \in Tasks
                /\ Chan(runTask[r]) = c}

\* Every slot in use is accounted for: the counter is the number of executions
\* that took a slot and have not come back, less the uploads that handed theirs
\* back early.  Two executions of one task share a single entry in
\* _upload_slot_released, and the counter must survive that.
SlotAccounting ==
  /\ running["general"] = Cardinality(Holders("general"))
  /\ running["upload"] = Cardinality(Holders("upload")) - Cardinality(released)

\* At most max_concurrent uploads are in parse/filter at a time (class comment
\* of TaskManager), however executions of one task overlap and whoever of them
\* hands the slot back; the same for the handlers of the general queue.
ParseGate ==
  \A c \in Channels :
    Cardinality({r \in Holders(c) : pc[r] = "handling"}) <= MaxConcurrent

----------------------------------------------------------------------------
\* Cancellation.

\* An execution that was under way when its task was cancelled never turns the
\* task COMPLETED, even after a retry of that task (comment at _task_epoch).
CutRunNeverCompletes == \A r \in cut : pc[r] # "completed"

\* A failed or cancelled task leaves that state by a retry or by being cleared;
\* no execution picks it up again by itself (cancel_task: "Cancel a pending or
\* processing task").
CancelledStaysCancelled ==
  [][\A t \in Tasks : status[t] = "FAILED" => status'[t] # "PROCESSING"]_vars

----------------------------------------------------------------------------
\* Nobody waits for nothing.

InLine(t) ==
  \/ enq[t] > 0
  \/ \E i \in DOMAIN queue[Chan(t)] : queue[Chan(t)][i] = t
  \/ held[Chan(t)] = t
  \/ \E r \in RunsOf(t) : pc[r] = "created" /\ r \notin cancelReq

\* A task shown as PENDING has an item on its way to an execution.
PendingIsQueued == \A t \in Tasks : status[t] = "PENDING" => InLine(t)

\* The same, for tasks that were cancelled and retried on the event loop only.
LoopPendingIsQueued ==
  \A t \in Tasks \ offLoop : status[t] = "PENDING" => InLine(t)

\* A task shown as PROCESSING has an execution that was not cancelled and still
\* has the right to settle it: cancel, retry and a stale queue item never leave
\* it "processing" with nobody at work (tasks driven from the event loop only).
LoopProcessingIsLive ==
  \A t \in Tasks \ offLoop :
    status[t] = "PROCESSING" =>
      \E r \in RunsOf(t) \ cancelReq : pc[r] \in Handling /\ SameEpoch(r)

----------------------------------------------------------------------------
\* Without cancellation the manager keeps the simple promise.

\* As long as nobody cancels, queues, slots and executions implement the task
\* lifecycle: one execution per waiting task, the ledger row is there from
\* acceptance to the step that settles the task, and every waiting task settles,
\* or is removed by a clear that had listed it before it was retried.
Lifecycle == INSTANCE TaskLifecycle
ImplementsLifecycle == Lifecycle!Spec

\* The ingest history row tells what the task list and the ledger tell; of an
\* upload that was removed while it was active, what the task list last told.
HistoryMirrorsTask ==
  \A t \in Uploads :
    /\ t \in ledger => \/ hist[t] = "queued" /\ status[t] \in {"PENDING", "cleared"}
                       \/ hist[t] = "processing" /\ status[t] \in {"PROCESSING", "cleared"}
    /\ status[t] = "COMPLETED" => hist[t] = "success"
    /\ status[t] = "FAILED" => hist[t] = "failed"
============================================================================
