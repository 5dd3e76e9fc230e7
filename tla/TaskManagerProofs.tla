------------------------- MODULE TaskManagerProofs -------------------------
(***************************************************************************)
(* Theorems of TaskManager, for every set of tasks and every bound.        *)
(***************************************************************************)
EXTENDS TaskManager, FiniteSetTheorems, TLAPS

----------------------------------------------------------------------------
\* The inductive invariant, part by part.

\* TypeOK, except that the slot counters are only known to be integers.
WeakTypes ==
  /\ status \in [Tasks -> Statuses]
  /\ epoch \in [Tasks -> Nat]
  /\ enq \in [Tasks -> Nat]
  /\ queue \in [Channels -> Seq(Tasks)]
  /\ held \in [Channels -> Tasks \union {NoTask}]
  /\ running \in [Channels -> Int]
  /\ released \subseteq Uploads
  /\ pc \in [Runs -> Stages]
  /\ runTask \in [Runs -> Tasks \union {NoTask}]
  /\ runEpoch \in [Runs -> Nat]
  /\ cancelReq \subseteq Runs
  /\ atask \in [Tasks -> Runs \union {NoRun}]
  /\ ledger \subseteq Uploads
  /\ hist \in [Tasks -> HistoryStates]
  /\ off \in OffLoopCalls
  /\ listed \subseteq Tasks
  /\ calls \in [CallKinds -> Nat]
  /\ cut \subseteq Runs
  /\ offLoop \subseteq Tasks

\* An execution that was started works for a task; an off-loop cancel too.
Assigned ==
  /\ \A r \in Runs : pc[r] # "idle" => runTask[r] \in Tasks
  /\ off.pc # "idle" => off.task \in offLoop

\* The names the actions write are the ones the types list.
LEMMA Names ==
  /\ {"unborn", "cleared", "PENDING", "PROCESSING", "COMPLETED", "FAILED"} \subseteq Statuses
  /\ {"idle", "created", "handling", "released", "lost", "ended", "completed"} \subseteq Stages
  /\ {"none", "queued", "processing", "success", "failed"} \subseteq HistoryStates
  /\ "upload" \in Channels /\ "general" \in Channels
  /\ \A t \in Tasks : Chan(t) \in Channels
  /\ {"cancel", "retry", "offLoopCancel", "offLoopRetry", "offLoopClear"}
       \subseteq CallKinds
BY DEF Statuses, Active, Terminal, Stages, Live, Handling, HistoryStates, Channels, Chan,
   CallKinds

\* The stages an off-loop cancel goes through are among OffLoopCalls.
LEMMA OffLoopNames ==
  /\ [pc |-> "idle", task |-> NoTask] \in OffLoopCalls
  /\ \A t \in Tasks : [pc |-> "signal", task |-> t] \in OffLoopCalls
  /\ \A o \in OffLoopCalls : /\ o.task \in Tasks \union {NoTask}
                              /\ [o EXCEPT !.pc = "fail"] \in OffLoopCalls
                              /\ [o EXCEPT !.pc = "bump"] \in OffLoopCalls
                              /\ [o EXCEPT !.pc = "record"] \in OffLoopCalls
BY DEF OffLoopCalls

\* TaskManager.__init__ leaves every variable well typed.
LEMMA InitWeakTypes == Init => WeakTypes /\ Assigned
BY Names, OffLoopNames DEF Init, WeakTypes, Assigned, NoRun

----------------------------------------------------------------------------
\* The shared writes keep the types.

\* A write to task.status keeps the type of the task table.
LEMMA StatusType ==
  ASSUME WeakTypes, NEW t \in Tasks, NEW s \in Statuses, SetStatus(t, s)
  PROVE  status' \in [Tasks -> Statuses]
BY DEF WeakTypes, SetStatus

\* mark_processing, mark_success and mark_failed keep the type of the history.
LEMMA HistoryType ==
  ASSUME WeakTypes, NEW t \in Tasks, NEW s \in HistoryStates, MarkHistory(t, s)
  PROVE  hist' \in [Tasks -> HistoryStates]
BY DEF WeakTypes, MarkHistory

\* A cancel keeps the types of _task_epoch and of the cut executions.
LEMMA EpochType ==
  ASSUME WeakTypes, NEW t \in Tasks, AdvanceEpoch(t)
  PROVE  epoch' \in [Tasks -> Nat] /\ cut' \subseteq Runs
BY DEF WeakTypes, AdvanceEpoch, RunsOf

\* Counting a call keeps the type of the counters.
LEMMA CallsType ==
  ASSUME WeakTypes, NEW k \in CallKinds, CountCall(k)
  PROVE  calls' \in [CallKinds -> Nat]
BY DEF WeakTypes, CountCall

\* The finally around _execute_task keeps the types of slots and ledger.
LEMMA GiveBackType ==
  ASSUME WeakTypes, NEW t \in Tasks, GiveBack(t)
  PROVE  /\ running' \in [Channels -> Int]
         /\ released' \subseteq Uploads
         /\ ledger' \subseteq Uploads
BY Names, SMTT(30) DEF WeakTypes, GiveBack

\* The end of an execution keeps the types of all it writes.
LEMMA EndRunType ==
  ASSUME WeakTypes, Assigned, NEW r \in Runs, pc[r] \in Handling,
         NEW o \in {"ended", "completed"}, EndRun(r, o),
         status' \in [Tasks -> Statuses], hist' \in [Tasks -> HistoryStates]
  PROVE  WeakTypes' /\ Assigned'
<1>1. runTask[r] \in Tasks /\ pc[r] # "idle"
  BY DEF Assigned, Handling
<1>2. /\ running' \in [Channels -> Int]
      /\ released' \subseteq Uploads
      /\ ledger' \subseteq Uploads
  BY <1>1, GiveBackType DEF EndRun
<1>3. pc' \in [Runs -> Stages] /\ atask' \in [Tasks -> Runs \union {NoRun}]
  BY <1>1, Names DEF EndRun, WeakTypes
<1>4. WeakTypes'
  BY <1>2, <1>3 DEF EndRun, WeakTypes, queueVars, callVars
<1>5. Assigned'
  BY <1>1 DEF EndRun, WeakTypes, Assigned, callVars
<1> QED
  BY <1>4, <1>5

\* Task.cancel is only ever asked of an execution.
LEMMA AskToCancelType ==
  ASSUME WeakTypes, NEW t \in Tasks, AskToCancel(t)
  PROVE  cancelReq' \subseteq Runs
BY DEF WeakTypes, AskToCancel, NoRun

\* The tail of cancel_task keeps the types of ledger and history.
LEMMA RecordCancelType ==
  ASSUME WeakTypes, NEW t \in Tasks, RecordCancel(t)
  PROVE  ledger' \subseteq Uploads /\ hist' \in [Tasks -> HistoryStates]
BY HistoryType, Names DEF WeakTypes, RecordCancel, durable

\* What the clear of a worker thread changes: the list it works off, and the
\* status of one task at a time.
LEMMA ClearDoes ==
  ASSUME WeakTypes, OffLoopClear \/ ClearStep
  PROVE  /\ UNCHANGED <<epoch, queueVars, slotVars, runVars, atask, durable, off, cut,
                        offLoop>>
         /\ listed' \subseteq Tasks /\ calls' \in [CallKinds -> Nat]
         /\ \/ status' = status
            \/ \E t \in Tasks : InTable(t) /\ status' = [status EXCEPT ![t] = "cleared"]
<1>1. CASE OffLoopClear
  <2>1. calls' \in [CallKinds -> Nat]
    BY <1>1, CallsType, Names DEF OffLoopClear
  <2> QED
    BY <1>1, <2>1 DEF OffLoopClear
<1>2. CASE OffLoopClearRaises
  BY <1>2 DEF OffLoopClearRaises, WeakTypes
<1>3. ASSUME NEW t \in Tasks, OffLoopDelete(t)
      PROVE  /\ UNCHANGED <<epoch, queueVars, slotVars, runVars, atask, durable, off, cut,
                            offLoop>>
             /\ listed' \subseteq Tasks /\ calls' \in [CallKinds -> Nat]
             /\ InTable(t) /\ status' = [status EXCEPT ![t] = "cleared"]
  BY <1>3 DEF OffLoopDelete, WeakTypes
<1> QED
  BY <1>1, <1>2, <1>3 DEF ClearStep

----------------------------------------------------------------------------
\* Every step keeps the types.

\* One step per action: each keeps the types it writes.
LEMMA StepWeakTypes ==
  WeakTypes /\ Assigned /\ [Next]_vars => WeakTypes' /\ Assigned'
<1> SUFFICES ASSUME WeakTypes, Assigned, [Next]_vars PROVE WeakTypes' /\ Assigned'
  OBVIOUS
<1> USE TasksAssumption, Names
<1>1. ASSUME NEW t \in Tasks, CreateTask(t)
      PROVE  WeakTypes' /\ Assigned'
  <2>1. status' \in [Tasks -> Statuses] /\ enq' \in [Tasks -> Nat]
    BY <1>1, SMTT(30) DEF WeakTypes, CreateTask
  <2>2. WeakTypes'
    BY <1>1, <2>1 DEF WeakTypes, CreateTask, slotVars, runVars, durable, callVars
  <2>3. Assigned'
    BY <1>1 DEF WeakTypes, Assigned, CreateTask, slotVars, runVars, durable, callVars
  <2> QED
    BY <2>2, <2>3
<1>2. ASSUME NEW t \in Tasks, EnqueueTask(t)
      PROVE  WeakTypes' /\ Assigned'
  <2>1. enq' \in [Tasks -> Nat]
    BY <1>2, SMTT(30) DEF WeakTypes, EnqueueTask
  <2>2. queue' \in [Channels -> Seq(Tasks)]
    <3>1. queue \in [Channels -> Seq(Tasks)] /\ Chan(t) \in Channels
      BY Names DEF WeakTypes
    <3>2. Append(queue[Chan(t)], t) \in Seq(Tasks)
      BY <3>1
    <3>3. queue' = [queue EXCEPT ![Chan(t)] = Append(@, t)]
      BY <1>2 DEF EnqueueTask
    <3> QED
      BY <3>1, <3>2, <3>3
  <2>3. ledger' \subseteq Uploads /\ hist' \in [Tasks -> HistoryStates]
    <3>1. CASE t \in Uploads /\ InTable(t)
      <4>1. "queued" \in HistoryStates
        BY DEF HistoryStates
      <4>2. ledger' = ledger \union {t} /\ hist' = [hist EXCEPT ![t] = "queued"]
        BY <1>2, <3>1 DEF EnqueueTask, PersistUpload
      <4> QED
        BY <3>1, <4>1, <4>2 DEF WeakTypes
    <3>2. CASE ~ (t \in Uploads /\ InTable(t))
      BY <1>2, <3>2 DEF WeakTypes, EnqueueTask, durable
    <3> QED
      BY <3>1, <3>2
  <2>4. WeakTypes'
    BY <1>2, <2>1, <2>2, <2>3 DEF WeakTypes, EnqueueTask, slotVars, runVars, callVars
  <2>5. Assigned'
    BY <1>2 DEF WeakTypes, Assigned, EnqueueTask, slotVars, runVars, callVars
  <2> QED
    BY <2>4, <2>5
<1>3. ASSUME NEW c \in Channels, Dequeue(c)
      PROVE  WeakTypes' /\ Assigned'
  <2>0. /\ queue[c] \in Seq(Tasks) /\ queue[c] # <<>>
        /\ queue \in [Channels -> Seq(Tasks)] /\ held \in [Channels -> Tasks \union {NoTask}]
        /\ held' = [held EXCEPT ![c] = Head(queue[c])]
        /\ queue' = [queue EXCEPT ![c] = Tail(queue[c])]
    BY <1>3 DEF WeakTypes, Dequeue
  <2>a. Head(queue[c]) \in Tasks /\ Tail(queue[c]) \in Seq(Tasks)
    BY <2>0
  <2>1. held' \in [Channels -> Tasks \union {NoTask}]
    BY <2>0, <2>a
  <2>2. queue' \in [Channels -> Seq(Tasks)]
    BY <2>0, <2>a
  <2>3. WeakTypes'
    BY <1>3, <2>1, <2>2 DEF WeakTypes, Dequeue, slotVars, runVars, durable, callVars
  <2>4. Assigned'
    BY <1>3 DEF WeakTypes, Assigned, Dequeue, slotVars, runVars, durable, callVars
  <2> QED
    BY <2>3, <2>4
<1>4. ASSUME NEW c \in Channels, NEW r \in Runs, StartRun(c, r)
      PROVE  WeakTypes' /\ Assigned'
  <2>1. held[c] \in Tasks /\ held' \in [Channels -> Tasks \union {NoTask}]
    BY <1>4 DEF WeakTypes, StartRun
  <2>2. running' \in [Channels -> Int] /\ pc' \in [Runs -> Stages]
    BY <1>4, SMTT(30) DEF WeakTypes, StartRun
  <2>3. runTask' \in [Runs -> Tasks \union {NoTask}] /\ atask' \in [Tasks -> Runs \union {NoRun}]
    BY <1>4, <2>1 DEF WeakTypes, StartRun
  <2>4. WeakTypes'
    BY <1>4, <2>1, <2>2, <2>3 DEF WeakTypes, StartRun, durable, callVars
  <2>5. Assigned'
    BY <1>4, <2>1 DEF WeakTypes, Assigned, StartRun, durable, callVars
  <2> QED
    BY <2>4, <2>5
<1>5. ASSUME NEW r \in Runs, LoseRun(r)
      PROVE  WeakTypes' /\ Assigned'
  <2>1. pc' \in [Runs -> Stages]
    BY <1>5 DEF WeakTypes, LoseRun
  <2>2. WeakTypes'
    BY <1>5, <2>1 DEF WeakTypes, LoseRun, queueVars, slotVars, durable, callVars
  <2>3. Assigned'
    BY <1>5 DEF WeakTypes, Assigned, LoseRun, queueVars, slotVars, durable, callVars
  <2> QED
    BY <2>2, <2>3
<1>6. ASSUME NEW r \in Runs, RunFindsNoTask(r)
      PROVE  WeakTypes' /\ Assigned'
  <2>1. runTask[r] \in Tasks
    BY <1>6 DEF Assigned, RunFindsNoTask
  <2>2. /\ running' \in [Channels -> Int]
        /\ released' \subseteq Uploads
        /\ ledger' \subseteq Uploads
    BY <1>6, <2>1, GiveBackType DEF RunFindsNoTask
  <2>3. pc' \in [Runs -> Stages]
    BY <1>6 DEF WeakTypes, RunFindsNoTask
  <2>4. WeakTypes'
    BY <1>6, <2>1, <2>2, <2>3 DEF WeakTypes, RunFindsNoTask, queueVars, callVars
  <2>5. Assigned'
    BY <1>6 DEF WeakTypes, Assigned, RunFindsNoTask, queueVars, callVars
  <2> QED
    BY <2>4, <2>5
<1>7. ASSUME NEW r \in Runs, BeginRun(r)
      PROVE  WeakTypes' /\ Assigned'
  <2>1. runTask[r] \in Tasks
    BY <1>7 DEF Assigned, BeginRun
  <2>2. status' \in [Tasks -> Statuses] /\ hist' \in [Tasks -> HistoryStates]
    BY <1>7, <2>1, StatusType, HistoryType DEF BeginRun
  <2>3. pc' \in [Runs -> Stages] /\ runEpoch' \in [Runs -> Nat]
    BY <1>7, <2>1 DEF WeakTypes, BeginRun
  <2>4. WeakTypes'
    BY <1>7, <2>1, <2>2, <2>3 DEF WeakTypes, BeginRun, queueVars, slotVars, callVars
  <2>5. Assigned'
    BY <1>7 DEF WeakTypes, Assigned, BeginRun, queueVars, slotVars, callVars
  <2> QED
    BY <2>4, <2>5
<1>8. ASSUME NEW r \in Runs, ReleaseSlot(r)
      PROVE  WeakTypes' /\ Assigned'
  <2>1. released' \subseteq Uploads /\ running' \in [Channels -> Int]
    BY <1>8, SMTT(30) DEF WeakTypes, ReleaseSlot, HandBackSlot
  <2>2. pc' \in [Runs -> Stages]
    BY <1>8 DEF WeakTypes, ReleaseSlot
  <2>3. WeakTypes'
    BY <1>8, <2>1, <2>2 DEF WeakTypes, ReleaseSlot, queueVars, durable, callVars
  <2>4. Assigned'
    BY <1>8 DEF WeakTypes, Assigned, ReleaseSlot, queueVars, durable, callVars
  <2> QED
    BY <2>3, <2>4
<1>9. ASSUME NEW r \in Runs, FinishRun(r)
      PROVE  WeakTypes' /\ Assigned'
  <2>1. runTask[r] \in Tasks /\ pc[r] \in Handling
    BY <1>9 DEF Assigned, FinishRun, CompleteRun, FinishCancelled, FailRun, UnwindRun,
       Handling
  <2>2. CASE CompleteRun(r)
    BY <2>1, <2>2, StatusType, HistoryType, EndRunType DEF CompleteRun
  <2>3. CASE FinishCancelled(r)
    BY <2>1, <2>3, HistoryType, EndRunType DEF FinishCancelled, WeakTypes
  <2>4. CASE FailRun(r)
    <3>1. status' \in [Tasks -> Statuses]
      BY <2>1, <2>4, StatusType DEF FailRun, WeakTypes
    <3> QED
      BY <2>1, <2>4, <3>1, HistoryType, EndRunType DEF FailRun
  <2>5. CASE UnwindRun(r)
    BY <2>1, <2>5, EndRunType DEF UnwindRun, WeakTypes
  <2> QED
    BY <1>9, <2>2, <2>3, <2>4, <2>5 DEF FinishRun
<1>10. ASSUME NEW t \in Tasks, CancelTask(t)
      PROVE  WeakTypes' /\ Assigned'
  <2>1. status' \in [Tasks -> Statuses] /\ calls' \in [CallKinds -> Nat]
    BY <1>10, StatusType, CallsType DEF CancelTask
  <2>2. /\ epoch' \in [Tasks -> Nat] /\ cut' \subseteq Runs
        /\ cancelReq' \subseteq Runs
    BY <1>10, EpochType, AskToCancelType DEF CancelTask
  <2>3. ledger' \subseteq Uploads /\ hist' \in [Tasks -> HistoryStates]
    BY <1>10, RecordCancelType DEF CancelTask
  <2>4. WeakTypes'
    BY <1>10, <2>1, <2>2, <2>3 DEF WeakTypes, CancelTask, queueVars, slotVars
  <2>5. Assigned'
    BY <1>10 DEF WeakTypes, Assigned, CancelTask, queueVars, slotVars
  <2> QED
    BY <2>4, <2>5
<1>11. ASSUME NEW t \in Tasks, RetryTask(t)
      PROVE  WeakTypes' /\ Assigned'
  <2>1. status' \in [Tasks -> Statuses] /\ calls' \in [CallKinds -> Nat]
    BY <1>11, StatusType, CallsType DEF RetryTask
  <2>2. enq' \in [Tasks -> Nat]
    BY <1>11, SMTT(30) DEF WeakTypes, RetryTask
  <2>3. WeakTypes'
    BY <1>11, <2>1, <2>2 DEF WeakTypes, RetryTask, slotVars, runVars, durable
  <2>4. Assigned'
    BY <1>11 DEF WeakTypes, Assigned, RetryTask, slotVars, runVars, durable
  <2> QED
    BY <2>3, <2>4
<1>12. ASSUME NEW t \in Tasks, OffLoopRetry(t)
      PROVE  WeakTypes' /\ Assigned'
  <2>1. status' \in [Tasks -> Statuses] /\ calls' \in [CallKinds -> Nat]
    BY <1>12, StatusType, CallsType DEF OffLoopRetry
  <2>2. WeakTypes'
    BY <1>12, <2>1 DEF WeakTypes, OffLoopRetry, queueVars, slotVars, runVars, durable
  <2>3. Assigned'
    BY <1>12 DEF WeakTypes, Assigned, OffLoopRetry, queueVars, slotVars, runVars, durable
  <2> QED
    BY <2>2, <2>3
<1>13. ASSUME NEW t \in Tasks, OffLoopCancel(t)
      PROVE  WeakTypes' /\ Assigned'
  <2>1. calls' \in [CallKinds -> Nat] /\ off' \in OffLoopCalls
    BY <1>13, OffLoopNames, CallsType DEF OffLoopCancel
  <2>2. WeakTypes'
    BY <1>13, <2>1 DEF WeakTypes, OffLoopCancel, queueVars, slotVars, runVars, durable
  <2>3. Assigned'
    BY <1>13 DEF WeakTypes, Assigned, OffLoopCancel, queueVars, slotVars, runVars, durable
  <2> QED
    BY <2>2, <2>3
<1>14. CASE ClearCompletedTasks
  <2>1. status' \in [Tasks -> Statuses]
    BY <1>14 DEF WeakTypes, ClearCompletedTasks
  <2>2. WeakTypes'
    BY <1>14, <2>1 DEF WeakTypes, ClearCompletedTasks, queueVars, slotVars, runVars, durable, callVars
  <2>3. Assigned'
    BY <1>14 DEF WeakTypes, Assigned, ClearCompletedTasks, queueVars, slotVars, runVars, durable, callVars
  <2> QED
    BY <2>2, <2>3
<1>15. CASE OffLoopStep
  <2>1. /\ off.task \in offLoop
        /\ off.task \in Tasks
    BY <1>15 DEF Assigned, WeakTypes, OffLoopStep, OffLoopSignal, OffLoopFail,
       OffLoopBump, OffLoopRecord
  <2>2. off' \in OffLoopCalls /\ (off'.pc # "idle" => off'.task = off.task)
    <3>1. off \in OffLoopCalls /\ off \in [pc : {"idle", "signal", "fail", "bump", "record"},
                                            task : Tasks \union {NoTask}]
      BY DEF WeakTypes, OffLoopCalls
    <3>2. CASE off' = [pc |-> "idle", task |-> NoTask]
      BY <3>2, OffLoopNames
    <3>3. CASE off' \in {[off EXCEPT !.pc = "fail"], [off EXCEPT !.pc = "bump"],
                         [off EXCEPT !.pc = "record"]}
      <4>1. off' \in OffLoopCalls
        BY <3>1, <3>3, OffLoopNames
      <4>2. off'.task = off.task
        BY <3>1, <3>3
      <4> QED
        BY <4>1, <4>2
    <3>4. \/ off' = [pc |-> "idle", task |-> NoTask]
          \/ off' \in {[off EXCEPT !.pc = "fail"], [off EXCEPT !.pc = "bump"],
                       [off EXCEPT !.pc = "record"]}
      BY <1>15 DEF OffLoopStep, OffLoopSignal, OffLoopFail, OffLoopBump, OffLoopRecord
    <3> QED
      BY <3>2, <3>3, <3>4
  <2>3. CASE OffLoopSignal
    <3>1. cancelReq' \subseteq Runs
      BY <2>1, <2>3, AskToCancelType DEF OffLoopSignal
    <3>2. WeakTypes'
      BY <2>2, <2>3, <3>1 DEF OffLoopSignal, WeakTypes, queueVars, slotVars, durable
    <3> QED
      BY <2>1, <2>2, <2>3, <3>2 DEF OffLoopSignal, Assigned
  <2>4. CASE OffLoopFail
    <3>1. status' \in [Tasks -> Statuses]
      BY <2>1, <2>4, StatusType DEF OffLoopFail
    <3>2. WeakTypes'
      BY <2>2, <2>4, <3>1 DEF OffLoopFail, WeakTypes, queueVars, slotVars, runVars,
         durable
    <3> QED
      BY <2>1, <2>2, <2>4, <3>2 DEF OffLoopFail, Assigned, runVars
  <2>5. CASE OffLoopBump
    <3>1. epoch' \in [Tasks -> Nat] /\ cut' \subseteq Runs
      BY <2>1, <2>5, EpochType DEF OffLoopBump
    <3>2. WeakTypes'
      BY <2>2, <2>5, <3>1 DEF OffLoopBump, WeakTypes, queueVars, slotVars, runVars,
         durable
    <3> QED
      BY <2>1, <2>2, <2>5, <3>2 DEF OffLoopBump, Assigned, runVars
  <2>6. CASE OffLoopRecord
    <3>1. ledger' \subseteq Uploads /\ hist' \in [Tasks -> HistoryStates]
      BY <2>1, <2>6, RecordCancelType DEF OffLoopRecord, WeakTypes, durable
    <3>2. WeakTypes'
      BY <2>2, <2>6, <3>1 DEF OffLoopRecord, WeakTypes, queueVars, slotVars, runVars
    <3> QED
      BY <2>1, <2>2, <2>6, <3>2 DEF OffLoopRecord, Assigned, runVars
  <2> QED
    BY <1>15, <2>3, <2>4, <2>5, <2>6 DEF OffLoopStep
<1>16. CASE UNCHANGED vars
  <2>1. WeakTypes'
    BY <1>16 DEF WeakTypes, vars, queueVars, slotVars, runVars, durable, callVars
  <2>2. Assigned'
    BY <1>16 DEF WeakTypes, Assigned, vars, queueVars, slotVars, runVars, durable, callVars
  <2> QED
    BY <2>1, <2>2
<1>17. CASE OffLoopClear \/ ClearStep
  <2>1. status' \in [Tasks -> Statuses]
    BY <1>17, ClearDoes DEF WeakTypes
  <2>2. WeakTypes'
    BY <1>17, <2>1, ClearDoes DEF WeakTypes, queueVars, slotVars, runVars, durable
  <2>3. Assigned'
    BY <1>17, ClearDoes DEF Assigned, runVars
  <2> QED
    BY <2>2, <2>3
<1> QED
  BY <1>1, <1>2, <1>3, <1>4, <1>5, <1>6, <1>7, <1>8, <1>9, <1>10, <1>11, <1>12,
     <1>13, <1>14, <1>15, <1>16, <1>17 DEF Next, StepRun

----------------------------------------------------------------------------
\* Items stay in the queue of their kind.

Routed ==
  \A c \in Channels : /\ \A i \in 1..Len(queue[c]) : Chan(queue[c][i]) = c
                      /\ held[c] # NoTask => Chan(held[c]) = c

\* Empty queues are routed.
LEMMA InitRouted == Init => Routed
BY DEF Init, Routed

\* _enqueue_task puts a task in the queue of its type, and nobody moves it.
LEMMA StepRouted == WeakTypes /\ Routed /\ [Next]_vars => Routed'
<1> SUFFICES ASSUME WeakTypes, Routed, [Next]_vars PROVE Routed'
  OBVIOUS
<1>1. ASSUME NEW t \in Tasks, EnqueueTask(t)
      PROVE  Routed'
  <2> SUFFICES ASSUME NEW c \in Channels
               PROVE  /\ \A i \in 1..Len(queue'[c]) : Chan(queue'[c][i]) = c
                      /\ held'[c] # NoTask => Chan(held'[c]) = c
    BY DEF Routed
  <2>1. /\ queue' = [queue EXCEPT ![Chan(t)] = Append(queue[Chan(t)], t)]
        /\ held' = held
    BY <1>1 DEF EnqueueTask
  <2>2. queue[c] \in Seq(Tasks)
    BY DEF WeakTypes
  <2>3. CASE c = Chan(t)
    <3>1. queue'[c] = Append(queue[c], t)
      BY <2>1, <2>3 DEF WeakTypes
    <3> QED
      BY <2>1, <2>2, <2>3, <3>1 DEF Routed
  <2>4. CASE c # Chan(t)
    BY <2>1, <2>4 DEF Routed, WeakTypes
  <2> QED
    BY <2>3, <2>4
<1>2. ASSUME NEW d \in Channels, Dequeue(d)
      PROVE  Routed'
  <2> SUFFICES ASSUME NEW c \in Channels
               PROVE  /\ \A i \in 1..Len(queue'[c]) : Chan(queue'[c][i]) = c
                      /\ held'[c] # NoTask => Chan(held'[c]) = c
    BY DEF Routed
  <2>1. /\ queue[d] # <<>>
        /\ queue' = [queue EXCEPT ![d] = Tail(queue[d])]
        /\ held' = [held EXCEPT ![d] = Head(queue[d])]
    BY <1>2 DEF Dequeue
  <2>2. queue[d] \in Seq(Tasks)
    BY DEF WeakTypes
  <2>3. CASE c = d
    <3>1. queue'[c] = Tail(queue[c]) /\ held'[c] = queue[c][1] /\ 1 \in 1..Len(queue[c])
      BY <2>1, <2>2, <2>3 DEF WeakTypes
    <3>2. \A i \in 1..Len(Tail(queue[c])) : /\ Tail(queue[c])[i] = queue[c][i + 1]
                                            /\ i + 1 \in 1..Len(queue[c])
      BY <2>1, <2>2, <2>3
    <3> QED
      BY <3>1, <3>2 DEF Routed
  <2>4. CASE c # d
    BY <2>1, <2>4 DEF Routed, WeakTypes
  <2> QED
    BY <2>3, <2>4
<1>3. ASSUME NEW c \in Channels, NEW r \in Runs, StartRun(c, r)
      PROVE  Routed'
  BY <1>3 DEF StartRun, Routed, WeakTypes
<1>4. ASSUME UNCHANGED <<queue, held>>
      PROVE  Routed'
  BY <1>4 DEF Routed
<1>5. ASSUME NEW t \in Tasks, \/ CreateTask(t) \/ CancelTask(t) \/ RetryTask(t)
                              \/ OffLoopCancel(t) \/ OffLoopRetry(t)
      PROVE  UNCHANGED <<queue, held>>
  BY <1>5 DEF CreateTask, CancelTask, RetryTask, OffLoopCancel, OffLoopRetry, queueVars
<1>6. ASSUME NEW r \in Runs, StepRun(r)
      PROVE  UNCHANGED <<queue, held>>
  BY <1>6 DEF StepRun, LoseRun, RunFindsNoTask, BeginRun, ReleaseSlot, FinishRun,
     CompleteRun, FinishCancelled, FailRun, UnwindRun, EndRun, queueVars
<1>7. ASSUME ClearCompletedTasks \/ OffLoopStep \/ UNCHANGED vars
      PROVE  UNCHANGED <<queue, held>>
  BY <1>7 DEF ClearCompletedTasks, OffLoopStep, OffLoopSignal, OffLoopFail,
     OffLoopBump, OffLoopRecord, queueVars, vars
<1>8. ASSUME OffLoopClear \/ ClearStep
      PROVE  UNCHANGED <<queue, held>>
  BY <1>8, ClearDoes DEF queueVars
<1> QED
  BY <1>1, <1>2, <1>3, <1>4, <1>5, <1>6, <1>7, <1>8 DEF Next

----------------------------------------------------------------------------
\* Slots.

\* A task id in _upload_slot_released stands for an execution of that task
\* that handed its slot back and still runs.
ReleaserRuns ==
  \A t \in released : \E r \in Runs : runTask[r] = t /\ pc[r] = "released"

SlotBound == \A c \in Channels : running[c] <= MaxConcurrent

SlotInv == SlotAccounting /\ ReleaserRuns /\ SlotBound

\* Slot holders are finitely many, so they can be counted.
LEMMA FiniteHolders ==
  ASSUME NEW c
  PROVE  /\ IsFiniteSet(Holders(c))
         /\ Cardinality(Holders(c)) \in Nat
<1>1. IsFiniteSet(Runs)
  BY LimitAssumption, FS_Interval DEF Runs
<1>2. Holders(c) \in SUBSET Runs
  BY DEF Holders
<1> QED
  BY <1>1, <1>2, FS_Subset, FS_CardinalityType

\* So are the uploads that handed their slot back.
LEMMA FiniteReleased ==
  ASSUME released \subseteq Uploads
  PROVE  IsFiniteSet(released) /\ Cardinality(released) \in Nat
<1>1. released \in SUBSET Tasks
  BY TasksAssumption
<1> QED
  BY <1>1, TasksAssumption, FS_Subset, FS_CardinalityType

\* Executions that have not handed their slot back and the entries of
\* _upload_slot_released are different holders of upload slots.
LEMMA Matching ==
  ASSUME WeakTypes, ReleaserRuns,
         NEW Q \in SUBSET Holders("upload"), \A r \in Q : pc[r] # "released"
  PROVE  /\ Cardinality(Q) \in Nat
         /\ Cardinality(Q) + Cardinality(released) <= Cardinality(Holders("upload"))
<1> DEFINE H == Holders("upload")
           f == [t \in released |->
                   CHOOSE r \in Runs : runTask[r] = t /\ pc[r] = "released"]
<1>1. IsFiniteSet(H) /\ IsFiniteSet(Q) /\ Cardinality(Q) \in Nat
  BY FiniteHolders, FS_Subset, FS_CardinalityType
<1>2. \A t \in released : f[t] \in Runs /\ runTask[f[t]] = t /\ pc[f[t]] = "released"
  BY DEF ReleaserRuns
<1>3. \A t \in released : f[t] \in H \ Q
  BY <1>2, TasksAssumption DEF Holders, WeakTypes, Chan, Live, Handling
<1>4. f \in Injection(released, H \ Q)
  BY <1>2, <1>3 DEF Injection, IsInjective
<1>5. IsFiniteSet(H \ Q)
  BY <1>1, FS_Difference
<1>6. Cardinality(released) <= Cardinality(H \ Q)
  BY <1>4, <1>5, FS_Injection
<1>7. Cardinality(H \ Q) = Cardinality(H) - Cardinality(Q)
  <2>1. H \cap Q = Q
    OBVIOUS
  <2> QED
    BY <1>1, <2>1, FS_Difference
<1>8. Cardinality(released) \in Nat /\ Cardinality(H) \in Nat
  BY FiniteReleased, FiniteHolders DEF WeakTypes
<1> QED
  BY <1>1, <1>6, <1>7, <1>8

\* What the invariant says about the code.
LEMMA SlotInvMeans == WeakTypes /\ SlotInv => ParseGate /\ running \in [Channels -> Nat]
<1> SUFFICES ASSUME WeakTypes, SlotInv PROVE ParseGate /\ running \in [Channels -> Nat]
  OBVIOUS
<1> DEFINE P(c) == {r \in Holders(c) : pc[r] = "handling"}
<1>1. Cardinality(P("upload")) \in Nat /\ Cardinality(P("upload")) <= running["upload"]
  <2>1. P("upload") \in SUBSET Holders("upload") /\ \A r \in P("upload") : pc[r] # "released"
    OBVIOUS
  <2>2. /\ Cardinality(P("upload")) \in Nat
        /\ Cardinality(P("upload")) + Cardinality(released) <= Cardinality(Holders("upload"))
    BY <2>1, Matching DEF SlotInv
  <2>3. Cardinality(released) \in Nat /\ Cardinality(Holders("upload")) \in Nat
    BY FiniteReleased, FiniteHolders DEF WeakTypes
  <2> QED
    BY <2>2, <2>3 DEF SlotInv, SlotAccounting
<1>2. Cardinality(P("general")) \in Nat /\ Cardinality(P("general")) <= running["general"]
  <2>1. P("general") \in SUBSET Holders("general")
    OBVIOUS
  <2> QED
    BY <2>1, FiniteHolders, FS_Subset, FS_CardinalityType DEF SlotInv, SlotAccounting
<1>3. running["upload"] \in Int /\ running["general"] \in Int
  BY DEF WeakTypes, Channels
<1>4. ParseGate
  BY <1>1, <1>2, <1>3, LimitAssumption DEF SlotInv, SlotBound, ParseGate, Channels
<1>5. running \in [Channels -> Nat]
  BY <1>1, <1>2, <1>3 DEF WeakTypes, Channels
<1> QED
  BY <1>4, <1>5

\* No execution, no slot in use.
LEMMA InitSlotInv == Init => SlotInv
<1> SUFFICES ASSUME Init PROVE SlotInv
  OBVIOUS
<1>1. Holders("upload") = {} /\ Holders("general") = {}
  BY DEF Init, Holders, Live, Handling
<1>2. Cardinality({}) = 0
  BY FS_EmptySet
<1>3. SlotAccounting
  <2>1. released = {} /\ running["upload"] = 0 /\ running["general"] = 0
    BY DEF Init, Channels
  <2> QED
    BY <1>1, <1>2, <2>1 DEF SlotAccounting
<1> QED
  BY <1>3, LimitAssumption DEF Init, SlotInv, ReleaserRuns, SlotBound

\* An execution that stays between "created" and "lost" keeps its slot.
LEMMA KeepSlot ==
  ASSUME WeakTypes, NEW r \in Runs, NEW o \in Live \union {"lost"},
         pc[r] \in Live \union {"lost"},
         pc' = [pc EXCEPT ![r] = o], runTask' = runTask
  PROVE  \A c : Holders(c)' = Holders(c)
<1>1. \A s \in Runs : pc'[s] \in Live \union {"lost"} <=> pc[s] \in Live \union {"lost"}
  BY DEF WeakTypes
<1> QED
  BY <1>1 DEF Holders

\* An execution that ends gives up one slot of its channel.
LEMMA LeaveSlot ==
  ASSUME WeakTypes, SlotInv, NEW r \in Runs, pc[r] \in Live,
         runTask[r] \in Tasks, NEW o \in {"ended", "completed"},
         pc' = [pc EXCEPT ![r] = o], runTask' = runTask, GiveBack(runTask[r])
  PROVE  SlotInv'
<1> DEFINE t == runTask[r]
           d == Chan(t)
<1>1. d \in Channels
  BY Names
<1>2. r \in Holders(d)
  BY DEF Holders
<1>3. Holders(d)' = Holders(d) \ {r}
  BY DEF Holders, WeakTypes, Live, Handling
<1>4. \A c \in Channels : c # d => Holders(c)' = Holders(c)
  <2> SUFFICES ASSUME NEW c \in Channels, c # d PROVE Holders(c)' = Holders(c)
    OBVIOUS
  <2>1. \A s \in Runs : s # r => pc'[s] = pc[s]
    BY DEF WeakTypes
  <2>2. r \notin Holders(c) /\ r \notin Holders(c)'
    BY DEF Holders
  <2> QED
    BY <2>1, <2>2 DEF Holders
<1>5. /\ Cardinality(Holders(d)') = Cardinality(Holders(d)) - 1
      /\ Cardinality(Holders("upload")) \in Nat
      /\ Cardinality(Holders("general")) \in Nat
  BY <1>2, <1>3, FiniteHolders, FS_RemoveElement
<1>6. /\ Cardinality(released) \in Nat
      /\ Cardinality(released') =
           IF t \in released THEN Cardinality(released) - 1 ELSE Cardinality(released)
  BY FiniteReleased, FS_RemoveElement DEF WeakTypes, GiveBack
<1>7. t \in released => d = "upload"
  BY DEF WeakTypes, Chan
<1>8. SlotAccounting'
  <2>1. /\ running["general"] = Cardinality(Holders("general"))
        /\ running["upload"] = Cardinality(Holders("upload")) - Cardinality(released)
    BY DEF SlotInv, SlotAccounting
  <2>2. running \in [Channels -> Int] /\ running["upload"] \in Int /\ running["general"] \in Int
    BY DEF WeakTypes, Channels
  <2>3. CASE t \in released
    <3>1. running' = running /\ d = "upload"
      BY <1>7, <2>3 DEF GiveBack
    <3>2. Holders("general")' = Holders("general")
      BY <1>4, <3>1 DEF Channels
    <3> QED
      BY <1>5, <1>6, <2>1, <2>2, <2>3, <3>1, <3>2 DEF SlotAccounting
  <2>4. CASE t \notin released
    <3>1. running' = [running EXCEPT ![d] = running[d] - 1]
      BY <2>4 DEF GiveBack
    <3>2. CASE d = "upload"
      <4>1. Holders("general")' = Holders("general")
        BY <1>4, <3>2 DEF Channels
      <4>2. running'["upload"] = running["upload"] - 1 /\ running'["general"] = running["general"]
        BY <2>2, <3>1, <3>2 DEF Channels
      <4> QED
        BY <1>5, <1>6, <2>1, <2>2, <2>4, <3>2, <4>1, <4>2 DEF SlotAccounting
    <3>3. CASE d = "general"
      <4>1. Holders("upload")' = Holders("upload")
        BY <1>4, <3>3 DEF Channels
      <4>2. running'["general"] = running["general"] - 1 /\ running'["upload"] = running["upload"]
        BY <2>2, <3>1, <3>3 DEF Channels
      <4> QED
        BY <1>5, <1>6, <2>1, <2>2, <2>4, <3>3, <4>1, <4>2 DEF SlotAccounting
    <3> QED
      BY <1>1, <3>2, <3>3 DEF Channels
  <2> QED
    BY <2>3, <2>4
<1>9. ReleaserRuns'
  <2> SUFFICES ASSUME NEW u \in released'
               PROVE  \E s \in Runs : runTask'[s] = u /\ pc'[s] = "released"
    BY DEF ReleaserRuns
  <2>1. u \in released /\ u # t
    BY DEF GiveBack
  <2>2. PICK s \in Runs : runTask[s] = u /\ pc[s] = "released"
    BY <2>1 DEF SlotInv, ReleaserRuns
  <2>3. s # r
    BY <2>1, <2>2
  <2> QED
    BY <2>2, <2>3 DEF WeakTypes
<1>10. SlotBound'
  BY <1>1, LimitAssumption DEF SlotInv, SlotBound, GiveBack, WeakTypes
<1> QED
  BY <1>8, <1>9, <1>10 DEF SlotInv

\* The calls that touch no execution and no slot.
LEMMA SlotFrame ==
  ASSUME SlotInv, UNCHANGED <<pc, runTask, running, released>>
  PROVE  SlotInv'
<1>1. \A c : Holders(c)' = Holders(c)
  BY DEF Holders
<1>2. SlotAccounting' /\ SlotBound'
  BY <1>1 DEF SlotInv, SlotAccounting, SlotBound
<1>3. ReleaserRuns'
  BY DEF SlotInv, ReleaserRuns
<1> QED
  BY <1>2, <1>3 DEF SlotInv

\* One step per action: the ones that take or return a slot, then the rest.
LEMMA StepSlotInv ==
  WeakTypes /\ Assigned /\ Routed /\ SlotInv /\ [Next]_vars => SlotInv'
<1> SUFFICES ASSUME WeakTypes, Assigned, Routed, SlotInv, [Next]_vars PROVE SlotInv'
  OBVIOUS
<1>1. ASSUME NEW c \in Channels, NEW r \in Runs, StartRun(c, r)
      PROVE  SlotInv'
  <2>1. /\ held[c] \in Tasks /\ pc[r] = "idle"
        /\ pc' = [pc EXCEPT ![r] = "created"]
        /\ runTask' = [runTask EXCEPT ![r] = held[c]]
        /\ running' = [running EXCEPT ![c] = @ + 1]
        /\ running[c] < MaxConcurrent /\ released' = released
    BY <1>1 DEF StartRun, WeakTypes, SlotFree
  <2>2. Chan(held[c]) = c
    BY <1>1 DEF StartRun, Routed
  <2>3. r \notin Holders(c) /\ Holders(c)' = Holders(c) \union {r}
    BY <2>1, <2>2 DEF Holders, Live, Handling, WeakTypes
  <2>4. \A d \in Channels : d # c => Holders(d)' = Holders(d)
    BY <2>1, <2>2 DEF Holders, Live, Handling, WeakTypes
  <2>5. Cardinality(Holders(c)') = Cardinality(Holders(c)) + 1
    BY <2>3, FiniteHolders, FS_AddElement
  <2>6. /\ running["general"] = Cardinality(Holders("general"))
        /\ running["upload"] = Cardinality(Holders("upload")) - Cardinality(released)
        /\ Cardinality(Holders("general")) \in Nat
        /\ Cardinality(Holders("upload")) \in Nat
        /\ Cardinality(released) \in Nat
    BY FiniteHolders, FiniteReleased DEF SlotInv, SlotAccounting, WeakTypes
  <2>7. SlotAccounting'
    <3>1. CASE c = "upload"
      <4>1. /\ running'["upload"] = running["upload"] + 1
            /\ running'["general"] = running["general"]
            /\ Holders("general")' = Holders("general")
        BY <2>1, <2>4, <3>1 DEF WeakTypes, Channels
      <4> QED
        BY <2>1, <2>5, <2>6, <3>1, <4>1 DEF SlotAccounting
    <3>2. CASE c = "general"
      <4>1. /\ running'["general"] = running["general"] + 1
            /\ running'["upload"] = running["upload"]
            /\ Holders("upload")' = Holders("upload")
        BY <2>1, <2>4, <3>2 DEF WeakTypes, Channels
      <4> QED
        BY <2>1, <2>5, <2>6, <3>2, <4>1 DEF SlotAccounting
    <3> QED
      BY <3>1, <3>2 DEF Channels
  <2>8. ReleaserRuns'
    BY <2>1 DEF SlotInv, ReleaserRuns, WeakTypes
  <2>9. SlotBound'
    BY <2>1, LimitAssumption DEF SlotInv, SlotBound, WeakTypes
  <2> QED
    BY <2>7, <2>8, <2>9 DEF SlotInv
<1>2. ASSUME NEW r \in Runs, LoseRun(r)
      PROVE  SlotInv'
  <2>1. \A c : Holders(c)' = Holders(c)
    BY <1>2, KeepSlot DEF LoseRun, Live
  <2>2. ReleaserRuns'
    BY <1>2 DEF LoseRun, slotVars, SlotInv, ReleaserRuns, WeakTypes
  <2> QED
    BY <1>2, <2>1, <2>2 DEF LoseRun, slotVars, SlotInv, SlotAccounting, SlotBound
<1>3. ASSUME NEW r \in Runs, RunFindsNoTask(r)
      PROVE  SlotInv'
  <2>1. runTask[r] \in Tasks
    BY <1>3 DEF Assigned, RunFindsNoTask
  <2> QED
    BY <1>3, <2>1, LeaveSlot DEF RunFindsNoTask, Live
<1>4. ASSUME NEW r \in Runs, BeginRun(r)
      PROVE  SlotInv'
  <2>1. \A c : Holders(c)' = Holders(c)
    BY <1>4, KeepSlot DEF BeginRun, Live, Handling
  <2>2. ReleaserRuns'
    BY <1>4 DEF BeginRun, slotVars, SlotInv, ReleaserRuns, WeakTypes
  <2> QED
    BY <1>4, <2>1, <2>2 DEF BeginRun, slotVars, SlotInv, SlotAccounting, SlotBound
<1>5. ASSUME NEW r \in Runs, ReleaseSlot(r)
      PROVE  SlotInv'
  <2> DEFINE t == runTask[r]
  <2>1. /\ t \in Uploads /\ t \in Tasks /\ pc[r] = "handling"
        /\ pc' = [pc EXCEPT ![r] = "released"] /\ runTask' = runTask
        /\ released' = released \union {t}
        /\ running' = IF t \in released \/ running["upload"] = 0
                      THEN running
                      ELSE [running EXCEPT !["upload"] = @ - 1]
    BY <1>5, TasksAssumption DEF ReleaseSlot, HandBackSlot
  <2>2. \A c : Holders(c)' = Holders(c)
    BY <2>1, KeepSlot DEF Live, Handling
  <2>3. Cardinality({r}) + Cardinality(released) <= Cardinality(Holders("upload"))
    <3>1. {r} \in SUBSET Holders("upload")
      BY <2>1 DEF Holders, Chan, Live, Handling
    <3> QED
      BY <2>1, <3>1, Matching DEF SlotInv
  <2>4. /\ Cardinality({r}) = 1
        /\ Cardinality(released) \in Nat
        /\ Cardinality(Holders("upload")) \in Nat
        /\ Cardinality(released') =
             IF t \in released THEN Cardinality(released) ELSE Cardinality(released) + 1
    BY <2>1, FS_Singleton, FS_AddElement, FiniteReleased, FiniteHolders DEF WeakTypes
  <2>5. /\ running["general"] = Cardinality(Holders("general"))
        /\ running["upload"] = Cardinality(Holders("upload")) - Cardinality(released)
    BY DEF SlotInv, SlotAccounting
  <2>6. running["upload"] > 0
    BY <2>3, <2>4, <2>5
  <2>7. /\ running'["general"] = running["general"]
        /\ running'["upload"] =
             IF t \in released THEN running["upload"] ELSE running["upload"] - 1
    BY <2>1, <2>6 DEF WeakTypes, Channels
  <2>8. SlotAccounting'
    BY <2>2, <2>4, <2>5, <2>7 DEF SlotAccounting
  <2>9. ReleaserRuns'
    BY <2>1 DEF SlotInv, ReleaserRuns, WeakTypes
  <2>10. SlotBound'
    BY <2>1, LimitAssumption DEF SlotInv, SlotBound, WeakTypes, Channels
  <2> QED
    BY <2>8, <2>9, <2>10 DEF SlotInv
<1>6. ASSUME NEW r \in Runs, FinishRun(r)
      PROVE  SlotInv'
  <2>1. runTask[r] \in Tasks /\ pc[r] \in Live
    BY <1>6 DEF Assigned, FinishRun, CompleteRun, FinishCancelled, FailRun, UnwindRun,
       Handling, Live
  <2>2. EndRun(r, "ended") \/ EndRun(r, "completed")
    BY <1>6 DEF FinishRun, CompleteRun, FinishCancelled, FailRun, UnwindRun
  <2> QED
    BY <2>1, <2>2, LeaveSlot DEF EndRun
<1>7. ASSUME NEW t \in Tasks, \/ CreateTask(t) \/ EnqueueTask(t) \/ CancelTask(t)
                              \/ RetryTask(t) \/ OffLoopCancel(t) \/ OffLoopRetry(t)
      PROVE  SlotInv'
  BY <1>7, SlotFrame DEF CreateTask, EnqueueTask, CancelTask, RetryTask, OffLoopCancel,
     OffLoopRetry, slotVars, runVars
<1>8. ASSUME NEW c \in Channels, Dequeue(c)
      PROVE  SlotInv'
  BY <1>8, SlotFrame DEF Dequeue, slotVars, runVars
<1>9. CASE ClearCompletedTasks \/ OffLoopStep \/ UNCHANGED vars
  BY <1>9, SlotFrame DEF ClearCompletedTasks, OffLoopStep, OffLoopSignal, OffLoopFail,
     OffLoopBump, OffLoopRecord, slotVars, runVars, vars
<1>10. CASE OffLoopClear \/ ClearStep
  BY <1>10, ClearDoes, SlotFrame DEF slotVars, runVars
<1> QED
  BY <1>1, <1>2, <1>3, <1>4, <1>5, <1>6, <1>7, <1>8, <1>9, <1>10 DEF Next, StepRun

----------------------------------------------------------------------------
\* Cancellation: an execution that was cut holds an epoch its task has left.

CutInv ==
  /\ \A r \in Runs : pc[r] \in Handling => runEpoch[r] <= epoch[runTask[r]]
  /\ \A r \in cut : /\ pc[r] \in Handling \union {"ended"}
                    /\ pc[r] \in Handling => runEpoch[r] < epoch[runTask[r]]

\* The inductive form implies the property of the runs.
LEMMA CutInvMeans == CutInv => CutRunNeverCompletes
BY DEF CutInv, CutRunNeverCompletes, Handling

\* No execution is cut before one has started.
LEMMA InitCutInv == Init => CutInv
BY DEF Init, CutInv, Handling

\* A cancel leaves the executions it cuts behind the new epoch.
LEMMA AdvanceCutInv ==
  ASSUME WeakTypes, Assigned, CutInv, NEW t \in Tasks, AdvanceEpoch(t),
         UNCHANGED <<pc, runTask, runEpoch>>
  PROVE  CutInv'
<1>1. \A r \in Runs : pc[r] \in Handling => runTask[r] \in Tasks
  BY DEF Assigned, Handling
<1>2. \A u \in Tasks : /\ epoch'[u] = IF u = t THEN epoch[u] + 1 ELSE epoch[u]
                       /\ epoch[u] \in Nat
  BY DEF AdvanceEpoch, WeakTypes
<1>3. \A r \in Runs : runEpoch[r] \in Nat
  BY DEF WeakTypes
<1>4. \A r \in Runs : pc'[r] \in Handling => runEpoch'[r] <= epoch'[runTask'[r]]
  BY <1>1, <1>2, <1>3 DEF CutInv
<1>5. ASSUME NEW r \in cut'
      PROVE  /\ pc'[r] \in Handling \union {"ended"}
             /\ pc'[r] \in Handling => runEpoch'[r] < epoch'[runTask'[r]]
  <2>1. r \in Runs
    BY DEF AdvanceEpoch, WeakTypes, RunsOf
  <2>2. CASE r \in cut
    BY <1>1, <1>2, <1>3, <2>1, <2>2 DEF CutInv
  <2>3. CASE r \notin cut
    <3>1. runTask[r] = t /\ pc[r] \in Handling
      BY <2>3 DEF AdvanceEpoch, RunsOf
    <3> QED
      BY <1>1, <1>2, <1>3, <2>1, <3>1 DEF CutInv
  <2> QED
    BY <2>2, <2>3
<1> QED
  BY <1>4, <1>5 DEF CutInv

\* Actions that leave epochs and executions alone.
LEMMA CutFrame ==
  ASSUME CutInv, UNCHANGED <<pc, runTask, runEpoch, epoch, cut>>
  PROVE  CutInv'
BY DEF CutInv

\* One step per action: a cut execution ends, but never as "completed".
LEMMA StepCutInv ==
  WeakTypes /\ Assigned /\ CutInv /\ [Next]_vars => CutInv'
<1> SUFFICES ASSUME WeakTypes, Assigned, CutInv, [Next]_vars PROVE CutInv'
  OBVIOUS
<1>1. ASSUME NEW c \in Channels, NEW r \in Runs, StartRun(c, r)
      PROVE  CutInv'
  BY <1>1 DEF StartRun, CutInv, WeakTypes, callVars, Handling
<1>2. ASSUME NEW r \in Runs, LoseRun(r) \/ RunFindsNoTask(r) \/ ReleaseSlot(r)
      PROVE  CutInv'
  <2>1. /\ UNCHANGED <<runTask, runEpoch, epoch, cut>>
        /\ pc' = [pc EXCEPT ![r] = pc'[r]]
        /\ \/ pc[r] = "created" /\ pc'[r] \in {"lost", "ended"}
           \/ pc[r] = "handling" /\ pc'[r] = "released"
    BY <1>2 DEF LoseRun, RunFindsNoTask, ReleaseSlot, callVars, WeakTypes
  <2> QED
    BY <2>1 DEF CutInv, WeakTypes, Handling
<1>3. ASSUME NEW r \in Runs, BeginRun(r)
      PROVE  CutInv'
  <2>1. /\ UNCHANGED <<runTask, epoch, cut>> /\ pc[r] = "created"
        /\ pc' = [pc EXCEPT ![r] = "handling"]
        /\ runEpoch' = [runEpoch EXCEPT ![r] = epoch[runTask[r]]]
        /\ epoch[runTask[r]] \in Nat
    BY <1>3 DEF BeginRun, callVars, WeakTypes, Assigned
  <2>2. r \notin cut
    BY <2>1 DEF CutInv, Handling
  <2> QED
    BY <2>1, <2>2 DEF CutInv, WeakTypes, Handling
<1>4. ASSUME NEW r \in Runs, FinishRun(r)
      PROVE  CutInv'
  <2>1. /\ UNCHANGED <<runTask, runEpoch, epoch, cut>> /\ pc[r] \in Handling
        /\ \/ CompleteRun(r) /\ pc' = [pc EXCEPT ![r] = "completed"]
           \/ pc' = [pc EXCEPT ![r] = "ended"]
    BY <1>4 DEF FinishRun, CompleteRun, FinishCancelled, FailRun, UnwindRun, EndRun,
       callVars
  <2>2. CASE pc' = [pc EXCEPT ![r] = "ended"]
    BY <2>1, <2>2 DEF CutInv, WeakTypes, Handling
  <2>3. CASE CompleteRun(r) /\ pc' = [pc EXCEPT ![r] = "completed"]
    <3>1. epoch[runTask[r]] = runEpoch[r] /\ runEpoch[r] \in Nat
      BY <2>3 DEF CompleteRun, SameEpoch, WeakTypes
    <3>2. r \notin cut
      BY <2>1, <3>1 DEF CutInv
    <3> QED
      BY <2>1, <2>3, <3>2 DEF CutInv, WeakTypes, Handling
  <2> QED
    BY <2>1, <2>2, <2>3
<1>5. ASSUME NEW t \in Tasks, CancelTask(t)
      PROVE  CutInv'
  BY <1>5, AdvanceCutInv DEF CancelTask
<1>6. ASSUME NEW t \in Tasks, \/ CreateTask(t) \/ EnqueueTask(t) \/ RetryTask(t)
                              \/ OffLoopCancel(t) \/ OffLoopRetry(t)
      PROVE  CutInv'
  BY <1>6, CutFrame DEF CreateTask, EnqueueTask, RetryTask, OffLoopCancel, OffLoopRetry,
     runVars, callVars
<1>7. ASSUME NEW c \in Channels, Dequeue(c)
      PROVE  CutInv'
  BY <1>7, CutFrame DEF Dequeue, runVars, callVars
<1>8. CASE OffLoopBump
  <2>1. off.task \in Tasks
    BY <1>8 DEF OffLoopBump, Assigned, WeakTypes
  <2> QED
    BY <1>8, <2>1, AdvanceCutInv DEF OffLoopBump, runVars
<1>9. CASE \/ ClearCompletedTasks \/ OffLoopSignal \/ OffLoopFail \/ OffLoopRecord
           \/ UNCHANGED vars
  BY <1>9, CutFrame DEF ClearCompletedTasks, OffLoopSignal, OffLoopFail, OffLoopRecord,
     runVars, callVars, vars
<1>10. CASE OffLoopClear \/ ClearStep
  BY <1>10, ClearDoes, CutFrame DEF runVars
<1> QED
  BY <1>1, <1>2, <1>3, <1>4, <1>5, <1>6, <1>7, <1>8, <1>9, <1>10
     DEF Next, StepRun, OffLoopStep

----------------------------------------------------------------------------
\* The theorems.

SafetyInv == WeakTypes /\ Assigned /\ Routed /\ SlotInv /\ CutInv

\* The conjunction of all parts is inductive.
LEMMA SafetyInductive == Spec => []SafetyInv
<1>1. Init => SafetyInv
  BY InitWeakTypes, InitRouted, InitSlotInv, InitCutInv DEF SafetyInv
<1>2. SafetyInv /\ [Next]_vars => SafetyInv'
  BY StepWeakTypes, StepRouted, StepSlotInv, StepCutInv DEF SafetyInv
<1> QED
  BY <1>1, <1>2, PTL DEF Spec

\* Every variable keeps its type; in particular no slot counter goes negative,
\* however executions of one task overlap (release_upload_slot against the
\* finally of _execute_upload_task).
THEOREM TypeCorrect == Spec => []TypeOK
<1>1. SafetyInv => TypeOK
  BY SlotInvMeans DEF SafetyInv, WeakTypes, TypeOK
<1> QED
  BY <1>1, SafetyInductive, PTL

\* _upload_running and _general_running count the executions that hold a slot.
THEOREM SlotsAccounted == Spec => []SlotAccounting
<1>1. SafetyInv => SlotAccounting
  BY DEF SafetyInv, SlotInv
<1> QED
  BY <1>1, SafetyInductive, PTL

\* Never more than max_concurrent uploads in parse/filter.
THEOREM ParseGated == Spec => []ParseGate
<1>1. SafetyInv => ParseGate
  BY SlotInvMeans DEF SafetyInv
<1> QED
  BY <1>1, SafetyInductive, PTL

\* The epoch check of _execute_task: a cancelled execution never completes its task.
THEOREM CutRunsNeverComplete == Spec => []CutRunNeverCompletes
<1>1. SafetyInv => CutRunNeverCompletes
  BY CutInvMeans DEF SafetyInv
<1> QED
  BY <1>1, SafetyInductive, PTL

----------------------------------------------------------------------------
\* Nobody waits for nothing: tasks driven from the event loop only.

\* An entry of _async_tasks is an execution of that task, and Task.cancel is
\* only ever asked of an execution that was started.
HandlesAreOwn ==
  /\ \A t \in Tasks : atask[t] # NoRun => runTask[atask[t]] = t /\ pc[atask[t]] # "idle"
  /\ \A r \in cancelReq : pc[r] # "idle"

LoopInv == HandlesAreOwn /\ LoopPendingIsQueued /\ LoopProcessingIsLive

\* An item for u stands in a queue.
Holds(q, u) == \E i \in DOMAIN q : q[i] = u

\* What asyncio.Queue.put adds to the items of a queue.
LEMMA PutHolds ==
  ASSUME NEW q \in Seq(Tasks), NEW t \in Tasks, NEW u \in Tasks
  PROVE  Holds(Append(q, t), u) <=> u = t \/ Holds(q, u)
<1>1. /\ DOMAIN Append(q, t) = 1..Len(q) + 1 /\ DOMAIN q = 1..Len(q) /\ Len(q) \in Nat
      /\ \A i \in 1..Len(q) : Append(q, t)[i] = q[i]
      /\ Append(q, t)[Len(q) + 1] = t
  OBVIOUS
<1>2. \A i \in 1..Len(q) + 1 : i \in 1..Len(q) \/ i = Len(q) + 1
  BY <1>1
<1>3. /\ Len(q) + 1 \in 1..Len(q) + 1
      /\ \A i \in 1..Len(q) : i \in 1..Len(q) + 1
  BY <1>1
<1> QED
  BY <1>1, <1>2, <1>3 DEF Holds

\* What asyncio.Queue.get takes from them.
LEMMA GetHolds ==
  ASSUME NEW q \in Seq(Tasks), q # <<>>, NEW u \in Tasks
  PROVE  Holds(q, u) <=> u = Head(q) \/ Holds(Tail(q), u)
<1> DEFINE r == Tail(q)
<1>1. /\ DOMAIN r = 1..Len(q) - 1 /\ DOMAIN q = 1..Len(q)
      /\ Len(q) \in Nat /\ Len(q) > 0
      /\ \A i \in 1..Len(q) - 1 : r[i] = q[i + 1]
      /\ Head(q) = q[1]
  OBVIOUS
<1> HIDE DEF r
<1>2. ASSUME NEW i \in 1..Len(q), q[i] = u
      PROVE  u = Head(q) \/ \E j \in DOMAIN r : r[j] = u
  <2>1. CASE i = 1
    BY <1>1, <1>2, <2>1
  <2>2. CASE i # 1
    <3>1. i - 1 \in 1..Len(q) - 1 /\ (i - 1) + 1 = i
      BY <1>1, <2>2
    <3>2. r[i - 1] = u /\ i - 1 \in DOMAIN r
      BY <1>1, <1>2, <3>1
    <3> QED
      BY <3>2
  <2> QED
    BY <2>1, <2>2
<1>3. ASSUME NEW i \in DOMAIN r, r[i] = u
      PROVE  \E j \in DOMAIN q : q[j] = u
  <2>1. i + 1 \in DOMAIN q /\ q[i + 1] = u
    BY <1>1, <1>3
  <2> QED
    BY <2>1
<1>4. 1 \in DOMAIN q
  BY <1>1
<1>5. Holds(q, u) => u = Head(q) \/ Holds(r, u)
  BY <1>1, <1>2 DEF Holds
<1>6. u = Head(q) \/ Holds(r, u) => Holds(q, u)
  BY <1>1, <1>3, <1>4 DEF Holds
<1> QED
  BY <1>5, <1>6 DEF r

\* Nothing has been called before start().
LEMMA InitLoopInv == Init => LoopInv
BY DEF Init, LoopInv, HandlesAreOwn, LoopPendingIsQueued, LoopProcessingIsLive

\* A request to cancel reaches an execution of that task and no other.
LEMMA AskReachesOwn ==
  ASSUME WeakTypes, HandlesAreOwn, NEW t \in Tasks, AskToCancel(t)
  PROVE  /\ cancelReq \subseteq cancelReq'
         /\ \A r \in cancelReq' \ cancelReq : runTask[r] = t /\ pc[r] # "idle"
BY DEF WeakTypes, HandlesAreOwn, AskToCancel, NoRun

\* Actions that add no request and start no execution.
LEMMA HandlesFrame ==
  ASSUME HandlesAreOwn, UNCHANGED <<pc, runTask, atask, cancelReq>>
  PROVE  HandlesAreOwn'
BY DEF HandlesAreOwn

\* An execution that goes on, ends or is lost was started.
LEMMA HandlesAtEnd ==
  ASSUME WeakTypes, Assigned, HandlesAreOwn, NEW r \in Runs, NEW o \in Stages \ {"idle"},
         pc[r] # "idle", pc' = [pc EXCEPT ![r] = o], UNCHANGED <<runTask, cancelReq>>,
         \/ atask' = atask
         \/ atask' = [atask EXCEPT ![runTask[r]] = NoRun]
  PROVE  HandlesAreOwn'
<1>1. \A s \in Runs : pc'[s] = "idle" => pc[s] = "idle"
  BY DEF WeakTypes
<1>2. \A t \in Tasks : atask'[t] # NoRun => atask'[t] = atask[t] /\ atask[t] \in Runs
  BY DEF WeakTypes, NoRun
<1>3. cancelReq \subseteq Runs
  BY DEF WeakTypes
<1> QED
  BY <1>1, <1>2, <1>3 DEF HandlesAreOwn

\* What the end of an execution does to the executions, however it comes.
LEMMA EndRunShape ==
  ASSUME NEW r \in Runs, FinishRun(r)
  PROVE  /\ pc[r] \in Handling
         /\ \E o \in {"ended", "completed"} : pc' = [pc EXCEPT ![r] = o]
         /\ UNCHANGED <<queueVars, epoch, runTask, runEpoch, cancelReq, callVars>>
         /\ atask' = [atask EXCEPT ![runTask[r]] = NoRun]
         /\ \/ /\ SameEpoch(r)
               /\ \E s \in Terminal : SetStatus(runTask[r], s)
            \/ /\ ~ SameEpoch(r) \/ r \in cancelReq
               /\ status' = status
BY DEF FinishRun, CompleteRun, FinishCancelled, FailRun, UnwindRun, EndRun, Terminal

\* One step per action: handles stay with their task.
LEMMA StepHandles == WeakTypes /\ Assigned /\ HandlesAreOwn /\ [Next]_vars => HandlesAreOwn'
<1> SUFFICES ASSUME WeakTypes, Assigned, HandlesAreOwn, [Next]_vars PROVE HandlesAreOwn'
  OBVIOUS
<1>1. ASSUME NEW c \in Channels, NEW r \in Runs, StartRun(c, r)
      PROVE  HandlesAreOwn'
  <2>1. /\ held[c] \in Tasks /\ pc[r] = "idle" /\ cancelReq' = cancelReq
        /\ pc' = [pc EXCEPT ![r] = "created"]
        /\ runTask' = [runTask EXCEPT ![r] = held[c]]
        /\ atask' = [atask EXCEPT ![held[c]] = r]
    BY <1>1 DEF StartRun, WeakTypes
  <2>2. \A t \in Tasks : \/ t = held[c] /\ atask'[t] = r
                         \/ atask'[t] = atask[t] /\ (atask[t] # NoRun => atask[t] \in Runs \ {r})
    BY <2>1 DEF WeakTypes, HandlesAreOwn
  <2> QED
    BY <2>1, <2>2 DEF WeakTypes, HandlesAreOwn
<1>2. ASSUME NEW r \in Runs, LoseRun(r) \/ RunFindsNoTask(r) \/ BeginRun(r) \/ ReleaseSlot(r)
      PROVE  HandlesAreOwn'
  <2>1. /\ pc[r] # "idle" /\ UNCHANGED <<runTask, cancelReq, atask>>
        /\ \E o \in {"lost", "ended", "handling", "released"} : pc' = [pc EXCEPT ![r] = o]
    BY <1>2 DEF LoseRun, RunFindsNoTask, BeginRun, ReleaseSlot
  <2> QED
    BY <2>1, HandlesAtEnd, Names
<1>3. ASSUME NEW r \in Runs, FinishRun(r)
      PROVE  HandlesAreOwn'
  <2>1. pc[r] # "idle" /\ UNCHANGED <<runTask, cancelReq>>
    BY <1>3, EndRunShape DEF Handling
  <2> QED
    BY <1>3, <2>1, EndRunShape, HandlesAtEnd, Names
<1>4. ASSUME NEW t \in Tasks, AskToCancel(t), UNCHANGED <<pc, runTask, atask>>
      PROVE  HandlesAreOwn'
  BY <1>4, AskReachesOwn DEF HandlesAreOwn
<1>5. ASSUME NEW t \in Tasks, CancelTask(t)
      PROVE  HandlesAreOwn'
  BY <1>4, <1>5 DEF CancelTask
<1>6. CASE OffLoopSignal
  <2>1. off.task \in Tasks
    BY <1>6 DEF OffLoopSignal, Assigned, WeakTypes
  <2> QED
    BY <1>4, <1>6, <2>1 DEF OffLoopSignal
<1>7. ASSUME NEW t \in Tasks, \/ CreateTask(t) \/ EnqueueTask(t) \/ RetryTask(t)
                              \/ OffLoopCancel(t) \/ OffLoopRetry(t)
      PROVE  HandlesAreOwn'
  BY <1>7, HandlesFrame DEF CreateTask, EnqueueTask, RetryTask, OffLoopCancel,
     OffLoopRetry, runVars
<1>8. ASSUME NEW c \in Channels, Dequeue(c)
      PROVE  HandlesAreOwn'
  BY <1>8, HandlesFrame DEF Dequeue, runVars
<1>9. CASE \/ ClearCompletedTasks \/ OffLoopFail \/ OffLoopBump \/ OffLoopRecord
           \/ UNCHANGED vars
  BY <1>9, HandlesFrame DEF ClearCompletedTasks, OffLoopFail, OffLoopBump, OffLoopRecord,
     runVars, vars
<1>10. CASE OffLoopClear \/ ClearStep
  BY <1>10, ClearDoes, HandlesFrame DEF runVars
<1> QED
  BY <1>1, <1>2, <1>3, <1>5, <1>6, <1>7, <1>8, <1>9, <1>10
     DEF Next, StepRun, OffLoopStep

\* A task that stays in line where the queues, the processors and the executions
\* of the other tasks move on.
LEMMA StaysInLine ==
  ASSUME NEW t \in Tasks, InLine(t), UNCHANGED queueVars,
         \A r \in Runs : runTask[r] = t /\ pc[r] = "created" /\ r \notin cancelReq =>
                           runTask'[r] = t /\ pc'[r] = "created" /\ r \notin cancelReq'
  PROVE  InLine(t)'
BY DEF InLine, RunsOf, queueVars

\* The two halves of the invariant, of one task.
Waits(t) == t \notin offLoop /\ status[t] = "PENDING" => InLine(t)
Works(t) == t \notin offLoop /\ status[t] = "PROCESSING" =>
              \E r \in RunsOf(t) \ cancelReq : pc[r] \in Handling /\ SameEpoch(r)

\* The halves are the properties.
LEMMA HalvesMean ==
  /\ LoopPendingIsQueued <=> \A t \in Tasks : Waits(t)
  /\ LoopProcessingIsLive <=> \A t \in Tasks : Works(t)
BY DEF LoopPendingIsQueued, LoopProcessingIsLive, Waits, Works

\* Only a create, a retry and an execution that begins put a task into an active
\* state; a write to task.status reaches no other task.
LEMMA SetStatusOf ==
  ASSUME WeakTypes, NEW t \in Tasks, NEW s \in Statuses, SetStatus(t, s)
  PROVE  /\ \A u \in Tasks : u # t => status'[u] = status[u]
         /\ InTable(t) => status'[t] = s
         /\ ~ InTable(t) => status'[t] = status[t]
BY DEF WeakTypes, SetStatus

\* The steps of the queues: the item moves on, the task stays in line.
LEMMA QueueKeepsLine ==
  ASSUME WeakTypes, Assigned, Routed, HandlesAreOwn, NEW t \in Tasks, InLine(t),
         \/ \E u \in Tasks : EnqueueTask(u)
         \/ \E c \in Channels : Dequeue(c) \/ \E r \in Runs : StartRun(c, r)
  PROVE  InLine(t)'
<1>1. ASSUME NEW u \in Tasks, EnqueueTask(u)
      PROVE  InLine(t)'
  <2> DEFINE q == queue[Chan(t)]
  <2>1. /\ enq' = [enq EXCEPT ![u] = @ - 1] /\ enq[u] > 0 /\ enq[t] \in Nat
        /\ queue' = [queue EXCEPT ![Chan(u)] = Append(queue[Chan(u)], u)]
        /\ UNCHANGED <<held, pc, runTask, cancelReq>>
        /\ q \in Seq(Tasks) /\ Chan(t) \in Channels
    BY <1>1, Names DEF EnqueueTask, WeakTypes, runVars
  <2>2. Holds(q, t) \/ u = t => Holds(queue'[Chan(t)], t)
    <3>1. queue'[Chan(t)] = IF Chan(t) = Chan(u) THEN Append(q, u) ELSE q
      BY <2>1 DEF WeakTypes
    <3> HIDE DEF q
    <3> QED
      BY <2>1, <3>1, PutHolds
  <2>3. CASE u = t
    BY <2>2, <2>3 DEF InLine, Holds
  <2>4. CASE u # t
    <3>1. enq'[t] = enq[t]
      BY <2>1, <2>4 DEF WeakTypes
    <3> QED
      BY <2>1, <2>2, <3>1 DEF InLine, Holds, RunsOf
  <2> QED
    BY <2>3, <2>4
<1>2. ASSUME NEW c \in Channels, Dequeue(c)
      PROVE  InLine(t)'
  <2> DEFINE q == queue[Chan(t)]
  <2>1. /\ queue[c] # <<>> /\ held[c] = NoTask
        /\ queue' = [queue EXCEPT ![c] = Tail(queue[c])]
        /\ held' = [held EXCEPT ![c] = Head(queue[c])]
        /\ UNCHANGED <<enq, pc, runTask, cancelReq>>
        /\ q \in Seq(Tasks) /\ Chan(t) \in Channels
    BY <1>2, Names DEF Dequeue, WeakTypes, runVars
  <2>2. CASE c = Chan(t)
    <3>1. /\ queue'[Chan(t)] = Tail(q) /\ held'[Chan(t)] = Head(q) /\ q # <<>>
          /\ held[Chan(t)] # t
      BY <2>1, <2>2, TasksAssumption DEF WeakTypes
    <3>2. Holds(q, t) => held'[Chan(t)] = t \/ Holds(queue'[Chan(t)], t)
      <4> HIDE DEF q
      <4> QED
        BY <2>1, <3>1, GetHolds
    <3> QED
      BY <2>1, <3>1, <3>2 DEF InLine, Holds, RunsOf
  <2>3. CASE c # Chan(t)
    <3>1. queue'[Chan(t)] = queue[Chan(t)] /\ held'[Chan(t)] = held[Chan(t)]
      BY <2>1, <2>3 DEF WeakTypes
    <3> QED
      BY <2>1, <3>1 DEF InLine, RunsOf
  <2> QED
    BY <2>2, <2>3
<1>3. ASSUME NEW c \in Channels, NEW r \in Runs, StartRun(c, r)
      PROVE  InLine(t)'
  <2>1. /\ held[c] \in Tasks /\ pc[r] = "idle" /\ r \notin cancelReq
        /\ pc' = [pc EXCEPT ![r] = "created"]
        /\ runTask' = [runTask EXCEPT ![r] = held[c]]
        /\ held' = [held EXCEPT ![c] = NoTask]
        /\ UNCHANGED <<enq, queue, cancelReq>>
    BY <1>3 DEF StartRun, WeakTypes, HandlesAreOwn
  <2>2. CASE held[c] = t
    <3>1. r \in RunsOf(t)' /\ pc'[r] = "created" /\ r \notin cancelReq'
      BY <2>1, <2>2 DEF RunsOf, WeakTypes
    <3> QED
      BY <3>1 DEF InLine
  <2>3. CASE held[c] # t
    <3>1. held[Chan(t)] = t => held'[Chan(t)] = t
      BY <2>1, <2>3, Names DEF WeakTypes
    <3>2. \A s \in RunsOf(t) : pc[s] = "created" => s \in RunsOf(t)' /\ pc'[s] = "created"
      BY <2>1 DEF RunsOf, WeakTypes
    <3> QED
      BY <2>1, <3>1, <3>2 DEF InLine
  <2> QED
    BY <2>2, <2>3
<1> QED
  BY <1>1, <1>2, <1>3

\* A cancel on the loop: the task is FAILED, and no other task loses its place or
\* its execution.
LEMMA CancelKeepsLoop ==
  ASSUME WeakTypes, Assigned, LoopInv, NEW t \in Tasks, CancelTask(t)
  PROVE  \A u \in Tasks : Waits(u)' /\ Works(u)'
<1>1. status'[t] = "FAILED" /\ \A u \in Tasks : u # t => status'[u] = status[u]
  BY SetStatusOf, Names DEF CancelTask, InTable, Active
<1>2. /\ UNCHANGED <<queueVars, pc, runTask, runEpoch, offLoop>>
      /\ \A r \in cancelReq' \ cancelReq : runTask[r] = t
      /\ \A u \in Tasks : u # t => epoch'[u] = epoch[u]
  BY AskReachesOwn DEF CancelTask, AdvanceEpoch, LoopInv, WeakTypes
<1>3. SUFFICES ASSUME NEW u \in Tasks, u # t PROVE Waits(u)' /\ Works(u)'
  BY <1>1 DEF Waits, Works
<1>4. Waits(u) /\ Works(u)
  BY HalvesMean DEF LoopInv
<1>5. Waits(u)'
  <2> SUFFICES ASSUME u \notin offLoop', status'[u] = "PENDING" PROVE InLine(u)'
    BY DEF Waits
  <2>1. InLine(u)
    BY <1>1, <1>2, <1>3, <1>4 DEF Waits
  <2> QED
    BY <1>2, <1>3, <2>1, StaysInLine DEF RunsOf
<1>6. Works(u)'
  BY <1>1, <1>2, <1>3, <1>4 DEF Works, RunsOf, SameEpoch
<1> QED
  BY <1>5, <1>6

\* The executions: one that begins makes its task PROCESSING and may settle it;
\* one that ends without settling it was cut off or cancelled.
LEMMA RunKeepsLoop ==
  ASSUME WeakTypes, Assigned, LoopInv, NEW r \in Runs, StepRun(r)
  PROVE  \A u \in Tasks : Waits(u)' /\ Works(u)'
<1> DEFINE t == runTask[r]
<1> SUFFICES ASSUME NEW u \in Tasks PROVE Waits(u)' /\ Works(u)'
  OBVIOUS
<1>1. Waits(u) /\ Works(u)
  BY HalvesMean DEF LoopInv
<1>2. /\ UNCHANGED <<queueVars, runTask, epoch, cancelReq, offLoop>>
      /\ pc' = [pc EXCEPT ![r] = pc'[r]] /\ pc[r] # "idle" /\ t \in Tasks
  BY DEF StepRun, LoseRun, RunFindsNoTask, BeginRun, ReleaseSlot, FinishRun, CompleteRun,
     FinishCancelled, FailRun, UnwindRun, EndRun, Handling, Assigned, WeakTypes, callVars,
     queueVars
<1>3. \A s \in Runs : s # r => pc'[s] = pc[s]
  BY <1>2 DEF WeakTypes
<1>4. CASE LoseRun(r)
  <2>1. /\ UNCHANGED <<status, runEpoch>> /\ r \in cancelReq /\ pc[r] = "created"
    BY <1>4 DEF LoseRun
  <2>2. Waits(u)'
    BY <1>1, <1>2, <1>3, <2>1, StaysInLine DEF Waits
  <2>3. Works(u)'
    BY <1>1, <1>2, <1>3, <2>1 DEF Works, RunsOf, SameEpoch
  <2> QED
    BY <2>2, <2>3
<1>5. CASE RunFindsNoTask(r)
  <2>1. UNCHANGED <<status, runEpoch>> /\ pc[r] = "created" /\ ~ InTable(t)
    BY <1>5 DEF RunFindsNoTask
  <2>2. Waits(u)'
    BY <1>1, <1>2, <1>3, <2>1, StaysInLine DEF Waits, InTable
  <2>3. Works(u)'
    BY <1>1, <1>2, <1>3, <2>1 DEF Works, RunsOf, SameEpoch, Handling
  <2> QED
    BY <2>2, <2>3
<1>6. CASE BeginRun(r)
  <2>1. /\ pc[r] = "created" /\ pc'[r] = "handling" /\ r \notin cancelReq
        /\ runEpoch' = [runEpoch EXCEPT ![r] = epoch[t]]
        /\ status'[t] = "PROCESSING"
        /\ \A v \in Tasks : v # t => status'[v] = status[v]
    BY <1>2, <1>6, SetStatusOf, Names DEF BeginRun, WeakTypes
  <2>2. runEpoch'[r] = epoch[t] /\ \A s \in Runs : s # r => runEpoch'[s] = runEpoch[s]
    BY <2>1 DEF WeakTypes
  <2>3. CASE u = t
    <3>1. r \in RunsOf(u)' \ cancelReq' /\ pc'[r] \in Handling /\ SameEpoch(r)'
      BY <1>2, <2>1, <2>2, <2>3 DEF RunsOf, Handling, SameEpoch
    <3> QED
      BY <2>1, <2>3, <3>1 DEF Waits, Works
  <2>4. CASE u # t
    <3>1. Waits(u)'
      BY <1>1, <1>2, <1>3, <2>1, <2>4, StaysInLine DEF Waits
    <3>2. Works(u)'
      BY <1>1, <1>2, <1>3, <2>1, <2>2, <2>4 DEF Works, RunsOf, SameEpoch
    <3> QED
      BY <3>1, <3>2
  <2> QED
    BY <2>3, <2>4
<1>7. CASE ReleaseSlot(r)
  <2>1. UNCHANGED <<status, runEpoch>> /\ pc[r] = "handling" /\ pc'[r] = "released"
    BY <1>7 DEF ReleaseSlot, WeakTypes
  <2>2. Waits(u)'
    BY <1>1, <1>2, <1>3, <2>1, StaysInLine DEF Waits
  <2>3. Works(u)'
    BY <1>1, <1>2, <1>3, <2>1 DEF Works, RunsOf, SameEpoch, Handling
  <2> QED
    BY <2>2, <2>3
<1>8. CASE FinishRun(r)
  <2>1. pc[r] \in Handling /\ runEpoch' = runEpoch
    BY <1>8, EndRunShape
  <2>2. CASE SameEpoch(r) /\ \E s \in Terminal : SetStatus(t, s)
    <3>1. PICK s \in Terminal : SetStatus(t, s)
      BY <2>2
    <3>2. /\ \A v \in Tasks : v # t => status'[v] = status[v]
          /\ status'[t] \in Terminal \/ status'[t] \in {"unborn", "cleared"}
      <4>1. s \in Statuses
        BY DEF Statuses
      <4> QED
        BY <1>2, <3>1, <4>1, SetStatusOf DEF InTable
    <3>3. CASE u = t
      BY <3>2, <3>3 DEF Waits, Works, Terminal
    <3>4. CASE u # t
      <4>1. Waits(u)'
        BY <1>1, <1>2, <1>3, <2>1, <3>2, <3>4, StaysInLine DEF Waits
      <4>2. Works(u)'
        BY <1>1, <1>2, <1>3, <2>1, <3>2, <3>4 DEF Works, RunsOf, SameEpoch
      <4> QED
        BY <4>1, <4>2
    <3> QED
      BY <3>3, <3>4
  <2>3. CASE (~ SameEpoch(r) \/ r \in cancelReq) /\ status' = status
    <3>1. Waits(u)'
      <4>1. pc[r] # "created"
        BY <2>1 DEF Handling
      <4> QED
        BY <1>1, <1>2, <1>3, <2>3, <4>1, StaysInLine DEF Waits
    <3>2. Works(u)'
      BY <1>1, <1>2, <1>3, <2>1, <2>3 DEF Works, RunsOf, SameEpoch
    <3> QED
      BY <3>1, <3>2
  <2> QED
    BY <1>8, <2>2, <2>3, EndRunShape
<1> QED
  BY <1>4, <1>5, <1>6, <1>7, <1>8 DEF StepRun

\* The calls of a worker thread touch no task that was left to the loop.
LEMMA OffLoopKeepsLoop ==
  ASSUME WeakTypes, Assigned, LoopInv,
         OffLoopStep \/ \E t \in Tasks : OffLoopCancel(t) \/ OffLoopRetry(t)
  PROVE  \A u \in Tasks : Waits(u)' /\ Works(u)'
<1> SUFFICES ASSUME NEW u \in Tasks, u \notin offLoop' PROVE Waits(u)' /\ Works(u)'
  BY DEF Waits, Works
<1>1. Waits(u) /\ Works(u)
  BY HalvesMean DEF LoopInv
<1>2. /\ UNCHANGED <<queueVars, pc, runTask, runEpoch>>
      /\ u \notin offLoop /\ status'[u] = status[u] /\ epoch'[u] = epoch[u]
      /\ \A r \in cancelReq' \ cancelReq : runTask[r] # u
  <2>1. CASE OffLoopStep
    <3>1. off.task \in Tasks /\ off.task # u /\ offLoop' = offLoop
      BY <2>1 DEF OffLoopStep, OffLoopSignal, OffLoopFail, OffLoopBump, OffLoopRecord,
         Assigned, WeakTypes
    <3>2. CASE OffLoopSignal
      BY <3>1, <3>2, AskReachesOwn DEF OffLoopSignal, LoopInv
    <3>3. CASE OffLoopFail
      BY <3>1, <3>3, SetStatusOf, Names DEF OffLoopFail, runVars
    <3>4. CASE OffLoopBump
      BY <3>1, <3>4 DEF OffLoopBump, AdvanceEpoch, runVars, WeakTypes
    <3>5. CASE OffLoopRecord
      BY <3>1, <3>5 DEF OffLoopRecord, runVars
    <3> QED
      BY <2>1, <3>2, <3>3, <3>4, <3>5 DEF OffLoopStep
  <2>2. ASSUME NEW t \in Tasks, OffLoopCancel(t)
        PROVE  /\ UNCHANGED <<queueVars, pc, runTask, runEpoch>>
               /\ u \notin offLoop /\ status'[u] = status[u] /\ epoch'[u] = epoch[u]
               /\ \A r \in cancelReq' \ cancelReq : runTask[r] # u
    BY <2>2 DEF OffLoopCancel, runVars
  <2>3. ASSUME NEW t \in Tasks, OffLoopRetry(t)
        PROVE  /\ UNCHANGED <<queueVars, pc, runTask, runEpoch>>
               /\ u \notin offLoop /\ status'[u] = status[u] /\ epoch'[u] = epoch[u]
               /\ \A r \in cancelReq' \ cancelReq : runTask[r] # u
    <3>1. t # u /\ u \notin offLoop
      BY <2>3 DEF OffLoopRetry
    <3> QED
      BY <2>3, <3>1, SetStatusOf, Names DEF OffLoopRetry, runVars
  <2> QED
    BY <2>1, <2>2, <2>3
<1>3. Waits(u)'
  BY <1>1, <1>2, StaysInLine DEF Waits
<1>4. Works(u)'
  BY <1>1, <1>2 DEF Works, RunsOf, SameEpoch
<1> QED
  BY <1>3, <1>4

\* One step per action.
LEMMA StepLoopInv ==
  WeakTypes /\ Assigned /\ Routed /\ LoopInv /\ [Next]_vars => LoopInv'
<1> SUFFICES ASSUME WeakTypes, Assigned, Routed, LoopInv, [Next]_vars PROVE LoopInv'
  OBVIOUS
<1>1. HandlesAreOwn'
  BY StepHandles DEF LoopInv
<1> DEFINE G == \A u \in Tasks : Waits(u)' /\ Works(u)'
<1>2. SUFFICES G
  <2>1. (\A u \in Tasks : Waits(u))' /\ (\A u \in Tasks : Works(u))'
    OBVIOUS
  <2>2. LoopPendingIsQueued' /\ LoopProcessingIsLive'
    BY <2>1 DEF LoopPendingIsQueued, LoopProcessingIsLive, Waits, Works
  <2> QED
    BY <1>1, <2>2 DEF LoopInv
<1>3. \A u \in Tasks : Waits(u) /\ Works(u)
  BY HalvesMean DEF LoopInv
<1>4. ASSUME NEW t \in Tasks, CreateTask(t) \/ RetryTask(t)
      PROVE  G
  <2> SUFFICES ASSUME NEW u \in Tasks PROVE Waits(u)' /\ Works(u)'
    OBVIOUS
  <2>1. /\ enq'[t] > 0 /\ \A v \in Tasks : v # t => enq'[v] = enq[v]
        /\ UNCHANGED <<queue, held, pc, runTask, runEpoch, cancelReq, epoch, offLoop>>
    BY <1>4 DEF CreateTask, RetryTask, WeakTypes, runVars, callVars
  <2>2. status'[t] = "PENDING" /\ \A v \in Tasks : v # t => status'[v] = status[v]
    <3>1. CASE CreateTask(t)
      BY <3>1 DEF CreateTask, WeakTypes
    <3>2. CASE RetryTask(t)
      BY <3>2, SetStatusOf, Names DEF RetryTask, InTable
    <3> QED
      BY <1>4, <3>1, <3>2
  <2>3. CASE u = t
    BY <2>1, <2>2, <2>3 DEF Waits, Works, InLine
  <2>4. CASE u # t
    <3>1. InLine(u) => InLine(u)'
      BY <2>1, <2>4 DEF InLine, RunsOf
    <3> QED
      BY <1>3, <2>1, <2>2, <2>4, <3>1 DEF Waits, Works, RunsOf, SameEpoch
  <2> QED
    BY <2>3, <2>4
<1>5. ASSUME \/ \E t \in Tasks : EnqueueTask(t)
             \/ \E c \in Channels : Dequeue(c) \/ \E r \in Runs : StartRun(c, r)
      PROVE  G
  <2> SUFFICES ASSUME NEW u \in Tasks PROVE Waits(u)' /\ Works(u)'
    OBVIOUS
  <2>1. InLine(u) => InLine(u)'
    BY <1>5, QueueKeepsLine DEF LoopInv
  <2>2. /\ UNCHANGED <<status, epoch, runEpoch, cancelReq, offLoop>>
        /\ \A r \in Runs : pc[r] \in Handling => pc'[r] = pc[r] /\ runTask'[r] = runTask[r]
    BY <1>5 DEF EnqueueTask, Dequeue, StartRun, runVars, callVars, Handling, WeakTypes
  <2>3. Works(u)'
    BY <1>3, <2>2 DEF Works, RunsOf, SameEpoch
  <2> QED
    BY <1>3, <2>1, <2>2, <2>3 DEF Waits
<1>6. ASSUME NEW t \in Tasks, CancelTask(t)
      PROVE  G
  BY <1>6, CancelKeepsLoop
<1>7. ASSUME NEW r \in Runs, StepRun(r)
      PROVE  G
  BY <1>7, RunKeepsLoop
<1>8. ASSUME OffLoopStep \/ \E t \in Tasks : OffLoopCancel(t) \/ OffLoopRetry(t)
      PROVE  G
  BY <1>8, OffLoopKeepsLoop
<1>9. CASE ClearCompletedTasks \/ OffLoopClear \/ ClearStep \/ UNCHANGED vars
  <2>1. /\ UNCHANGED <<queueVars, runVars, epoch, offLoop>>
        /\ \A u \in Tasks : status'[u] \in Active => status'[u] = status[u]
    <3>1. CASE OffLoopClear \/ ClearStep
      BY <3>1, ClearDoes DEF Active, WeakTypes
    <3>2. CASE ClearCompletedTasks \/ UNCHANGED vars
      BY <3>2 DEF ClearCompletedTasks, vars, callVars, Active, WeakTypes
    <3> QED
      BY <1>9, <3>1, <3>2
  <2> QED
    BY <1>3, <2>1, StaysInLine DEF Waits, Works, RunsOf, SameEpoch, runVars, Active
<1> HIDE DEF G
<1> QED
  BY <1>4, <1>5, <1>6, <1>7, <1>8, <1>9 DEF Next

----------------------------------------------------------------------------
\* Without cancellation.

\* Nobody calls cancel_task, and retry_task is called on the event loop only;
\* clear_completed_tasks may be called anywhere.
Quiet == MaxCancels = 0 /\ MaxOffLoopCancels = 0 /\ MaxOffLoopRetries = 0

\* Nothing is ever asked to cancel, and no epoch advances.
Calm == /\ cancelReq = {} /\ off.pc = "idle"
        /\ \A t \in Tasks : epoch[t] = 0
        /\ \A r \in Runs : runEpoch[r] = 0

\* At most one item for u stands in a queue.
Once(q, u) == \A i, j \in DOMAIN q : q[i] = u /\ q[j] = u => i = j

Queued(t) == Holds(queue[Chan(t)], t)
LiveRuns(t) == {r \in RunsOf(t) : pc[r] \in Live}

\* A task has one item or one execution, never both and never two.
AtOnePlace(t) ==
  /\ enq[t] <= 1
  /\ Once(queue[Chan(t)], t)
  /\ \A r, s \in LiveRuns(t) : r = s
  /\ enq[t] > 0 => ~ Queued(t) /\ held[Chan(t)] # t /\ LiveRuns(t) = {}
  /\ Queued(t) => held[Chan(t)] # t /\ LiveRuns(t) = {}
  /\ held[Chan(t)] = t => LiveRuns(t) = {}

\* The status says where it is, as long as no clear has taken it off the list.
ShownAs(t) ==
  /\ enq[t] > 0 \/ Queued(t) \/ held[Chan(t)] = t => status[t] \in {"PENDING", "cleared"}
  /\ \A r \in LiveRuns(t) : status[t] \in
       {IF pc[r] = "created" THEN "PENDING" ELSE "PROCESSING", "cleared"}

\* The ledger row is there from the queue to the settling step and no longer, and
\* the history row follows.
OnRecord(t) ==
  t \in Uploads =>
    /\ Queued(t) \/ held[Chan(t)] = t \/ LiveRuns(t) # {}
         => t \in ledger \/ status[t] = "cleared"
    /\ t \in ledger => \/ hist[t] = "queued" /\ status[t] \in {"PENDING", "cleared"}
                       \/ hist[t] = "processing" /\ status[t] \in {"PROCESSING", "cleared"}
    /\ status[t] = "COMPLETED" => hist[t] = "success"
    /\ status[t] = "FAILED" => hist[t] = "failed"

OneItem(t) == AtOnePlace(t) /\ ShownAs(t) /\ OnRecord(t)

QuietInv == Calm /\ \A t \in Tasks : OneItem(t)

\* Nothing has been created yet.
LEMMA InitQuietInv == Init => QuietInv
<1> SUFFICES ASSUME Init PROVE QuietInv
  OBVIOUS
<1>1. Calm
  BY DEF Init, Calm
<1>2. ASSUME NEW t \in Tasks
      PROVE  OneItem(t)
  <2>1. LiveRuns(t) = {}
    BY DEF Init, LiveRuns, RunsOf, Live, Handling
  <2>2. queue[Chan(t)] = <<>> /\ held[Chan(t)] # t /\ enq[t] = 0 /\ status[t] = "unborn" /\ t \notin ledger
    BY Names, TasksAssumption DEF Init
  <2>3. DOMAIN queue[Chan(t)] = {}
    BY <2>2
  <2>4. ~ Queued(t) /\ Once(queue[Chan(t)], t)
    BY <2>3 DEF Queued, Holds, Once
  <2> QED
    BY <2>1, <2>2, <2>4 DEF OneItem, AtOnePlace, ShownAs, OnRecord
<1> QED
  BY <1>1, <1>2 DEF QuietInv

\* asyncio.Queue.put of another task, or of the first item of this one.
LEMMA PutOnce ==
  ASSUME NEW q \in Seq(Tasks), NEW t \in Tasks, NEW u \in Tasks, Once(q, u),
         u = t => ~ Holds(q, u)
  PROVE  Once(Append(q, t), u)
<1>1. /\ DOMAIN Append(q, t) = 1..Len(q) + 1 /\ DOMAIN q = 1..Len(q) /\ Len(q) \in Nat
      /\ \A i \in 1..Len(q) : Append(q, t)[i] = q[i]
      /\ Append(q, t)[Len(q) + 1] = t
  OBVIOUS
<1>2. \A i \in 1..Len(q) + 1 : i \in 1..Len(q) \/ i = Len(q) + 1
  BY <1>1
<1> QED
  BY <1>1, <1>2 DEF Once, Holds

\* asyncio.Queue.get leaves no second item of the task it takes.
LEMMA GetOnce ==
  ASSUME NEW q \in Seq(Tasks), q # <<>>, NEW u \in Tasks, Once(q, u)
  PROVE  Once(Tail(q), u) /\ (u = Head(q) => ~ Holds(Tail(q), u))
<1>1. /\ DOMAIN Tail(q) = 1..Len(q) - 1 /\ DOMAIN q = 1..Len(q)
      /\ Len(q) \in Nat /\ Len(q) > 0
      /\ \A i \in 1..Len(q) - 1 : Tail(q)[i] = q[i + 1]
      /\ Head(q) = q[1]
  OBVIOUS
<1>2. /\ 1 \in 1..Len(q)
      /\ \A i \in 1..Len(q) - 1 : i + 1 \in 1..Len(q) /\ i + 1 # 1
      /\ \A i, j \in 1..Len(q) - 1 : i + 1 = j + 1 => i = j
  BY <1>1
<1>3. ASSUME NEW i \in DOMAIN Tail(q), NEW j \in DOMAIN Tail(q), Tail(q)[i] = u, Tail(q)[j] = u
      PROVE  i = j
  BY <1>1, <1>2, <1>3 DEF Once
<1>4. ASSUME u = Head(q), NEW i \in DOMAIN Tail(q), Tail(q)[i] = u
      PROVE  FALSE
  BY <1>1, <1>2, <1>4 DEF Once
<1> QED
  BY <1>3, <1>4 DEF Once, Holds

\* A step that leaves the place and the rows of a task alone.
LEMMA ItemFrame ==
  ASSUME NEW t \in Tasks, OneItem(t),
         status'[t] = status[t], enq'[t] = enq[t],
         Queued(t)' <=> Queued(t), Once(queue[Chan(t)], t)',
         held'[Chan(t)] = t <=> held[Chan(t)] = t,
         LiveRuns(t)' = LiveRuns(t), \A r \in LiveRuns(t) : pc'[r] = pc[r],
         t \in ledger' <=> t \in ledger, hist'[t] = hist[t]
  PROVE  OneItem(t)'
BY DEF OneItem, AtOnePlace, ShownAs, OnRecord

\* The executions of a task that a step on another execution leaves alone.
LEMMA OtherRuns ==
  ASSUME WeakTypes, NEW t \in Tasks, NEW r \in Runs, runTask[r] # t, NEW o \in Stages,
         pc' = [pc EXCEPT ![r] = o], runTask' = runTask
  PROVE  LiveRuns(t)' = LiveRuns(t) /\ \A s \in LiveRuns(t) : pc'[s] = pc[s]
BY DEF WeakTypes, LiveRuns, RunsOf

\* How an execution ends that nobody cancelled.
SettleRun(r) ==
  /\ pc[r] \in Handling
  /\ \E s \in Terminal :
       /\ SetStatus(runTask[r], s)
       /\ MarkHistory(runTask[r], IF s = "COMPLETED" THEN "success" ELSE "failed")
  /\ \E o \in {"ended", "completed"} : EndRun(r, o)

\* The steps that are left when nobody cancels.
QuietStep ==
  \/ \E t \in Tasks : CreateTask(t) \/ EnqueueTask(t) \/ RetryTask(t)
  \/ ClearCompletedTasks \/ OffLoopClear \/ ClearStep
  \/ \E c \in Channels : Dequeue(c) \/ \E r \in Runs : StartRun(c, r)
  \/ \E r \in Runs : BeginRun(r) \/ ReleaseSlot(r) \/ SettleRun(r) \/ RunFindsNoTask(r)
  \/ UNCHANGED vars

\* No execution is lost or finishes behind the epoch.
LEMMA QuietSteps ==
  ASSUME Quiet, WeakTypes, Assigned, QuietInv, [Next]_vars
  PROVE  QuietStep
<1>1. \A r \in Runs : ~ LoseRun(r)
  BY DEF QuietInv, Calm, LoseRun
<1>3. \A t \in Tasks : ~ CancelTask(t) /\ ~ OffLoopCancel(t) /\ ~ OffLoopRetry(t)
  <2>1. \A k \in CallKinds : calls[k] \in Nat
    BY DEF WeakTypes
  <2> QED
    BY <2>1, Names DEF Quiet, CancelTask, OffLoopCancel, OffLoopRetry
<1>4. ~ OffLoopStep
  BY DEF QuietInv, Calm, OffLoopStep, OffLoopSignal, OffLoopFail, OffLoopBump, OffLoopRecord
<1>5. ASSUME NEW r \in Runs, FinishRun(r)
      PROVE  SettleRun(r)
  <2>1. pc[r] \in Handling /\ runTask[r] \in Tasks
    BY <1>5, EndRunShape DEF Assigned, Handling
  <2>2. SameEpoch(r) /\ r \notin cancelReq
    BY <2>1 DEF QuietInv, Calm, SameEpoch
  <2>3. CASE CompleteRun(r)
    BY <2>1, <2>3 DEF CompleteRun, SettleRun, Terminal
  <2>4. CASE FailRun(r)
    BY <2>1, <2>2, <2>4 DEF FailRun, SettleRun, Terminal
  <2> QED
    BY <1>5, <2>2, <2>3, <2>4 DEF FinishRun, FinishCancelled, UnwindRun
<1> QED
  BY <1>1, <1>3, <1>4, <1>5 DEF Next, StepRun, QuietStep

\* Every epoch stays 0.
LEMMA StepCalm ==
  ASSUME WeakTypes, Assigned, Calm, QuietStep
  PROVE  Calm'
<1>1. ASSUME NEW r \in Runs, BeginRun(r)
      PROVE  Calm'
  <2>1. runTask[r] \in Tasks
    BY <1>1 DEF BeginRun, Assigned
  <2>2. /\ UNCHANGED <<epoch, cancelReq, off>>
        /\ runEpoch' = [runEpoch EXCEPT ![r] = 0]
    BY <1>1, <2>1 DEF BeginRun, Calm, callVars
  <2> QED
    BY <2>2 DEF Calm, WeakTypes
<1>2. ASSUME UNCHANGED <<epoch, runEpoch, cancelReq, off>>
      PROVE  Calm'
  BY <1>2 DEF Calm
<1>3. ASSUME NEW t \in Tasks, CreateTask(t) \/ EnqueueTask(t) \/ RetryTask(t)
      PROVE  Calm'
  BY <1>2, <1>3 DEF CreateTask, EnqueueTask, RetryTask, runVars, callVars
<1>4. ASSUME NEW c \in Channels, Dequeue(c) \/ \E r \in Runs : StartRun(c, r)
      PROVE  Calm'
  BY <1>2, <1>4 DEF Dequeue, StartRun, runVars, callVars
<1>5. ASSUME NEW r \in Runs, ReleaseSlot(r) \/ SettleRun(r) \/ RunFindsNoTask(r)
      PROVE  Calm'
  BY <1>2, <1>5 DEF ReleaseSlot, SettleRun, RunFindsNoTask, EndRun, callVars
<1>7. CASE OffLoopClear \/ ClearStep
  BY <1>2, <1>7, ClearDoes DEF runVars
<1>6. CASE ClearCompletedTasks \/ UNCHANGED vars
  BY <1>2, <1>6 DEF ClearCompletedTasks, vars, runVars, callVars
<1> QED
  BY <1>1, <1>3, <1>4, <1>5, <1>6, <1>7 DEF QuietStep

\* create_task and retry_task schedule one item for a task that has none.
LEMMA ScheduleKeepsItems ==
  ASSUME WeakTypes, \A u \in Tasks : OneItem(u),
         NEW t \in Tasks, CreateTask(t) \/ RetryTask(t)
  PROVE  \A u \in Tasks : OneItem(u)'
<1>1. /\ status[t] \in {"unborn", "FAILED"} /\ status'[t] = "PENDING"
      /\ \A u \in Tasks : u # t => status'[u] = status[u]
  <2>1. CASE CreateTask(t)
    BY <2>1 DEF CreateTask, WeakTypes
  <2>2. CASE RetryTask(t)
    BY <2>2, SetStatusOf, Names DEF RetryTask, InTable
  <2> QED
    BY <2>1, <2>2
<1>2. /\ enq' = [enq EXCEPT ![t] = @ + 1] /\ enq \in [Tasks -> Nat]
      /\ UNCHANGED <<queue, held, pc, runTask, ledger, hist>>
  BY DEF CreateTask, RetryTask, WeakTypes, runVars, durable
<1>3. OneItem(t)'
  <2>1. /\ enq[t] = 0 /\ ~ Queued(t) /\ held[Chan(t)] # t /\ LiveRuns(t) = {}
        /\ t \notin ledger /\ Once(queue[Chan(t)], t)
    <3>1. enq[t] \in Nat
      BY <1>2
    <3>2. ~ (enq[t] > 0) /\ ~ Queued(t) /\ held[Chan(t)] # t /\ LiveRuns(t) = {}
      BY <1>1 DEF OneItem, ShownAs
    <3>3. t \notin ledger
      BY <1>1 DEF OneItem, OnRecord, WeakTypes
    <3> QED
      BY <3>1, <3>2, <3>3 DEF OneItem, AtOnePlace
  <2>2. enq'[t] = 1
    BY <1>2, <2>1
  <2>3. /\ ~ Queued(t)' /\ held'[Chan(t)] # t /\ LiveRuns(t)' = {} /\ t \notin ledger'
        /\ Once(queue[Chan(t)], t)'
    BY <1>2, <2>1 DEF Queued, LiveRuns, RunsOf
  <2> QED
    BY <1>1, <2>2, <2>3 DEF OneItem, AtOnePlace, ShownAs, OnRecord
<1>4. ASSUME NEW u \in Tasks, u # t
      PROVE  OneItem(u)'
  <2>1. /\ OneItem(u) /\ status'[u] = status[u] /\ enq'[u] = enq[u]
        /\ (Queued(u)' <=> Queued(u)) /\ Once(queue[Chan(u)], u)'
        /\ held'[Chan(u)] = held[Chan(u)] /\ LiveRuns(u)' = LiveRuns(u)
    BY <1>1, <1>2, <1>4 DEF Queued, LiveRuns, RunsOf, OneItem, AtOnePlace
  <2> QED
    BY <1>2, <2>1, ItemFrame
<1> QED
  BY <1>3, <1>4

\* _enqueue_task moves the item into the queue, after the two rows.
LEMMA EnqueueKeepsItems ==
  ASSUME WeakTypes, \A u \in Tasks : OneItem(u), NEW t \in Tasks, EnqueueTask(t)
  PROVE  \A u \in Tasks : OneItem(u)'
<1>1. /\ enq[t] > 0 /\ enq' = [enq EXCEPT ![t] = @ - 1] /\ enq \in [Tasks -> Nat]
      /\ UNCHANGED <<status, held, pc, runTask>>
      /\ \A u \in Tasks : queue[Chan(u)] \in Seq(Tasks)
      /\ \A u \in Tasks : queue'[Chan(u)] = IF Chan(u) = Chan(t) THEN Append(queue[Chan(u)], t)
                                                                 ELSE queue[Chan(u)]
  BY Names DEF EnqueueTask, WeakTypes, runVars
<1>2. OneItem(t)'
  <2>1. /\ enq[t] = 1 /\ ~ Queued(t) /\ held[Chan(t)] # t /\ LiveRuns(t) = {}
        /\ Once(queue[Chan(t)], t) /\ status[t] \in {"PENDING", "cleared"}
    BY <1>1 DEF OneItem, AtOnePlace, ShownAs
  <2>2. /\ enq'[t] = 0 /\ held'[Chan(t)] # t /\ LiveRuns(t)' = {}
        /\ status'[t] = status[t]
    BY <1>1, <2>1 DEF LiveRuns, RunsOf
  <2>3. Queued(t)' /\ Once(queue[Chan(t)], t)'
    <3> DEFINE q == queue[Chan(t)]
    <3>1. queue'[Chan(t)] = Append(q, t) /\ q \in Seq(Tasks) /\ Once(q, t) /\ ~ Holds(q, t)
      BY <1>1, <2>1 DEF Queued
    <3> HIDE DEF q
    <3> QED
      BY <3>1, PutHolds, PutOnce DEF Queued
  <2>4. t \in Uploads => IF status[t] = "PENDING"
                         THEN t \in ledger' /\ hist'[t] = "queued"
                         ELSE (t \in ledger' <=> t \in ledger) /\ hist'[t] = hist[t]
    BY <2>1 DEF EnqueueTask, PersistUpload, InTable, WeakTypes, durable
  <2>5. OnRecord(t)
    BY DEF OneItem
  <2> QED
    BY <2>1, <2>2, <2>3, <2>4, <2>5 DEF OneItem, AtOnePlace, ShownAs, OnRecord
<1>3. ASSUME NEW u \in Tasks, u # t
      PROVE  OneItem(u)'
  <2>1. enq'[u] = enq[u] /\ LiveRuns(u)' = LiveRuns(u)
    BY <1>1, <1>3 DEF LiveRuns, RunsOf
  <2>2. (Queued(u)' <=> Queued(u)) /\ Once(queue[Chan(u)], u)'
    <3> DEFINE q == queue[Chan(u)]
    <3>1. q \in Seq(Tasks) /\ Once(q, u) /\ (queue'[Chan(u)] = Append(q, t) \/ queue'[Chan(u)] = q)
      BY <1>1 DEF OneItem, AtOnePlace
    <3>2. /\ Queued(u) <=> Holds(q, u)
          /\ Queued(u)' <=> Holds(queue'[Chan(u)], u)
      BY DEF Queued
    <3> HIDE DEF q
    <3>3. CASE queue'[Chan(u)] = Append(q, t)
      <4>1. Holds(Append(q, t), u) <=> Holds(q, u)
        BY <1>3, <3>1, PutHolds
      <4>2. Once(Append(q, t), u)
        BY <1>3, <3>1, PutOnce
      <4> QED
        BY <3>2, <3>3, <4>1, <4>2
    <3>4. CASE queue'[Chan(u)] = q
      BY <3>1, <3>2, <3>4
    <3> QED
      BY <3>1, <3>3, <3>4
  <2>3. hist'[u] = hist[u] /\ (u \in ledger' <=> u \in ledger)
    BY <1>3 DEF EnqueueTask, PersistUpload, durable, WeakTypes
  <2> QED
    BY <1>1, <2>1, <2>2, <2>3, ItemFrame
<1> QED
  BY <1>2, <1>3

\* A processor takes the item out of the queue.
LEMMA DequeueKeepsItems ==
  ASSUME WeakTypes, Routed, \A u \in Tasks : OneItem(u), NEW c \in Channels, Dequeue(c)
  PROVE  \A u \in Tasks : OneItem(u)'
<1>0. PICK h \in Tasks : h = Head(queue[c])
  BY DEF Dequeue, WeakTypes
<1>1. /\ queue[c] # <<>> /\ queue[c] \in Seq(Tasks) /\ held[c] = NoTask
      /\ queue' = [queue EXCEPT ![c] = Tail(queue[c])]
      /\ held' = [held EXCEPT ![c] = h]
      /\ UNCHANGED <<status, enq, pc, runTask, ledger, hist>>
  BY <1>0 DEF Dequeue, WeakTypes, runVars, durable
<1>2. Chan(h) = c
  <2>1. h = queue[c][1] /\ 1 \in 1..Len(queue[c])
    BY <1>0, <1>1
  <2> QED
    BY <2>1 DEF Routed
<1>3. ASSUME NEW u \in Tasks, Chan(u) = c
      PROVE  /\ Once(queue[Chan(u)], u)'
             /\ Queued(u) <=> u = h \/ Queued(u)'
             /\ u = h => ~ Queued(u)'
             /\ held'[Chan(u)] = h /\ held[Chan(u)] # u
  <2> DEFINE q == queue[Chan(u)]
  <2>1. q \in Seq(Tasks) /\ q # <<>> /\ Once(q, u) /\ queue'[Chan(u)] = Tail(q) /\ h = Head(q)
    BY <1>0, <1>1, <1>3 DEF OneItem, AtOnePlace, WeakTypes
  <2>2. Queued(u) <=> Holds(q, u)
    BY DEF Queued
  <2>3. held'[Chan(u)] = h /\ held[Chan(u)] # u
    BY <1>1, <1>3, TasksAssumption DEF WeakTypes
  <2> HIDE DEF q
  <2> QED
    BY <2>1, <2>2, <2>3, GetHolds, GetOnce DEF Queued
<1>4. \A u \in Tasks : LiveRuns(u)' = LiveRuns(u)
  BY <1>1 DEF LiveRuns, RunsOf
<1>5. OneItem(h)'
  <2>1. Queued(h) /\ ~ Queued(h)' /\ Once(queue[Chan(h)], h)' /\ OneItem(h) /\ held'[Chan(h)] = h
    BY <1>2, <1>3
  <2>2. ~ (enq[h] > 0) /\ LiveRuns(h) = {} /\ status[h] \in {"PENDING", "cleared"}
    BY <2>1 DEF OneItem, AtOnePlace, ShownAs
  <2>3. /\ enq'[h] = enq[h] /\ LiveRuns(h)' = {} /\ status'[h] = status[h]
        /\ ledger' = ledger /\ hist' = hist
    BY <1>1, <1>2, <1>4, <2>2
  <2> QED
    BY <2>1, <2>2, <2>3 DEF OneItem, AtOnePlace, ShownAs, OnRecord
<1>6. ASSUME NEW u \in Tasks, u # h
      PROVE  OneItem(u)'
  <2>1. /\ Once(queue[Chan(u)], u)' /\ (Queued(u)' <=> Queued(u))
        /\ (held'[Chan(u)] = u <=> held[Chan(u)] = u)
    <3>1. CASE Chan(u) = c
      BY <1>3, <1>6, <3>1
    <3>2. CASE Chan(u) # c
      <4>1. queue'[Chan(u)] = queue[Chan(u)] /\ held'[Chan(u)] = held[Chan(u)]
        BY <1>1, <3>2, Names DEF WeakTypes
      <4> QED
        BY <4>1 DEF Queued, OneItem, AtOnePlace
    <3> QED
      BY <3>1, <3>2
  <2>2. OneItem(u) /\ LiveRuns(u)' = LiveRuns(u)
    BY <1>4
  <2> QED
    BY <1>1, <2>1, <2>2, ItemFrame
<1> QED
  BY <1>5, <1>6

\* A processor that has a slot turns the item it holds into an execution.
LEMMA StartKeepsItems ==
  ASSUME WeakTypes, Assigned, Routed, \A u \in Tasks : OneItem(u),
         NEW c \in Channels, NEW r \in Runs, StartRun(c, r)
  PROVE  \A u \in Tasks : OneItem(u)'
<1>0. PICK h \in Tasks : h = held[c]
  BY DEF StartRun, WeakTypes
<1>1. /\ Chan(h) = c /\ pc[r] = "idle"
      /\ held' = [held EXCEPT ![c] = NoTask]
      /\ pc' = [pc EXCEPT ![r] = "created"]
      /\ runTask' = [runTask EXCEPT ![r] = h]
      /\ UNCHANGED <<status, enq, queue, ledger, hist>>
  BY <1>0 DEF StartRun, WeakTypes, Routed, durable
<1>2. \A u \in Tasks : Queued(u)' <=> Queued(u)
  BY <1>1 DEF Queued
<1>3. \A u \in Tasks : (held'[Chan(u)] = u <=> held[Chan(u)] = u /\ u # h)
  BY <1>0, <1>1, Names, TasksAssumption DEF WeakTypes
<1>4. pc'[r] = "created" /\ \A s \in Runs : s # r => pc'[s] = pc[s] /\ runTask'[s] = runTask[s]
  BY <1>1 DEF WeakTypes
<1>5. OneItem(h)'
  <2>1. OneItem(h) /\ held[Chan(h)] = h
    BY <1>0, <1>1
  <2>2. /\ ~ (enq[h] > 0) /\ ~ Queued(h) /\ LiveRuns(h) = {}
        /\ status[h] \in {"PENDING", "cleared"}
        /\ Once(queue[Chan(h)], h)
    BY <2>1 DEF OneItem, AtOnePlace, ShownAs
  <2>3. LiveRuns(h)' = {r}
    <3>1. r \in LiveRuns(h)'
      BY <1>1, <1>4 DEF LiveRuns, RunsOf, Live, WeakTypes
    <3>2. ASSUME NEW s \in LiveRuns(h)', s # r
          PROVE  FALSE
      <4>1. s \in LiveRuns(h)
        BY <1>4, <3>2, <1>1 DEF LiveRuns, RunsOf
      <4> QED
        BY <2>2, <4>1
    <3> QED
      BY <3>1, <3>2
  <2>4. h \in Uploads => h \in ledger \/ status[h] = "cleared"
    BY <2>1, <2>2 DEF OneItem, OnRecord
  <2>5. /\ ~ (enq'[h] > 0) /\ enq'[h] <= 1 /\ ~ Queued(h)' /\ held'[Chan(h)] # h
        /\ status'[h] = status[h] /\ Once(queue[Chan(h)], h)'
    BY <1>1, <1>2, <1>3, <2>1, <2>2 DEF OneItem, AtOnePlace
  <2> QED
    BY <1>1, <1>4, <2>1, <2>2, <2>3, <2>4, <2>5 DEF OneItem, AtOnePlace, ShownAs, OnRecord
<1>6. ASSUME NEW u \in Tasks, u # h
      PROVE  OneItem(u)'
  <2>1. r \notin LiveRuns(u)' /\ r \notin LiveRuns(u)
    BY <1>1, <1>6 DEF LiveRuns, RunsOf, WeakTypes, Live, Handling
  <2>2. LiveRuns(u)' = LiveRuns(u) /\ \A s \in LiveRuns(u) : pc'[s] = pc[s]
    BY <1>4, <2>1 DEF LiveRuns, RunsOf
  <2>3. OneItem(u) /\ (held'[Chan(u)] = u <=> held[Chan(u)] = u)
    BY <1>3, <1>6
  <2>4. Once(queue[Chan(u)], u)'
    BY <1>1, <2>3 DEF OneItem, AtOnePlace
  <2> QED
    BY <1>1, <1>2, <2>2, <2>3, <2>4, ItemFrame
<1> QED
  BY <1>5, <1>6

\* What a task with an execution under way has, and has not.
LEMMA OneRun ==
  ASSUME WeakTypes, Assigned, \A u \in Tasks : OneItem(u), NEW r \in Runs, pc[r] \in Live
  PROVE  LET t == runTask[r] IN
           /\ t \in Tasks /\ LiveRuns(t) = {r} /\ ~ (enq[t] > 0) /\ ~ Queued(t)
           /\ held[Chan(t)] # t /\ enq[t] <= 1 /\ Once(queue[Chan(t)], t)
           /\ status[t] \in {IF pc[r] = "created" THEN "PENDING" ELSE "PROCESSING", "cleared"}
           /\ t \in Uploads /\ status[t] # "cleared" =>
                /\ t \in ledger
                /\ hist[t] = IF pc[r] = "created" THEN "queued" ELSE "processing"
<1> DEFINE t == runTask[r]
<1>1. t \in Tasks
  BY DEF Assigned, Live, Handling
<1>2. r \in LiveRuns(t)
  BY DEF LiveRuns, RunsOf
<1>3. OneItem(t)
  BY <1>1
<1> HIDE DEF t
<1>4. /\ LiveRuns(t) = {r} /\ ~ (enq[t] > 0) /\ ~ Queued(t)
      /\ held[Chan(t)] # t /\ enq[t] <= 1 /\ Once(queue[Chan(t)], t)
  BY <1>2, <1>3 DEF OneItem, AtOnePlace
<1>5. status[t] \in {IF pc[r] = "created" THEN "PENDING" ELSE "PROCESSING", "cleared"}
  BY <1>2, <1>3 DEF OneItem, ShownAs
<1>6. t \in Uploads /\ status[t] # "cleared" =>
        /\ t \in ledger
        /\ hist[t] = IF pc[r] = "created" THEN "queued" ELSE "processing"
  BY <1>2, <1>3, <1>5 DEF OneItem, OnRecord
<1> QED
  BY <1>1, <1>4, <1>5, <1>6 DEF t

\* An execution begins or hands its slot back: it stays the only one.
LEMMA RunKeepsItems ==
  ASSUME WeakTypes, Assigned, \A u \in Tasks : OneItem(u),
         NEW r \in Runs, BeginRun(r) \/ ReleaseSlot(r)
  PROVE  \A u \in Tasks : OneItem(u)'
<1>0. PICK t \in Tasks : t = runTask[r]
  BY DEF BeginRun, ReleaseSlot, Assigned
<1>1. /\ pc[r] \in Live /\ pc'[r] \in Handling /\ UNCHANGED <<queueVars, runTask, ledger>>
      /\ \E o \in Stages : pc' = [pc EXCEPT ![r] = o]
  BY Names DEF BeginRun, ReleaseSlot, Live, Handling, WeakTypes, durable
<1>2. /\ LiveRuns(t) = {r} /\ ~ (enq[t] > 0) /\ ~ Queued(t)
      /\ held[Chan(t)] # t /\ enq[t] <= 1 /\ Once(queue[Chan(t)], t)
      /\ status[t] \in {IF pc[r] = "created" THEN "PENDING" ELSE "PROCESSING", "cleared"}
      /\ t \in Uploads /\ status[t] # "cleared" =>
           /\ t \in ledger
           /\ hist[t] = IF pc[r] = "created" THEN "queued" ELSE "processing"
  BY <1>0, <1>1, OneRun
<1>3. /\ \/ status'[t] = "PROCESSING" /\ (t \in Uploads => hist'[t] = "processing")
         \/ status[t] = "cleared" /\ status'[t] = "cleared" /\ hist'[t] = hist[t]
      /\ t \in Uploads => t \in ledger \/ status'[t] = "cleared"
      /\ \A u \in Tasks : u # t => status'[u] = status[u] /\ hist'[u] = hist[u]
  <2>1. CASE BeginRun(r)
    <3>0. status[t] = "PENDING" /\ InTable(t)
      BY <1>0, <1>2, <2>1 DEF BeginRun, InTable
    <3>1. status'[t] = "PROCESSING" /\ \A u \in Tasks : u # t => status'[u] = status[u]
      BY <1>0, <2>1, <3>0, SetStatusOf, Names DEF BeginRun
    <3>2. pc[r] = "created" /\ MarkHistory(t, "processing")
      BY <1>0, <2>1 DEF BeginRun
    <3>3. (t \in Uploads => hist'[t] = "processing") /\ \A u \in Tasks : u # t => hist'[u] = hist[u]
      BY <1>2, <3>0, <3>2 DEF MarkHistory, WeakTypes
    <3> QED
      BY <1>2, <3>0, <3>1, <3>3
  <2>2. CASE ReleaseSlot(r)
    BY <1>2, <2>2 DEF ReleaseSlot, durable
  <2> QED
    BY <2>1, <2>2
<1>4. OneItem(t)'
  <2>1. LiveRuns(t)' = {r}
    <3>1. LiveRuns(t)' = LiveRuns(t)
      BY <1>0, <1>1, <1>2 DEF LiveRuns, RunsOf, WeakTypes, Live
    <3> QED
      BY <1>2, <3>1
  <2>2. /\ ~ (enq'[t] > 0) /\ ~ Queued(t)' /\ held'[Chan(t)] # t /\ enq'[t] <= 1
        /\ Once(queue[Chan(t)], t)' /\ ledger' = ledger
    BY <1>1, <1>2 DEF queueVars, Queued
  <2>3. pc'[r] # "created"
    BY <1>1 DEF Handling
  <2>4. OnRecord(t)
    BY DEF OneItem
  <2> QED
    BY <1>3, <2>1, <2>2, <2>3, <2>4 DEF OneItem, AtOnePlace, ShownAs, OnRecord
<1>5. ASSUME NEW u \in Tasks, u # t
      PROVE  OneItem(u)'
  <2>1. LiveRuns(u)' = LiveRuns(u) /\ \A s \in LiveRuns(u) : pc'[s] = pc[s]
    BY <1>0, <1>1, <1>5, OtherRuns
  <2>2. OneItem(u) /\ (Queued(u)' <=> Queued(u)) /\ enq' = enq /\ held' = held
    BY <1>1 DEF queueVars, Queued
  <2>3. Once(queue[Chan(u)], u)'
    BY <1>1, <2>2 DEF OneItem, AtOnePlace, queueVars
  <2> QED
    BY <1>1, <1>3, <1>5, <2>1, <2>2, <2>3, ItemFrame
<1> QED
  BY <1>4, <1>5

\* What settling a task does to its status, its ledger row and its history row;
\* the status of a task that was cleared meanwhile stays as it is.
LEMMA SettleShape ==
  ASSUME WeakTypes, Assigned, \A u \in Tasks : OneItem(u), NEW r \in Runs, SettleRun(r)
  PROVE  LET t == runTask[r] IN
           /\ t \in Tasks
           /\ \/ status[t] = "cleared" /\ status' = status
              \/ /\ status[t] = "PROCESSING"
                 /\ \E s \in Terminal :
                      /\ status' = [status EXCEPT ![t] = s]
                      /\ t \in Uploads =>
                           hist'[t] = IF s = "COMPLETED" THEN "success" ELSE "failed"
           /\ ledger' = ledger \ {t}
           /\ \A u \in Tasks : u # t => hist'[u] = hist[u]
<1> DEFINE t == runTask[r]
<1>1. pc[r] \in Live /\ pc[r] # "created"
  BY DEF SettleRun, Live, Handling
<1>2. /\ t \in Tasks /\ status[t] \in {"PROCESSING", "cleared"}
      /\ t \in Uploads /\ status[t] # "cleared" => hist[t] = "processing"
  BY <1>1, OneRun
<1>3. ledger' = ledger \ {t}
  BY DEF SettleRun, EndRun, GiveBack
<1> HIDE DEF t
<1>4. PICK s \in Terminal : /\ SetStatus(t, s)
                            /\ MarkHistory(t, IF s = "COMPLETED" THEN "success" ELSE "failed")
  BY DEF SettleRun, t
<1>5. status' = IF status[t] = "cleared" THEN status ELSE [status EXCEPT ![t] = s]
  BY <1>2, <1>4 DEF SetStatus, InTable
<1>6. /\ t \in Uploads /\ status[t] # "cleared" =>
           hist'[t] = IF s = "COMPLETED" THEN "success" ELSE "failed"
      /\ \A u \in Tasks : u # t => hist'[u] = hist[u]
  BY <1>2, <1>4 DEF MarkHistory, WeakTypes
<1> QED
  BY <1>2, <1>3, <1>4, <1>5, <1>6 DEF t

\* An execution ends, whether it settles its task or finds it cleared, and is gone.
LEMMA SettleKeepsItems ==
  ASSUME WeakTypes, Assigned, \A u \in Tasks : OneItem(u),
         NEW r \in Runs, SettleRun(r) \/ RunFindsNoTask(r)
  PROVE  \A u \in Tasks : OneItem(u)'
<1>0. PICK t \in Tasks : t = runTask[r]
  BY SettleShape DEF RunFindsNoTask, Assigned
<1>1. /\ pc[r] \in Live /\ UNCHANGED <<queueVars, runTask>>
      /\ \E o \in {"ended", "completed"} : pc' = [pc EXCEPT ![r] = o]
  BY DEF SettleRun, RunFindsNoTask, EndRun, Live
<1>2. /\ LiveRuns(t) = {r} /\ ~ (enq[t] > 0) /\ ~ Queued(t)
      /\ held[Chan(t)] # t /\ enq[t] <= 1 /\ Once(queue[Chan(t)], t)
      /\ status[t] \in {"PENDING", "PROCESSING", "cleared"}
  BY <1>0, <1>1, OneRun
<1>3. \/ status[t] = "cleared" /\ status'[t] = "cleared"
      \/ \E s \in Terminal :
           /\ status'[t] = s
           /\ t \in Uploads => hist'[t] = IF s = "COMPLETED" THEN "success" ELSE "failed"
  <2>1. CASE SettleRun(r)
    BY <1>0, <2>1, SettleShape DEF WeakTypes
  <2>2. CASE RunFindsNoTask(r)
    BY <1>0, <1>2, <2>2 DEF RunFindsNoTask, InTable
  <2> QED
    BY <2>1, <2>2
<1>4. ledger' = ledger \ {t} /\ \A u \in Tasks : u # t => hist'[u] = hist[u]
  BY <1>0, SettleShape DEF RunFindsNoTask, GiveBack
<1>5. \A u \in Tasks : u # t => status'[u] = status[u]
  BY <1>0, SettleShape DEF RunFindsNoTask, WeakTypes
<1>6. OneItem(t)'
  <2>1. LiveRuns(t)' = {}
    <3>1. pc'[r] \notin Live
      BY <1>1 DEF WeakTypes, Live, Handling
    <3>2. \A q \in Runs : q # r => pc'[q] = pc[q]
      BY <1>1 DEF WeakTypes
    <3>3. LiveRuns(t)' \subseteq LiveRuns(t) \ {r}
      BY <1>1, <3>1, <3>2 DEF LiveRuns, RunsOf
    <3> QED
      BY <1>2, <3>3
  <2>2. /\ ~ (enq'[t] > 0) /\ ~ Queued(t)' /\ held'[Chan(t)] # t /\ enq'[t] <= 1
        /\ Once(queue[Chan(t)], t)' /\ t \notin ledger'
    BY <1>1, <1>2, <1>4 DEF queueVars, Queued
  <2> QED
    BY <1>3, <2>1, <2>2 DEF OneItem, AtOnePlace, ShownAs, OnRecord, Terminal
<1>7. ASSUME NEW u \in Tasks, u # t
      PROVE  OneItem(u)'
  <2>1. LiveRuns(u)' = LiveRuns(u) /\ \A q \in LiveRuns(u) : pc'[q] = pc[q]
    BY <1>0, <1>1, <1>7, OtherRuns, Names
  <2>2. OneItem(u) /\ (Queued(u)' <=> Queued(u)) /\ enq' = enq /\ held' = held
    BY <1>1 DEF queueVars, Queued
  <2>3. Once(queue[Chan(u)], u)'
    BY <1>1, <2>2 DEF OneItem, AtOnePlace, queueVars
  <2>4. u \in ledger' <=> u \in ledger
    BY <1>4, <1>7
  <2> QED
    BY <1>4, <1>5, <1>7, <2>1, <2>2, <2>3, <2>4, ItemFrame
<1> QED
  BY <1>6, <1>7

\* A task that a clear drops takes neither its item nor its rows along.
LEMMA ClearKeepsItems ==
  ASSUME WeakTypes, \A u \in Tasks : OneItem(u),
         ClearCompletedTasks \/ OffLoopClear \/ ClearStep \/ UNCHANGED vars
  PROVE  \A u \in Tasks : OneItem(u)'
<1> SUFFICES ASSUME NEW u \in Tasks PROVE OneItem(u)'
  OBVIOUS
<1>1. /\ UNCHANGED <<enq, queue, held, pc, runTask, ledger, hist>>
      /\ status'[u] = status[u] \/ status'[u] = "cleared"
  <2>1. CASE OffLoopClear \/ ClearStep
    BY <2>1, ClearDoes DEF queueVars, runVars, durable, WeakTypes
  <2>2. CASE ClearCompletedTasks \/ UNCHANGED vars
    BY <2>2 DEF ClearCompletedTasks, vars, queueVars, runVars, durable
  <2> QED
    BY <2>1, <2>2
<1>2. LiveRuns(u)' = LiveRuns(u) /\ (Queued(u)' <=> Queued(u)) /\ OneItem(u)
      /\ Once(queue[Chan(u)], u)'
  BY <1>1 DEF LiveRuns, RunsOf, Queued, OneItem, AtOnePlace
<1>3. CASE status'[u] = status[u]
  BY <1>1, <1>2, <1>3, ItemFrame
<1>4. CASE status'[u] = "cleared"
  BY <1>1, <1>2, <1>4 DEF OneItem, AtOnePlace, ShownAs, OnRecord
<1> QED
  BY <1>1, <1>3, <1>4

\* One lemma per kind of step.
LEMMA StepQuietInv ==
  ASSUME Quiet, WeakTypes, Assigned, Routed, QuietInv, [Next]_vars
  PROVE  QuietInv'
<1>1. QuietStep
  BY QuietSteps
<1>2. Calm'
  BY <1>1, StepCalm DEF QuietInv
<1>3. \A u \in Tasks : OneItem(u)
  BY DEF QuietInv
<1>4. \A u \in Tasks : OneItem(u)'
  <2>1. CASE \E t \in Tasks : CreateTask(t) \/ RetryTask(t)
    BY <1>3, <2>1, ScheduleKeepsItems
  <2>2. CASE \E t \in Tasks : EnqueueTask(t)
    BY <1>3, <2>2, EnqueueKeepsItems
  <2>3. CASE \E c \in Channels : Dequeue(c)
    BY <1>3, <2>3, DequeueKeepsItems
  <2>4. CASE \E c \in Channels : \E r \in Runs : StartRun(c, r)
    BY <1>3, <2>4, StartKeepsItems
  <2>5. CASE \E r \in Runs : BeginRun(r) \/ ReleaseSlot(r)
    BY <1>3, <2>5, RunKeepsItems
  <2>6. CASE \E r \in Runs : SettleRun(r) \/ RunFindsNoTask(r)
    BY <1>3, <2>6, SettleKeepsItems
  <2>7. CASE ClearCompletedTasks \/ OffLoopClear \/ ClearStep \/ UNCHANGED vars
    BY <1>3, <2>7, ClearKeepsItems
  <2> QED
    BY <1>1, <2>1, <2>2, <2>3, <2>4, <2>5, <2>6, <2>7 DEF QuietStep
<1> QED
  BY <1>2, <1>4 DEF QuietInv

----------------------------------------------------------------------------
\* Without cancellation every step is a step of TaskLifecycle, or none.

\* __init__ is where the lifecycle begins.
LEMMA InitLifecycle == Init => Lifecycle!Init
BY DEF Init, Lifecycle!Init

\* The steps a user of the task list or of the ledger sees, and the others.
LEMMA StepLifecycle ==
  ASSUME Quiet, WeakTypes, Assigned, QuietInv, [Next]_vars
  PROVE  [Lifecycle!Next]_(Lifecycle!vars)
<1>1. QuietStep
  BY QuietSteps
<1>2. \A t \in Tasks : OneItem(t)
  BY DEF QuietInv
<1>3. ASSUME UNCHANGED <<status, ledger, listed>>
      PROVE  [Lifecycle!Next]_(Lifecycle!vars)
  BY <1>3 DEF Lifecycle!vars
<1>4. ASSUME NEW t \in Tasks,
             \/ Lifecycle!Create(t) \/ Lifecycle!Record(t) \/ Lifecycle!Begin(t)
             \/ Lifecycle!Settle(t) \/ Lifecycle!Retry(t)
             \/ Lifecycle!Forget(t) \/ Lifecycle!Remove(t)
      PROVE  [Lifecycle!Next]_(Lifecycle!vars)
  BY <1>4 DEF Lifecycle!Next, Lifecycle!Work
<1>5. ASSUME NEW t \in Tasks, CreateTask(t)
      PROVE  [Lifecycle!Next]_(Lifecycle!vars)
  <2>1. Lifecycle!Create(t)
    BY <1>5 DEF CreateTask, Lifecycle!Create, durable, callVars
  <2> QED
    BY <1>4, <2>1
<1>6. ASSUME NEW t \in Tasks, EnqueueTask(t)
      PROVE  [Lifecycle!Next]_(Lifecycle!vars)
  <2>1. status[t] \in {"PENDING", "cleared"} /\ status' = status /\ listed' = listed
    BY <1>2, <1>6 DEF EnqueueTask, OneItem, ShownAs, callVars
  <2>2. CASE t \in Uploads \ ledger /\ status[t] = "PENDING"
    <3>1. Lifecycle!Record(t)
      BY <1>6, <2>1, <2>2 DEF EnqueueTask, PersistUpload, InTable, Lifecycle!Record
    <3> QED
      BY <1>4, <3>1
  <2>3. CASE t \notin Uploads \ ledger \/ status[t] = "cleared"
    <3>1. ledger' = ledger
      BY <1>6, <2>1, <2>3 DEF EnqueueTask, PersistUpload, InTable, durable
    <3> QED
      BY <1>3, <2>1, <3>1
  <2> QED
    BY <2>1, <2>2, <2>3
<1>7. ASSUME NEW t \in Tasks, RetryTask(t)
      PROVE  [Lifecycle!Next]_(Lifecycle!vars)
  <2>1. Lifecycle!Retry(t)
    BY <1>7 DEF RetryTask, SetStatus, InTable, Lifecycle!Retry, durable
  <2> QED
    BY <1>4, <2>1
<1>8. CASE ClearCompletedTasks
  <2>1. Lifecycle!Clear
    BY <1>8 DEF ClearCompletedTasks, Lifecycle!Clear, Terminal, Lifecycle!Terminal, durable,
       callVars
  <2> QED
    BY <2>1 DEF Lifecycle!Next
<1>9. ASSUME NEW c \in Channels, Dequeue(c) \/ \E r \in Runs : StartRun(c, r)
      PROVE  [Lifecycle!Next]_(Lifecycle!vars)
  BY <1>3, <1>9 DEF Dequeue, StartRun, durable, callVars
<1>10. ASSUME NEW r \in Runs, BeginRun(r)
       PROVE  [Lifecycle!Next]_(Lifecycle!vars)
  <2>1. PICK t \in Tasks : t = runTask[r]
    BY <1>10 DEF BeginRun, Assigned
  <2>2. pc[r] = "created" /\ pc[r] \in Live
    BY <1>10 DEF BeginRun, Live
  <2>0. InTable(t)
    BY <1>10, <2>1 DEF BeginRun
  <2>3. status[t] = "PENDING" /\ (t \in Uploads => t \in ledger)
    BY <1>2, <2>0, <2>1, <2>2, OneRun DEF InTable
  <2>4. Lifecycle!Begin(t)
    BY <1>10, <2>0, <2>1, <2>3 DEF BeginRun, SetStatus, Lifecycle!Begin, callVars
  <2> QED
    BY <1>4, <2>4
<1>11. ASSUME NEW r \in Runs, ReleaseSlot(r)
       PROVE  [Lifecycle!Next]_(Lifecycle!vars)
  BY <1>3, <1>11 DEF ReleaseSlot, durable, callVars
<1>12. ASSUME NEW r \in Runs, SettleRun(r) \/ RunFindsNoTask(r)
       PROVE  [Lifecycle!Next]_(Lifecycle!vars)
  <2>1. PICK t \in Tasks : t = runTask[r]
    BY <1>2, <1>12, SettleShape DEF RunFindsNoTask, Assigned
  <2>2. ledger' = ledger \ {t} /\ listed' = listed
    BY <1>12, <2>1 DEF SettleRun, EndRun, RunFindsNoTask, GiveBack, callVars
  <2>3. CASE status[t] = "cleared" /\ status' = status
    <3>1. t \in ledger => Lifecycle!Forget(t)
      BY <2>2, <2>3 DEF Lifecycle!Forget
    <3> QED
      BY <1>3, <1>4, <2>2, <2>3, <3>1
  <2>4. CASE status[t] = "PROCESSING" /\ \E s \in Terminal : status' = [status EXCEPT ![t] = s]
    <3>1. Lifecycle!Settle(t)
      BY <2>2, <2>4 DEF Terminal, Lifecycle!Settle, Lifecycle!Terminal
    <3> QED
      BY <1>4, <3>1
  <2>5. CASE SettleRun(r)
    BY <1>2, <2>1, <2>3, <2>4, <2>5, SettleShape
  <2>6. CASE RunFindsNoTask(r)
    <3>1. pc[r] \in Live /\ pc[r] = "created"
      BY <2>6 DEF RunFindsNoTask, Live
    <3>2. status[t] = "cleared"
      BY <1>2, <2>1, <2>6, <3>1, OneRun DEF RunFindsNoTask, InTable
    <3> QED
      BY <2>3, <2>6, <3>2 DEF RunFindsNoTask
  <2> QED
    BY <1>12, <2>5, <2>6
<1>13. CASE OffLoopClear
  <2>1. Lifecycle!List
    BY <1>13 DEF OffLoopClear, Lifecycle!List, Terminal, Lifecycle!Terminal, durable
  <2> QED
    BY <2>1 DEF Lifecycle!Next
<1>14. CASE ClearStep
  <2>1. CASE OffLoopClearRaises
    <3>1. Lifecycle!GiveUp
      BY <2>1 DEF OffLoopClearRaises, Lifecycle!GiveUp, durable
    <3> QED
      BY <3>1 DEF Lifecycle!Next
  <2>2. ASSUME NEW t \in Tasks, OffLoopDelete(t)
        PROVE  [Lifecycle!Next]_(Lifecycle!vars)
    <3>1. Lifecycle!Remove(t)
      BY <2>2 DEF OffLoopDelete, Lifecycle!Remove, durable
    <3> QED
      BY <1>4, <3>1
  <2> QED
    BY <1>14, <2>1, <2>2 DEF ClearStep
<1>15. CASE UNCHANGED vars
  BY <1>3, <1>15 DEF vars, durable, callVars
<1> QED
  BY <1>1, <1>5, <1>6, <1>7, <1>8, <1>9, <1>10, <1>11, <1>12, <1>13, <1>14, <1>15
     DEF QuietStep

----------------------------------------------------------------------------
\* The theorems about queues and executions.

\* The conjunction of the parts is inductive.
LEMMA LoopInductive == Spec => [](SafetyInv /\ LoopInv)
<1>1. Init => LoopInv
  BY InitLoopInv
<1>2. SafetyInv /\ LoopInv /\ [Next]_vars => LoopInv'
  BY StepLoopInv DEF SafetyInv
<1> QED
  BY <1>1, <1>2, SafetyInductive, PTL DEF Spec

\* However cancel, retry, clear and a stale queue item meet on the event loop, a
\* task shown as PENDING has an item on its way to an execution.
THEOREM PendingIsServed == Spec => []LoopPendingIsQueued
<1>1. SafetyInv /\ LoopInv => LoopPendingIsQueued
  BY DEF LoopInv
<1> QED
  BY <1>1, LoopInductive, PTL

\* And a task shown as PROCESSING has an execution that may still settle it.
THEOREM ProcessingIsServed == Spec => []LoopProcessingIsLive
<1>1. SafetyInv /\ LoopInv => LoopProcessingIsLive
  BY DEF LoopInv
<1> QED
  BY <1>1, LoopInductive, PTL

\* Without cancellation, one item or one execution per waiting task is inductive.
LEMMA QuietInductive == ASSUME Quiet PROVE Spec => [](SafetyInv /\ QuietInv)
<1>1. Init => QuietInv
  BY InitQuietInv
<1>2. SafetyInv /\ QuietInv /\ [Next]_vars => QuietInv'
  BY StepQuietInv DEF SafetyInv
<1> QED
  BY <1>1, <1>2, SafetyInductive, PTL DEF Spec

\* When nobody cancels, the history row of an upload tells what the task list and
\* the ledger tell, at every moment.
THEOREM HistoryIsMirrored == ASSUME Quiet PROVE Spec => []HistoryMirrorsTask
<1>1. SafetyInv /\ QuietInv => HistoryMirrorsTask
  BY TasksAssumption DEF QuietInv, OneItem, OnRecord, HistoryMirrorsTask
<1> QED
  BY <1>1, QuietInductive, PTL

\* When nobody cancels, queues, slots and executions keep the promise of
\* TaskLifecycle: every step is one of its steps, or invisible.
THEOREM KeepsLifecycle ==
  ASSUME Quiet PROVE Spec => Lifecycle!Init /\ [][Lifecycle!Next]_(Lifecycle!vars)
<1>1. Init => Lifecycle!Init
  BY InitLifecycle
<1>2. SafetyInv /\ QuietInv /\ [Next]_vars => [Lifecycle!Next]_(Lifecycle!vars)
  BY StepLifecycle DEF SafetyInv
<1> QED
  BY <1>1, <1>2, QuietInductive, PTL DEF Spec
============================================================================
