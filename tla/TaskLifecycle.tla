--------------------------- MODULE TaskLifecycle ---------------------------
(***************************************************************************)
(* What the task manager promises about one background task, seen from the *)
(* task list and the durable ledger and nothing else: a task waits, runs   *)
(* and settles; an upload is on the ledger from the moment it is accepted  *)
(* until the very step that settles it; a failed task waits again only     *)
(* when somebody retries it; and every task that waits settles in the end, *)
(* unless a clear had listed it while it was settled: such a clear removes *)
(* the task whatever it is by then, and its ledger row goes later.         *)
(*                                                                         *)
(* Queues, slots, executions and epochs do not appear here: TaskManager    *)
(* shows how the code keeps the promise.                                   *)
(***************************************************************************)

CONSTANTS Tasks,    \* task ids (uuid4 strings in the code)
          Uploads   \* the tasks of type "upload", which the ledger covers

VARIABLES status,   \* what the task list shows for each task
          ledger,   \* the uploads a restart would recover
          listed    \* the tasks a clear in progress has still to remove

vars == <<status, ledger, listed>>

Terminal == {"COMPLETED", "FAILED"}

Init == /\ status = [t \in Tasks |-> "unborn"]
        /\ ledger = {}
        /\ listed = {}

Create(t) == /\ status[t] = "unborn"
             /\ status' = [status EXCEPT ![t] = "PENDING"]
             /\ UNCHANGED <<ledger, listed>>

\* Acceptance of an upload: from here on a restart would find it.
Record(t) == /\ t \in Uploads \ ledger
             /\ status[t] = "PENDING"
             /\ ledger' = ledger \union {t}
             /\ UNCHANGED <<status, listed>>

Begin(t) == /\ status[t] = "PENDING"
            /\ t \in Uploads => t \in ledger
            /\ status' = [status EXCEPT ![t] = "PROCESSING"]
            /\ UNCHANGED <<ledger, listed>>

Settle(t) == /\ status[t] = "PROCESSING"
             /\ \E s \in Terminal : status' = [status EXCEPT ![t] = s]
             /\ ledger' = ledger \ {t}
             /\ UNCHANGED listed

Retry(t) == /\ status[t] = "FAILED"
            /\ status' = [status EXCEPT ![t] = "PENDING"]
            /\ UNCHANGED <<ledger, listed>>

Clear == /\ \E t \in Tasks : status[t] \in Terminal
         /\ status' = [t \in Tasks |->
                        IF status[t] \in Terminal THEN "cleared" ELSE status[t]]
         /\ UNCHANGED <<ledger, listed>>

\* A clear that other calls can run into: it lists what is settled, then removes
\* what it listed, or gives up.
List == /\ listed = {}
        /\ listed' = {t \in Tasks : status[t] \in Terminal}
        /\ UNCHANGED <<status, ledger>>

Remove(t) == /\ t \in listed
             /\ listed' = listed \ {t}
             /\ status' = [status EXCEPT ![t] = "cleared"]
             /\ UNCHANGED ledger

GiveUp == /\ listed # {}
          /\ listed' = {}
          /\ UNCHANGED <<status, ledger>>

\* What is left on the ledger of a task removed while it waited or ran.
Forget(t) == /\ status[t] = "cleared"
             /\ t \in ledger
             /\ ledger' = ledger \ {t}
             /\ UNCHANGED <<status, listed>>

Work(t) == Record(t) \/ Begin(t) \/ Settle(t) \/ Forget(t)

Next == \/ \E t \in Tasks : Create(t) \/ Work(t) \/ Retry(t) \/ Remove(t)
        \/ Clear \/ List \/ GiveUp

Spec == Init /\ [][Next]_vars /\ \A t \in Tasks : WF_vars(Work(t))
=============================================================================
