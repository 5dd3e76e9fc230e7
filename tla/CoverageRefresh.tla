--------------------------- MODULE CoverageRefresh ---------------------------
(***************************************************************************)
(* The coverage line of a collection, which a model writes from the list   *)
(* of its files (rag/catalog.py): generated at once on a first trigger,    *)
(* then not again before a cooling period has passed; triggers that come   *)
(* in between leave a dirty mark for the timer that ends the period.       *)
(*                                                                         *)
(* A trigger that meets other ingest tasks leaves the generation to the    *)
(* last of them, which finds out that it is the last by counting the       *)
(* active tasks when it is done.  One lock is held through a generation.   *)
(***************************************************************************)
EXTENDS Naturals, FiniteSets

CONSTANTS
  Uploads,     \* upload tasks (upload_handler)
  Summaries,   \* doc_summary tasks (doc_summary_handler)
  Requests,    \* request threads: documents deleted, refreshes asked for
  Timer,       \* the timer thread
  NoOwner,     \* the catalog's lock is free
  MaxFaults    \* bound: generations that fail, lines that are overwritten

ASSUME CoverageSetsAssumption ==
  /\ IsFiniteSet(Uploads \union Summaries \union Requests)
  /\ Timer \notin Uploads \union Summaries \union Requests
  /\ NoOwner \notin Uploads \union Summaries \union Requests \union {Timer}
ASSUME CoverageBoundAssumption == MaxFaults \in Nat

CoverageTasks == Uploads \union Summaries
Actors == CoverageTasks \union Requests \union {Timer}

VARIABLES
  files,    \* what a generation would read: counts the changes
  covered,  \* the files the coverage line was written from
  actor,    \* where each task or thread is
  read,     \* what the generation under way has read
  owner,    \* who holds Catalog._lock
  cooling,  \* _cooling[collection]
  dirty,    \* _dirty[collection]
  faults,   \* generations that failed, lines that were overwritten
  neglects  \* history: the known ways to leave the line out of date

coverageState == <<files, covered, actor, read, owner, cooling, dirty, faults, neglects>>

\* pending: a task not done with its document; update, defer: on the way into
\* update_coverage or mark_dirty; handled: the handler has returned, the task
\* is not COMPLETED yet; waiting, fired: the timer
ActorPcs == {"idle", "pending", "changed", "update", "defer", "generate", "handled", "over",
             "off", "waiting", "fired"}

\* leftToNone:  the task the others had left the generation to ended without
\*              a trigger, or had done its own already
\* failed:      a generation failed
\* unannounced: documents went by a path that triggers nothing
\* overwritten: an update of another field put an older line back
Neglects == {"leftToNone", "failed", "unannounced", "overwritten"}

\* get_active_tasks(task_types = upload, doc_summary)
ActiveTasks == {t \in CoverageTasks : actor[t] \notin {"idle", "over"}}
\* Handlers run on the event loop and trigger without an await: while one is
\* in the catalog, waiting for its lock or for the model, no other goes on.
LoopIsFree(a) ==
  a \in CoverageTasks =>
    \A t \in CoverageTasks \ {a} : actor[t] \notin {"update", "defer", "generate"}
\* Tasks that have yet to count the others.
Undecided == {t \in CoverageTasks : actor[t] \in {"pending", "changed"}}

\* One type per variable; a generation has the lock to itself.
CoverageTypeOK ==
  /\ files \in Nat /\ covered \in Nat /\ read \in Nat
  /\ actor \in [Actors -> ActorPcs]
  /\ owner \in Actors \union {NoOwner}
  /\ cooling \in BOOLEAN /\ dirty \in BOOLEAN
  /\ faults \in Nat
  /\ neglects \subseteq Neglects
  /\ \A a \in Actors : owner = a <=> actor[a] = "generate"

CoverageInit ==
  /\ files = 1 /\ covered = 1 /\ read = 0
  /\ actor = [a \in Actors |-> IF a = Timer THEN "off" ELSE "idle"]
  /\ owner = NoOwner
  /\ cooling = FALSE /\ dirty = FALSE
  /\ faults = 0
  /\ neglects = {}

----------------------------------------------------------------------------
(* Who triggers.                                                           *)

Goto(a, pc) == actor' = [actor EXCEPT ![a] = pc]
Neglect(what) == neglects' = neglects \union what

CreateIngest(t) ==
  /\ t \in CoverageTasks /\ actor[t] = "idle"
  /\ Goto(t, "pending")
  /\ UNCHANGED <<files, covered, read, owner, cooling, dirty, faults, neglects>>

\* The chunks, or the document summary, are stored; a request deletes a document.
ChangeFiles(a) ==
  /\ actor[a] = IF a \in Requests THEN "idle" ELSE "pending"
  /\ a # Timer
  /\ files' = files + 1
  /\ Goto(a, "changed")
  /\ UNCHANGED <<covered, read, owner, cooling, dirty, faults, neglects>>

\* refresh_coverage
AskRefresh(q) ==
  /\ q \in Requests /\ actor[q] = "idle"
  /\ Goto(q, "changed")
  /\ UNCHANGED <<files, covered, read, owner, cooling, dirty, faults, neglects>>

\* delete_file and delete_file_version (file_mgmt/files.py) and the document
\* tool of MCP delete chunks as well and trigger nothing.
DeleteQuietly(q) ==
  /\ q \in Requests /\ actor[q] = "idle"
  /\ files' = files + 1
  /\ Goto(q, "over")
  /\ Neglect({"unannounced"})
  /\ UNCHANGED <<covered, read, owner, cooling, dirty, faults>>

\* The last thing a handler does: count the active tasks other than its own.
CountOthers(a) ==
  /\ actor[a] = "changed" /\ LoopIsFree(a)
  /\ IF ActiveTasks \ {a} = {} THEN Goto(a, "update")
     ELSE IF a \in Uploads THEN Goto(a, "handled")
     ELSE Goto(a, "defer")
  /\ Neglect(IF ActiveTasks \ {a} # {} /\ Undecided \ {a} = {} THEN {"leftToNone"} ELSE {})
  /\ UNCHANGED <<files, covered, read, owner, cooling, dirty, faults>>

\* Where an actor ends up that is through with its trigger.
After(a) == IF a = Timer THEN "off" ELSE IF a \in CoverageTasks THEN "handled" ELSE "over"

\* mark_dirty: a generation is left to whoever comes.
MarkDirty(a) ==
  /\ actor[a] = "defer" /\ owner = NoOwner
  /\ dirty' = TRUE
  /\ Goto(a, After(a))
  /\ UNCHANGED <<files, covered, read, owner, cooling, faults, neglects>>

\* asyncio.wait_for lets the loop go round once more before _execute_task can
\* set COMPLETED (Python 3.11, the Docker image).
Complete(t) ==
  /\ t \in CoverageTasks /\ actor[t] = "handled" /\ LoopIsFree(t)
  /\ Goto(t, "over")
  /\ UNCHANGED <<files, covered, read, owner, cooling, dirty, faults, neglects>>

\* A task is cancelled or fails, before or after it has stored something.
EndWithoutTrigger(t) ==
  /\ t \in Undecided /\ LoopIsFree(t)
  /\ Goto(t, "over")
  /\ Neglect(IF Undecided = {t} THEN {"leftToNone"} ELSE {})
  /\ UNCHANGED <<files, covered, read, owner, cooling, dirty, faults>>

----------------------------------------------------------------------------
(* The catalog.                                                            *)

\* Mutation of Defer: nothing tells the timer that there is something to do.
DeferUnmarked(a) ==
  /\ actor[a] = "update" /\ owner = NoOwner /\ cooling
  /\ Goto(a, After(a))
  /\ UNCHANGED <<files, covered, read, owner, cooling, dirty, faults, neglects>>

\* update_coverage: in the cooling period the timer is left to do it ...
Defer(a) ==
  /\ actor[a] = "update" /\ owner = NoOwner /\ cooling
  /\ dirty' = TRUE
  /\ Goto(a, After(a))
  /\ UNCHANGED <<files, covered, read, owner, cooling, faults, neglects>>

\* A generation keeps the lock while the model answers.
Generate(a) ==
  /\ dirty' = FALSE
  /\ owner' = a
  /\ read' = files
  /\ Goto(a, "generate")

\* ... else it generates.
Update(a) ==
  /\ actor[a] = "update" /\ owner = NoOwner /\ ~cooling
  /\ Generate(a)
  /\ UNCHANGED <<files, covered, cooling, faults, neglects>>

\* _enter_cooling, in the lock: the next period and its timer.
EnterCooling(a) ==
  /\ cooling' = TRUE
  /\ dirty' = FALSE
  /\ owner' = NoOwner /\ read' = 0
  /\ actor' = [actor EXCEPT ![a] = After(a), ![Timer] = "waiting"]

Finish(a) ==
  /\ actor[a] = "generate"
  /\ covered' = read
  /\ EnterCooling(a)
  /\ UNCHANGED <<files, faults, neglects>>

\* No answer, or the line cannot be saved: logged, and cooling as if it had
\* been; files that cannot be listed: the exception leaves without cooling.
FailGeneration(a) ==
  /\ actor[a] = "generate" /\ faults < MaxFaults
  /\ faults' = faults + 1
  /\ Neglect({"failed"})
  /\ \/ EnterCooling(a)
     \/ /\ owner' = NoOwner /\ read' = 0
        /\ Goto(a, After(a))
        /\ UNCHANGED <<cooling, dirty>>
  /\ UNCHANGED <<files, covered>>

\* The line is in the config point, which every update reads whole and writes
\* back whole (SparseIndex): an update of another field that read it before it
\* was last written brings an older line back, one that could not read it none.
OverwriteLine ==
  /\ faults < MaxFaults
  /\ faults' = faults + 1
  /\ \E line \in 0..files : line < covered /\ covered' = line
  /\ Neglect({"overwritten"})
  /\ UNCHANGED <<files, actor, read, owner, cooling, dirty>>

TimerFires ==
  /\ actor[Timer] = "waiting"
  /\ Goto(Timer, "fired")
  /\ UNCHANGED <<files, covered, read, owner, cooling, dirty, faults, neglects>>

\* Mutation of EndCooling: the dirty mark is not looked at.
EndCoolingOnly ==
  /\ actor[Timer] = "fired" /\ owner = NoOwner
  /\ cooling' = FALSE
  /\ Goto(Timer, "off")
  /\ UNCHANGED <<files, covered, read, owner, dirty, faults, neglects>>

\* _on_timer, in the lock: the period is over.  A dirty mark is worked off,
\* unless ingest tasks are active: then it waits for the last of them.
EndCooling ==
  /\ actor[Timer] = "fired" /\ owner = NoOwner
  /\ cooling' = FALSE
  /\ IF dirty /\ ActiveTasks = {} THEN Generate(Timer)
     ELSE Goto(Timer, "off") /\ UNCHANGED <<read, owner, dirty>>
  /\ Neglect(IF dirty /\ ActiveTasks # {} /\ Undecided = {} /\ \A t \in CoverageTasks : actor[t] # "update"
             THEN {"leftToNone"} ELSE {})
  /\ UNCHANGED <<files, covered, faults>>

----------------------------------------------------------------------------
Trigger(a) == CountOthers(a) \/ MarkDirty(a) \/ Defer(a) \/ Update(a) \/ Finish(a)
              \/ FailGeneration(a) \/ Complete(a)

EndTask(t) == ChangeFiles(t) \/ EndWithoutTrigger(t)

CoverageNext ==
  \/ \E a \in Actors : CreateIngest(a) \/ ChangeFiles(a) \/ AskRefresh(a) \/ DeleteQuietly(a)
  \/ \E a \in Actors : Trigger(a)
  \/ \E t \in CoverageTasks : EndWithoutTrigger(t)
  \/ TimerFires \/ EndCooling \/ OverwriteLine

CoverageSpec == CoverageInit /\ [][CoverageNext]_coverageState

----------------------------------------------------------------------------
(* Properties.                                                             *)

\* The cooling flag has a timer that will take it down: without one every
\* later trigger would be deferred for good.
CoolingHasTimer == cooling <=> actor[Timer] \in {"waiting", "fired"}

CoverageQuiet ==
  /\ \A a \in Actors \ {Timer} : actor[a] \in {"idle", "over"}
  /\ actor[Timer] = "off"

\* When nothing is under way the line covers the files as they are: a change
\* is passed over in the ways named and in no other.
QuietCoverageIsCurrent == CoverageQuiet => covered = files \/ neglects # {}

\* Every change gets into the line, but for the same ways.
CoverageCatchesUp == <>[](covered = files \/ neglects # {})
=============================================================================
