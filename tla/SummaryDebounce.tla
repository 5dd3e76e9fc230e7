--------------------------- MODULE SummaryDebounce ---------------------------
(***************************************************************************)
(* How the summary of a collection follows the document summaries it is    *)
(* made of (api/routes/info.py, tasks/handlers.py consolidate_handler).    *)
(* Each change calls schedule_debounced_consolidate, which opens a window  *)
(* of ten seconds or starts an open one again; the timer of the window     *)
(* decides whether to queue a consolidation; a consolidation that succeeds *)
(* closes the window that is open by then.                                 *)
(*                                                                         *)
(* The window is an entry of a module-level dict without a lock.  Calls    *)
(* come from request and executor threads and from the event loop, timers  *)
(* run in threads of their own.                                            *)
(***************************************************************************)
EXTENDS Naturals

CONSTANTS
  MaxChanges,     \* bound: changes, each with its call and its timer
  MaxActive,      \* bound: consolidation tasks that exist at the same time
  MaxExtras       \* bound: consolidations a user asks for, failures of one, and
                  \* snapshots that cannot be taken

ASSUME SummaryBoundsAssumption ==
  MaxChanges \in Nat /\ MaxActive \in Nat \ {0} /\ MaxExtras \in Nat

Changes == 1..MaxChanges
Consolidations == 1..MaxActive

VARIABLES
  member,   \* whether the document takes part (files.is_definitive)
  text,     \* what its document summary says
  summary,  \* what the collection's summary was made of
  window,   \* _debounce[collection]: timer, snapshot (before), force_content_change
  call,     \* where the thread of a change, then its timer, is
  run,      \* consolidation tasks and what they read
  extras,   \* consolidations asked for, and failures, so far
  losses    \* history: the known ways to lose a change that were met

summaryState == <<member, text, summary, window, call, run, extras, losses>>

\* What a consolidation would work from; 0: no document takes part.
Basis == IF member THEN text ELSE 0

\* was: history, the summary when the window was opened
Closed == [open |-> FALSE, timer |-> 0, before |-> FALSE, force |-> FALSE, was |-> 0]
\* before: taken before the change; popped: the window its timer took
NoCall == [pc |-> "unused", before |-> FALSE, force |-> FALSE, popped |-> Closed]

CallPcs == {"unused", "ensure", "arm", "armed", "check", "compare", "done"}
Idle == [pc |-> "unused", read |-> 0]

\* unscheduled: a call found its window gone between two statements (KeyError)
\* skipped:  a window was dropped because of a consolidation that had begun
\*           before the change
\* cleared:  a consolidation closed a window with a change that it, or another
\*           one that runs and will store over it, had not read
\* netZero:  no net change was seen, against a snapshot that was not what the
\*           summary was made of, or is no longer
\* failed:   a consolidation stored nothing
\* unread:   the document summaries could not be listed for a snapshot
Losses == {"unscheduled", "skipped", "cleared", "netZero", "failed", "unread"}

\* has_active_task(collection, "consolidate")
Consolidating == \E j \in Consolidations : run[j].pc \in {"queued", "running"}

\* A consolidation is under way that will store something else.
Outdated == \E j \in Consolidations : run[j].pc = "running" /\ run[j].read # Basis

Windows == [open : BOOLEAN, timer : 0..MaxChanges, before : BOOLEAN, force : BOOLEAN,
            was : Nat]

\* One type per variable; an open window without a timer has a call under way.
SummaryTypeOK ==
  /\ member \in BOOLEAN /\ text \in Nat /\ summary \in Nat
  /\ window \in Windows
  /\ call \in [Changes -> [pc : CallPcs, before : BOOLEAN, force : BOOLEAN, popped : Windows]]
  /\ run \in [Consolidations -> [pc : {"unused", "queued", "running"}, read : Nat]]
  /\ extras \in Nat
  /\ losses \subseteq Losses
  /\ window.open => \/ window.timer # 0
                    \/ \E k \in Changes : call[k].pc = "arm"

SummaryInit ==
  /\ member \in BOOLEAN /\ text = 1
  /\ summary = Basis
  /\ window = Closed
  /\ call = [k \in Changes |-> NoCall]
  /\ run = [j \in Consolidations |-> Idle]
  /\ extras = 0
  /\ losses = {}

----------------------------------------------------------------------------
(* A change and its call of schedule_debounced_consolidate.                *)

Lose(what) == losses' = losses \union what

Called(k, force) ==
  /\ call[k].pc = "unused"
  /\ \A i \in Changes : i < k => call[i].pc # "unused"
  /\ call' = [call EXCEPT ![k] = [NoCall EXCEPT !.pc = "ensure", !.before = member,
                                                !.force = force]]

\* A document joins or leaves (update_include, _on_definitive_changed); when
\* the last definitive one leaves the call forces a consolidation.
Toggle(k) ==
  /\ \E force \in {FALSE, member} : Called(k, force)
  /\ member' = ~member
  /\ UNCHANGED <<text, summary, window, run, extras, losses>>

\* A new document summary (doc_summary_handler, _store_structured_summary).
Resummarize(k) ==
  /\ member
  /\ Called(k, TRUE)
  /\ text' = text + 1
  /\ UNCHANGED <<member, summary, window, run, extras, losses>>

Extra == extras < MaxExtras /\ extras' = extras + 1

\* The snapshot that a caller takes after its change, or what it looks up before
\* it calls, raises: nobody is told of the change.
FailSnapshot(k) ==
  /\ call[k].pc = "ensure" /\ Extra
  /\ call' = [call EXCEPT ![k] = [NoCall EXCEPT !.pc = "done"]]
  /\ Lose({"unread"})
  /\ UNCHANGED <<member, text, summary, window, run>>

\* "if collection_id not in _debounce": a window is opened.
EnsureWindow(k) ==
  /\ call[k].pc = "ensure"
  /\ window' = IF window.open THEN window
               ELSE [open |-> TRUE, timer |-> 0, before |-> call[k].before,
                     force |-> call[k].force, was |-> summary]
  /\ call' = [call EXCEPT ![k].pc = "arm"]
  /\ UNCHANGED <<member, text, summary, run, extras, losses>>

\* Mutation of ArmTimer: only the call that opens the window can force.
ArmTimerUnforced(k) ==
  /\ call[k].pc = "arm" /\ window.open
  /\ window' = [window EXCEPT !.timer = k]
  /\ call' = [i \in Changes |->
                IF i = k THEN [NoCall EXCEPT !.pc = "armed"]
                ELSE IF i = window.timer /\ call[i].pc = "armed" THEN [NoCall EXCEPT !.pc = "done"]
                ELSE call[i]]
  /\ UNCHANGED <<member, text, summary, run, extras, losses>>

\* "state = _debounce[collection_id]": a new timer in place of the old one.
ArmTimer(k) ==
  /\ call[k].pc = "arm" /\ window.open
  /\ window' = [window EXCEPT !.timer = k, !.force = @ \/ call[k].force]
  /\ call' = [i \in Changes |->
                IF i = k THEN [NoCall EXCEPT !.pc = "armed"]
                ELSE IF i = window.timer /\ call[i].pc = "armed" THEN [NoCall EXCEPT !.pc = "done"]
                ELSE call[i]]
  /\ UNCHANGED <<member, text, summary, run, extras, losses>>

\* The window is gone by then: KeyError, which the callers log.
MissWindow(k) ==
  /\ call[k].pc = "arm" /\ ~window.open
  /\ call' = [call EXCEPT ![k] = [NoCall EXCEPT !.pc = "done"]]
  /\ Lose({"unscheduled"})
  /\ UNCHANGED <<member, text, summary, window, run, extras>>

----------------------------------------------------------------------------
(* The timer: _do_consolidate.                                             *)

\* The window is popped before anything is looked at.
Fire(k) ==
  /\ call[k].pc = "armed"
  /\ call' = [call EXCEPT ![k] = IF window.open
                                 THEN [NoCall EXCEPT !.pc = "check", !.popped = [window EXCEPT !.timer = 0]]
                                 ELSE [NoCall EXCEPT !.pc = "done"]]
  /\ window' = Closed
  /\ UNCHANGED <<member, text, summary, run, extras, losses>>

\* A consolidation is active: skip.
SkipActive(k) ==
  /\ call[k].pc = "check" /\ Consolidating
  /\ call' = [call EXCEPT ![k] = [NoCall EXCEPT !.pc = "done"]]
  /\ Lose(IF Outdated THEN {"skipped"} ELSE {})
  /\ UNCHANGED <<member, text, summary, window, run, extras>>

GoOn(k) ==
  /\ call[k].pc = "check" /\ ~Consolidating
  /\ call' = [call EXCEPT ![k].pc = "compare"]
  /\ UNCHANGED <<member, text, summary, window, run, extras, losses>>

NetChange(k) == call[k].popped.force \/ call[k].popped.before # member

\* The snapshot shows no change.
NoNetChange(k) ==
  /\ call[k].pc = "compare" /\ ~NetChange(k)
  /\ call' = [call EXCEPT ![k] = [NoCall EXCEPT !.pc = "done"]]
  /\ LET popped == call[k].popped IN
     Lose(IF popped.before # (popped.was # 0) \/ popped.was # summary \/ Outdated
          THEN {"netZero"} ELSE {})
  /\ UNCHANGED <<member, text, summary, window, run, extras>>

\* _snapshot_includes raises, or takes a document it cannot look up for one that
\* takes no part: the timer gives up, and the window is gone already.
FailCompare(k) ==
  /\ call[k].pc = "compare" /\ ~call[k].popped.force /\ Extra
  /\ call' = [call EXCEPT ![k] = [NoCall EXCEPT !.pc = "done"]]
  /\ Lose({"unread"})
  /\ UNCHANGED <<member, text, summary, window, run>>

Queue(j) ==
  /\ run[j].pc = "unused" /\ \A i \in 1..(j - 1) : run[i].pc # "unused"
  /\ run' = [run EXCEPT ![j].pc = "queued"]

CreateConsolidation(k, j) ==
  /\ call[k].pc = "compare" /\ NetChange(k)
  /\ Queue(j)
  /\ call' = [call EXCEPT ![k] = [NoCall EXCEPT !.pc = "done"]]
  /\ UNCHANGED <<member, text, summary, window, extras, losses>>

\* trigger_consolidation, from the panel or a tool, asks nobody.
UserConsolidates(j) ==
  /\ Extra
  /\ Queue(j)
  /\ UNCHANGED <<member, text, summary, window, call, losses>>

----------------------------------------------------------------------------
(* A consolidation: it reads, awaits a model, stores.                      *)

BeginConsolidation(j) ==
  /\ run[j].pc = "queued"
  /\ run' = [run EXCEPT ![j] = [pc |-> "running", read |-> Basis]]
  /\ UNCHANGED <<member, text, summary, window, call, extras, losses>>

\* The new summary replaces the old one and clear_debounce closes the window.
StoreSummary(j) ==
  /\ run[j].pc = "running"
  /\ summary' = run[j].read
  /\ window' = Closed
  /\ call' = IF window.open /\ window.timer # 0 /\ call[window.timer].pc = "armed"
             THEN [call EXCEPT ![window.timer] = [NoCall EXCEPT !.pc = "done"]] ELSE call
  /\ run' = [run EXCEPT ![j] = Idle]
  /\ Lose(IF window.open /\ Outdated THEN {"cleared"} ELSE {})
  /\ UNCHANGED <<member, text, extras>>

\* No usable answer, or an exception: nothing is stored, nothing is cleared.
FailConsolidation(j) ==
  /\ run[j].pc = "running" /\ Extra
  /\ run' = [run EXCEPT ![j] = Idle]
  /\ Lose({"failed"})
  /\ UNCHANGED <<member, text, summary, window, call>>

----------------------------------------------------------------------------
Debounce(k) ==
  \/ FailSnapshot(k) \/ EnsureWindow(k) \/ ArmTimer(k) \/ MissWindow(k)
  \/ Fire(k) \/ SkipActive(k) \/ GoOn(k) \/ NoNetChange(k) \/ FailCompare(k)
  \/ \E j \in Consolidations : CreateConsolidation(k, j)

Consolidate(j) == BeginConsolidation(j) \/ StoreSummary(j) \/ FailConsolidation(j)

SummaryNext ==
  \/ \E k \in Changes : Toggle(k) \/ Resummarize(k) \/ Debounce(k)
  \/ \E j \in Consolidations : UserConsolidates(j) \/ Consolidate(j)

SummarySpec == SummaryInit /\ [][SummaryNext]_summaryState

----------------------------------------------------------------------------
(* Properties.                                                             *)

\* Every change reaches the summary, and nothing that ends later puts an older
\* one back: a change is lost in the ways named and in no other.
SummaryCatchesUp == <>[](summary = Basis \/ losses # {})
=============================================================================
