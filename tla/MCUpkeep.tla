------------------------------ MODULE MCUpkeep ------------------------------
(***************************************************************************)
(* One instance of each of the mechanisms that keep derived data in step   *)
(* with what it is made of: the sparse index, the summary and the coverage *)
(* line of a collection, the live summary of a recording.                  *)
(*                                                                         *)
(* Their variables are apart, so one run checks the four next to each      *)
(* other: a behaviour is one of a mechanism.  What the others do to it in  *)
(* the code is an action of its own module: Writers in SparseIndex are     *)
(* those that update the same config point, the coverage line and the      *)
(* summary's counter among them, and OverwriteLine in CoverageRefresh is   *)
(* their update undoing the line.                                          *)
(***************************************************************************)
EXTENDS SparseIndex, SummaryDebounce, CoverageRefresh, LiveSummary

CONSTANTS a, b, r1, r2, w1, u1, u2, s1, q1, f1

VARIABLE mechanism   \* the one this behaviour is of

Mechanisms == {"index", "summary", "coverage", "live"}

\* The others stay in one of their initial states.
UpkeepInit ==
  /\ mechanism \in Mechanisms
  /\ IndexInit /\ SummaryInit /\ CoverageInit /\ LiveInit
  /\ mechanism # "index" => config.vocab = <<>>
  /\ mechanism # "summary" => member

InIndex(A) ==
  mechanism = "index" /\ A /\ UNCHANGED <<summaryState, coverageState, liveState, mechanism>>
InSummary(A) ==
  mechanism = "summary" /\ A /\ UNCHANGED <<indexState, coverageState, liveState, mechanism>>
InCoverage(A) ==
  mechanism = "coverage" /\ A /\ UNCHANGED <<indexState, summaryState, liveState, mechanism>>
InLive(A) ==
  mechanism = "live" /\ A /\ UNCHANGED <<indexState, summaryState, coverageState, mechanism>>

UpkeepNext ==
  InIndex(IndexNext) \/ InSummary(SummaryNext) \/ InCoverage(CoverageNext) \/ InLive(LiveNext)

\* Threads run, timers fire, the general queue starts what is queued; tasks,
\* generations and rounds end.  Nobody has to ask, to change or delete anything or
\* to speak, no lock has to age, and nothing has to fail.
Fair(m, A) == mechanism = m /\ A

IndexFairness ==
  /\ \A c \in Chunks : WF_indexState(Fair("index", Store(c)))
  /\ \A r \in Rebuilds : WF_indexState(Fair("index", Rebuild(r)))
  /\ WF_indexState(Fair("index", \E r \in Rebuilds : UserCreatesTask(r)))

SummaryFairness ==
  /\ \A k \in Changes : WF_summaryState(Fair("summary", Debounce(k)))
  /\ \A j \in Consolidations : WF_summaryState(Fair("summary", Consolidate(j)))

CoverageFairness ==
  /\ \A t \in CoverageTasks : WF_coverageState(Fair("coverage", EndTask(t)))
  /\ \A x \in Actors : WF_coverageState(Fair("coverage", Trigger(x)))
  /\ WF_coverageState(Fair("coverage", TimerFires))
  /\ WF_coverageState(Fair("coverage", EndCooling))

LiveFairness ==
  /\ WF_liveState(Fair("live", Serve))
  /\ \A l \in Loops : WF_liveState(Fair("live", Work(l)))
  /\ \A f \in Finals : WF_liveState(Fair("live", Finalize(f)))

UpkeepSpec ==
  /\ UpkeepInit /\ [][UpkeepNext]_<<indexState, summaryState, coverageState, liveState, mechanism>>
  /\ IndexFairness /\ SummaryFairness /\ CoverageFairness /\ LiveFairness
=============================================================================
