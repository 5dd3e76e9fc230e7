\* The sparse index, the summary and the coverage line of a collection, and the
\* live summary of a recording.
SPECIFICATION UpkeepSpec
CONSTANTS
  a = a
  b = b
  r1 = r1
  r2 = r2
  w1 = w1
  u1 = u1
  u2 = u2
  s1 = s1
  q1 = q1
  f1 = f1
  Chunks = {a, b}
  Rebuilds = {r1, r2}
  Writers = {w1}
  NoChunk = NoChunk
  Threshold = 2
  MaxUses = 2
  MaxChanges = 3
  MaxActive = 2
  MaxExtras = 1
  Uploads = {u1, u2}
  Summaries = {s1}
  Requests = {q1}
  Timer = Timer
  NoOwner = NoOwner
  MaxFaults = 1
  Finals = {f1}
  NoRound = NoRound
  File = File
  Call = Call
  Window = 1
  MaxLines = 2
  MaxAsks = 3
  MaxMisses = 1
INVARIANTS OneRebuild LockHasHolder VectorsFitVocabulary CounterCoversChanges
INVARIANTS QuietCoverageIsCurrent
INVARIANTS EnabledIsServed LinesAreTakenOnce FileFollowsEngine
PROPERTIES DriftIsRebuilt SummaryCatchesUp CoverageCatchesUp LinesAreSummarized
CHECK_DEADLOCK FALSE
