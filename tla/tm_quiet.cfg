\* Nobody cancels: two uploads and a general task, one slot per queue, two retries.
SPECIFICATION FairSpec
CONSTANTS
  u1 = u1
  u2 = u2
  g1 = g1
  NoTask = NoTask
  Tasks = {u1, u2, g1}
  Uploads = {u1, u2}
  MaxConcurrent = 1
  MaxRuns = 5
  MaxCancels = 0
  MaxRetries = 2
  MaxOffLoopCancels = 0
  MaxOffLoopRetries = 0
  MaxOffLoopClears = 1
INVARIANTS HistoryMirrorsTask
PROPERTIES ImplementsLifecycle
CHECK_DEADLOCK FALSE
