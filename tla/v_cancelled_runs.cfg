\* A cancelled upload that was still queued is executed all the same.
SPECIFICATION Spec
CONSTANTS
  u1 = u1
  u2 = u2
  NoTask = NoTask
  Tasks = {u1, u2}
  Uploads = {u1, u2}
  MaxConcurrent = 1
  MaxRuns = 2
  MaxCancels = 1
  MaxRetries = 0
  MaxOffLoopCancels = 0
  MaxOffLoopRetries = 0
  MaxOffLoopClears = 0
PROPERTIES CancelledStaysCancelled
CHECK_DEADLOCK FALSE
