\* retry_task called by the MCP tool: PENDING, and in no queue.
SPECIFICATION Spec
CONSTANTS
  u1 = u1
  u2 = u2
  NoTask = NoTask
  Tasks = {u1, u2}
  Uploads = {u1, u2}
  MaxConcurrent = 1
  MaxRuns = 2
  MaxCancels = 0
  MaxRetries = 0
  MaxOffLoopCancels = 0
  MaxOffLoopRetries = 1
  MaxOffLoopClears = 0
INVARIANTS PendingIsQueued
CHECK_DEADLOCK FALSE
