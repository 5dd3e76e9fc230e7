\* Two uploads, two slots, one of every call: every way cancel, retry and clear
\* can meet the queue, the slot and the executions.
SPECIFICATION Spec
CONSTANTS
  u1 = u1
  u2 = u2
  NoTask = NoTask
  Tasks = {u1, u2}
  Uploads = {u1, u2}
  MaxConcurrent = 2
  MaxRuns = 3
  MaxCancels = 1
  MaxRetries = 1
  MaxOffLoopCancels = 1
  MaxOffLoopRetries = 1
  MaxOffLoopClears = 1
SYMMETRY UploadSymmetry
INVARIANTS TypeOK SlotAccounting ParseGate CutRunNeverCompletes
           LoopPendingIsQueued LoopProcessingIsLive
\* The server may be idle.
CHECK_DEADLOCK FALSE
