\* Retrying the failed ingest of an old version deletes the chunks that the
\* current version's own ingest has written.
SPECIFICATION Spec
CONSTANTS
  Files = {f1}
  NoFile = NoFile
  MaxTasks = 3
  MaxCrashes = 0
  MaxRetries = 0
  MaxHistoryRetries = 1
PROPERTY RetryKeepsOthersChunks
CHECK_DEADLOCK FALSE
