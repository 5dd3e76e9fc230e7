\* Uploads, retries and crashes at every point between two durable writes.
SPECIFICATION FairSpec
CONSTANTS
  Files = {f1}
  NoFile = NoFile
  MaxTasks = 3
  MaxCrashes = 2
  MaxRetries = 1
  MaxHistoryRetries = 1
INVARIANT TypeOK
INVARIANT UntornUploadsSurvive
INVARIANT LedgerRowHasWork
PROPERTY UploadsSettle
CHECK_DEADLOCK FALSE
