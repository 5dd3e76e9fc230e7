\* Two operations after each other, or one and the retry of a failed ingest, against
\* ingests under way and a crash with its recovery.
SPECIFICATION FairSpec
CONSTANTS
  t1 = t1
  t2 = t2
  NoThread = NoThread
  Threads = {t1}
  Kinds = {"upload", "rollback", "deleteVersion", "deleteFile", "archive", "unarchive"}
  Uploaded = 1
  MaxVersion = 2
  MaxIngests = 4
  MaxOps = 2
  MaxRetries = 1
  MaxCrashes = 1
INVARIANT TwiceOnlyByRerun
PROPERTIES ImplementsSearchable UploadsBecomeSearchable
CHECK_DEADLOCK FALSE
