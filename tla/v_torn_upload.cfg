\* A crash between the ledger row of a new version and the commit of that
\* version makes recovery drop both that row and the one of the old version.
SPECIFICATION Spec
CONSTANTS
  f1 = f1
  f2 = f2
  Files = {f1, f2}
  NoFile = NoFile
  MaxTasks = 2
  MaxCrashes = 1
  MaxRetries = 0
  MaxHistoryRetries = 0
INVARIANT UploadsSurviveRestart
SYMMETRY FileSymmetry
CHECK_DEADLOCK FALSE
