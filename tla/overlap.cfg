\* Two operations on one file overlap, and its ingests run meanwhile.
SPECIFICATION Spec
CONSTANTS
  t1 = t1
  t2 = t2
  NoThread = NoThread
  Threads = {t1, t2}
  Kinds = {"upload", "rollback", "deleteVersion", "deleteFile", "archive", "unarchive"}
  Uploaded = 2
  MaxVersion = 4
  MaxIngests = 3
  MaxOps = 3
  MaxRetries = 0
  MaxCrashes = 0
INVARIANTS TypeOK CurrentIsAVersion ShownIsCurrent ExcludedIsHidden NoZombies CurrentIsFound CurrentHasBlob
SYMMETRY ThreadSymmetry
CHECK_DEADLOCK FALSE
