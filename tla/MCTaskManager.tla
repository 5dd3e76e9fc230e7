--------------------------- MODULE MCTaskManager ---------------------------
(* TaskManager on small instances. *)
EXTENDS TaskManager, TLC

\* Uploads are interchangeable; used by the runs that check no liveness.
UploadSymmetry == Permutations(Uploads)
============================================================================
