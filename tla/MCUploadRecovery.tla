-------------------------- MODULE MCUploadRecovery --------------------------
(* UploadRecovery on small instances. *)
EXTENDS UploadRecovery, TLC

\* Files are interchangeable; used by the run that checks no liveness.
FileSymmetry == Permutations(Files)
============================================================================
