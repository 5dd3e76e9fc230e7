---------------------------- MODULE MCFileIngest ----------------------------
(* FileIngest on small instances. *)
EXTENDS FileIngest, TLC
CONSTANTS t1, t2

\* Request threads are interchangeable; used by the run that checks no liveness.
ThreadSymmetry == Permutations(Threads)
============================================================================
