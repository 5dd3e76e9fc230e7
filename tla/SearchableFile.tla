--------------------------- MODULE SearchableFile ---------------------------
(***************************************************************************)
(* What searches may see of one managed file: chunks of its current        *)
(* version or nothing, and the file changes its version, or goes, only     *)
(* while nothing of it is shown, so that no answer mixes two versions.     *)
(*                                                                         *)
(* Operations, ingests and the two stores do not appear here: FileIngest   *)
(* shows how far the code keeps the promise.  It keeps none once `trusted` *)
(* is lost.                                                                *)
(***************************************************************************)
CONSTANTS Versions,   \* versions the file may ever have
          NoVersion   \* no current version: the file is deleted

VARIABLES current,    \* the version users see in the library
          shown,      \* the versions a search may find chunks of
          trusted     \* nothing has happened that the promise does not cover

vars == <<current, shown, trusted>>

Init == /\ current \in Versions
        /\ shown = {}
        /\ trusted = TRUE

\* An ingest or a restore puts the current version into the index.
Show == /\ current # NoVersion
        /\ shown' = {current}
        /\ UNCHANGED <<current, trusted>>

Hide == /\ shown' = {}
        /\ UNCHANGED <<current, trusted>>

\* A new version, a rollback or the deletion of the file.
Replace(v) == /\ shown = {}
              /\ current' = v
              /\ UNCHANGED <<shown, trusted>>

\* From here on anything may be shown.
LoseTrust == /\ trusted' = FALSE
             /\ current' \in Versions \union {NoVersion}
             /\ shown' \in SUBSET Versions

Next == \/ trusted /\ (Show \/ Hide \/ \E v \in Versions \union {NoVersion} : Replace(v))
        \/ LoseTrust

Spec == Init /\ [][Next]_vars
=============================================================================
