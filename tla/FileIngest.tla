----------------------------- MODULE FileIngest -----------------------------
(***************************************************************************)
(* One managed file between two stores: its rows in meta.db and its chunks *)
(* in Qdrant.  Operations on the file (file_mgmt/files.py: new version,    *)
(* rollback, deletion of a version or of the file, exclusion from search)  *)
(* run in threadpool threads; ingests (tasks/handlers.py upload_handler)   *)
(* store the chunks of a version some time after it was uploaded.          *)
(*                                                                         *)
(* Nothing spans the two stores.  meta.db has one writer at a time: a      *)
(* transaction takes the write lock with its first write and keeps it to   *)
(* its commit, while reads and all Qdrant calls go ahead.  A chunk's flags *)
(* are rewritten by reading whole points and writing them back.            *)
(*                                                                         *)
(* The ways in which that goes wrong are the holes below; the properties   *)
(* say that there is no other.                                             *)
(***************************************************************************)
EXTENDS Naturals, FiniteSets

CONSTANTS
  Threads,     \* threads that run operations on the file
  NoThread,    \* nobody holds the write lock of meta.db
  Kinds,       \* the operations users call
  Uploaded,    \* versions the file has at first
  MaxVersion,  \* bound: versions ever uploaded
  MaxIngests,  \* bound: executions of upload_handler
  MaxOps,      \* bound: operations and retries ever started
  MaxRetries,  \* bound: retry_task calls among them
  MaxCrashes   \* bound: crashes

ASSUME ThreadsAssumption == IsFiniteSet(Threads) /\ NoThread \notin Threads
ASSUME KindsAssumption ==
  Kinds \subseteq {"upload", "rollback", "deleteVersion", "deleteFile", "archive", "unarchive"}
ASSUME VersionsAssumption == MaxVersion \in Nat /\ Uploaded \in 1..MaxVersion
ASSUME BoundsAssumption == /\ MaxIngests \in Nat /\ MaxIngests >= Uploaded
                           /\ MaxOps \in Nat
                           /\ MaxRetries \in Nat
                           /\ MaxCrashes \in Nat

Versions == 1..MaxVersion
Ingests == 1..MaxIngests
NoVersion == 0                \* current_version_id NULL, or no files row

VARIABLES
  file,      \* committed files row: there, current, archived, version (the
             \* optimistic lock, files.version)
  versions,  \* committed file_versions rows
  number,    \* version_no given to a version; 0: version id not used yet
  blobs,     \* versions whose upload is on disk
  lock,      \* thread that holds meta.db's write lock
  op,        \* the operation each thread is in
  chunks,    \* the points an ingest wrote: "none", "live" (archived = false,
             \* is_current = true) or "history" (both the other way)
  stage,     \* how far an ingest is
  ver,       \* the version an ingest reads, fixed with the task's arguments
  shownAs,   \* the task of an ingest: "open" (waiting, running or completed),
             \* "failed", "retried", or failed before a restart ("past")
  calls,     \* operations, retries and crashes so far
  holes      \* history: the known ways to go wrong that were met

fileVars == <<file, versions, number, blobs>>
indexVars == <<chunks, stage, ver, shownAs>>
CallKinds == {"op", "retry", "crash"}
vars == <<fileVars, lock, op, indexVars, calls, holes>>

ChunkStates == {"none", "live", "history"}
Running == {"queued", "running", "checked", "stored", "done", "failed"}
Stages == Running \union {"unused", "gone", "settled", "aborted", "replaced"}
Nothing == [i \in Ingests |-> "none"]
Idle == [kind |-> "none", pc |-> "idle", ver |-> NoVersion, later |-> {}, rev |-> 0,
         points |-> Nothing]

Pcs == {"idle", "lock", "purge", "scroll", "upsert", "queue", "commit"}
Operations == [kind : Kinds \union {"none"}, pc : Pcs, ver : 0..MaxVersion,
               later : SUBSET Versions, rev : Nat, points : [Ingests -> ChunkStates]]

\* late:      chunks were stored for a version that is not the current one
\* between:   chunks were stored after an operation had dealt with those it saw
\*            and before it committed
\* excluded:  chunks became live while the file is excluded from search
\* unchecked: an ingest ended without seeing that the file was being deleted
\* outnumbered: an upload did not get the highest version_no, for another one
\*            had been committed since it read that
\* missed:    a rollback kept a later version, committed since it listed them
\* stale:     a rollback rewrote flags when another operation had changed the
\*            file since, or was about to
\* resurrected: a rewrite put back points that were deleted after it read them
\* torn:      an operation that had touched blobs or chunks did not commit
\* dropped:   recovery gave up the ingest of a version that still exists
\* replayed:  a crash met an ingest that had stored and was still on the ledger
\* repeated:  a task was retried whose ingest had stored, or was about to, or
\*            whose points an operation had read
Holes == {"late", "between", "excluded", "unchecked", "outnumbered", "missed", "stale",
          "resurrected", "torn", "dropped", "replayed", "repeated"}

\* Between the first write and the commit of a transaction.
InTransaction(t) ==
  \/ op[t].kind \in {"upload", "archive", "unarchive"}
       /\ op[t].pc \in {"scroll", "upsert", "queue", "commit"}
  \/ op[t].kind = "rollback" /\ op[t].pc \in {"purge", "commit"}

TypeOK ==
  /\ file \in [there : BOOLEAN, current : 0..MaxVersion, archived : BOOLEAN, rev : Nat]
  /\ versions \subseteq Versions
  /\ number \in [Versions -> Nat]
  /\ blobs \subseteq Versions
  /\ lock \in Threads \union {NoThread}
  /\ op \in [Threads -> Operations]
  /\ chunks \in [Ingests -> ChunkStates]
  /\ stage \in [Ingests -> Stages]
  /\ ver \in [Ingests -> 0..MaxVersion]
  /\ shownAs \in [Ingests -> {"open", "failed", "retried", "past"}]
  /\ calls \in [CallKinds -> Nat]
  /\ holes \subseteq Holes
  /\ \A t \in Threads : lock = t <=> InTransaction(t)

\* Version Uploaded was just committed and queued for ingest; the versions
\* before it have been ingested and superseded.
Init ==
  /\ file = [there |-> TRUE, current |-> Uploaded, archived |-> FALSE, rev |-> 1]
  /\ versions = 1..Uploaded
  /\ number = [v \in Versions |-> IF v <= Uploaded THEN v ELSE 0]
  /\ blobs = 1..Uploaded
  /\ lock = NoThread
  /\ op = [t \in Threads |-> Idle]
  /\ chunks = [i \in Ingests |-> IF i < Uploaded THEN "history" ELSE "none"]
  /\ stage = [i \in Ingests |-> IF i < Uploaded THEN "settled"
                                ELSE IF i = Uploaded THEN "queued" ELSE "unused"]
  /\ ver = [i \in Ingests |-> IF i <= Uploaded THEN i ELSE NoVersion]
  /\ shownAs = [i \in Ingests |-> "open"]
  /\ calls = [k \in CallKinds |-> 0]
  /\ holes = {}

----------------------------------------------------------------------------
\* Helpers.

ChunksOf(vs) == {i \in Ingests : ver[i] \in vs}
Present == {i \in Ingests : chunks[i] # "none"}
Shown == {ver[i] : i \in {j \in Ingests : chunks[j] = "live"}}

\* delete_by_filter on file_id or version_id.
DeletePoints(is) == chunks' = [i \in Ingests |-> IF i \in is THEN "none" ELSE chunks[i]]

\* Executions are numbered in the order of their tasks.
IsUnused(i) == stage[i] = "unused" /\ \A j \in 1..(i - 1) : stage[j] # "unused"

\* The ledger covers a task until it settles, fails or is cancelled.
OnLedger == {i \in Ingests : stage[i] \in Running /\ shownAs[i] = "open"}

\* MaxOps bounds the two together.
Begun == calls["op"] + calls["retry"]

Fails(i) == shownAs' = [shownAs EXCEPT ![i] = IF @ = "open" THEN "failed" ELSE @]

Met(h, condition) == IF condition THEN {h} ELSE {}

AtRest == \A t \in Threads : op[t].pc = "idle"

\* An operation has dealt with the chunks it saw and is going to commit.
Between(t) ==
  \/ op[t].kind \in {"upload", "archive"} /\ op[t].pc \in {"upsert", "queue", "commit"}
  \/ op[t].kind = "rollback" /\ op[t].pc = "commit"
  \/ op[t].kind = "deleteFile" /\ op[t].pc = "lock"

Deleting == ~ file.there \/ \E t \in Threads : op[t].kind = "deleteFile" /\ op[t].pc = "lock"

At(t, kinds, pc) == op[t].kind \in kinds /\ op[t].pc = pc
Goto(t, pc) == op' = [op EXCEPT ![t].pc = pc]
End(t) == op' = [op EXCEPT ![t] = Idle]

Unlock(t) == lock' = IF lock = t THEN NoThread ELSE lock

----------------------------------------------------------------------------
\* An ingest: the handler on the loop up to the store stage, then _do_store in
\* an executor thread, which no cancel interrupts.

\* path.is_file(); the version id is a task argument from here on.
StartIngest(i) ==
  /\ stage[i] = "queued"
  /\ stage' = [stage EXCEPT ![i] = IF ver[i] \in blobs THEN "running" ELSE "failed"]
  /\ UNCHANGED <<fileVars, lock, op, chunks, ver, shownAs, calls, holes>>

\* Parse, enrichment or embedding fails, or the task is cancelled.
FailIngest(i) ==
  /\ stage[i] = "running"
  /\ stage' = [stage EXCEPT ![i] = "failed"]
  /\ UNCHANGED <<fileVars, lock, op, chunks, ver, shownAs, calls, holes>>

\* The zombie-chunk guard asks for the committed files row, not for the version.
CheckFile(i) ==
  /\ stage[i] = "running"
  /\ stage' = [stage EXCEPT ![i] = IF file.there THEN "checked" ELSE "failed"]
  /\ UNCHANGED <<fileVars, lock, op, chunks, ver, shownAs, calls, holes>>

\* upsert_points: live, whatever has become of the file or the version.
StorePoints(i) ==
  /\ stage[i] = "checked"
  /\ chunks' = [chunks EXCEPT ![i] = "live"]
  /\ stage' = [stage EXCEPT ![i] = "stored"]
  /\ holes' = holes \union Met("late", ver[i] # file.current)
                    \union Met("between", \E t \in Threads : Between(t))
                    \union Met("excluded", file.archived)
  /\ UNCHANGED <<fileVars, lock, op, ver, shownAs, calls>>

\* upsert_sparse_vectors raises, and nobody checks again; or, after the second
\* check, _bump_sparse_recalc_counter or what the handler still does.  The points
\* stay.
FailStored(i) ==
  /\ stage[i] \in {"stored", "done"}
  /\ stage' = [stage EXCEPT ![i] = "failed"]
  /\ holes' = holes \union Met("unchecked", stage[i] = "stored" /\ Deleting)
  /\ UNCHANGED <<fileVars, lock, op, chunks, ver, shownAs, calls>>

\* Mutation of RecheckFile: no rollback after the store.
RecheckNothing(i) ==
  /\ stage[i] = "stored"
  /\ holes' = holes \union Met("unchecked", file.there /\ Deleting)
  /\ stage' = [stage EXCEPT ![i] = "done"]
  /\ UNCHANGED <<fileVars, lock, op, chunks, ver, shownAs, calls>>

\* The second check: a file that went meanwhile loses all its chunks again.
RecheckFile(i) ==
  /\ stage[i] = "stored"
  /\ IF file.there
     THEN /\ holes' = holes \union Met("unchecked", Deleting)
          /\ UNCHANGED chunks
     ELSE DeletePoints(Ingests) /\ UNCHANGED holes
  /\ stage' = [stage EXCEPT ![i] = "done"]
  /\ UNCHANGED <<fileVars, lock, op, ver, shownAs, calls>>

\* The ledger row goes (module UploadRecovery).
SettleIngest(i) ==
  /\ stage[i] \in {"done", "failed"}
  /\ stage' = [stage EXCEPT ![i] = IF @ = "done" THEN "settled" ELSE "aborted"]
  /\ IF stage[i] = "failed" THEN Fails(i) ELSE UNCHANGED shownAs
  /\ UNCHANGED <<fileVars, lock, op, chunks, ver, calls, holes>>

\* A cancel or the timeout ends the handler, while _do_store goes on.
CutIngest(i) ==
  /\ stage[i] \in {"checked", "stored"}
  /\ shownAs[i] = "open"
  /\ Fails(i)
  /\ UNCHANGED <<fileVars, lock, op, chunks, stage, ver, calls, holes>>

\* retry_task: the same file and version once more.  Nothing that the failed
\* ingest stored, or is still storing, is deleted first.
RetryIngest(i) ==
  /\ shownAs[i] = "failed"
  /\ calls["retry"] < MaxRetries /\ Begun < MaxOps
  /\ calls' = [calls EXCEPT !["retry"] = @ + 1]
  /\ \E j \in Ingests : /\ IsUnused(j)
                        /\ stage' = [stage EXCEPT ![j] = "queued"]
                        /\ ver' = [ver EXCEPT ![j] = ver[i]]
  /\ shownAs' = [shownAs EXCEPT ![i] = "retried"]
  /\ holes' = holes \union
       Met("repeated", \/ i \in Present \/ stage[i] \in {"checked", "stored"}
                       \/ \E t \in Threads : op[t].points[i] # "none")
  /\ UNCHANGED <<fileVars, lock, op, chunks>>

----------------------------------------------------------------------------
\* Operations.  Each starts with its reads, whose answers it keeps; a request
\* the reads refuse (404, 400) changes nothing and is not a step.

Begin(t, kind, o) ==
  /\ kind \in Kinds
  /\ op[t].pc = "idle"
  /\ file.there
  /\ Begun < MaxOps
  /\ calls' = [calls EXCEPT !["op"] = @ + 1]
  /\ op' = [op EXCEPT ![t] = o]

\* upload_file_version: version_no is one more than the highest; the blob is
\* written before the first row.
BeginUpload(t, v) ==
  /\ number[v] = 0 /\ \A u \in 1..(v - 1) : number[u] # 0
  /\ Begin(t, "upload", [Idle EXCEPT !.kind = "upload", !.pc = "lock", !.ver = v])
  /\ \E top \in versions : /\ \A u \in versions : number[u] <= number[top]
                          /\ number' = [number EXCEPT ![v] = number[top] + 1]
  /\ blobs' = blobs \union {v}
  /\ UNCHANGED <<file, versions, lock, indexVars, holes>>

\* rollback_file_version: "later" is decided here, by version_no.
BeginRollback(t, v) ==
  /\ v \in versions /\ v # file.current
  /\ LET later == {u \in versions : number[u] > number[v]} IN
       Begin(t, "rollback", [Idle EXCEPT !.kind = "rollback", !.pc = "lock", !.ver = v,
                                         !.later = later])
  /\ UNCHANGED <<fileVars, lock, indexVars, holes>>

\* delete_file_version: the current version is refused.
BeginDeleteVersion(t, v) ==
  /\ v \in versions /\ v # file.current
  /\ Begin(t, "deleteVersion", [Idle EXCEPT !.kind = "deleteVersion", !.pc = "purge",
                                            !.ver = v])
  /\ UNCHANGED <<fileVars, lock, indexVars, holes>>

BeginDeleteFile(t) ==
  /\ Begin(t, "deleteFile", [Idle EXCEPT !.kind = "deleteFile", !.pc = "purge"])
  /\ UNCHANGED <<fileVars, lock, indexVars, holes>>

\* toggle_archive: the request names the version of the row it is based on.
BeginArchive(t, kind) ==
  /\ kind \in {"archive", "unarchive"} /\ file.archived = (kind = "unarchive")
  /\ Begin(t, kind, [Idle EXCEPT !.kind = kind, !.pc = "lock", !.rev = file.rev])
  /\ UNCHANGED <<fileVars, lock, indexVars, holes>>

\* Mutation of TakeLock: an upload does not mark the old chunks.
TakeLockWithoutMark(t) ==
  /\ lock = NoThread
  /\ \/ /\ At(t, {"upload", "archive", "unarchive"}, "lock")
        /\ IF file.there /\ (op[t].kind # "upload" => op[t].rev = file.rev)
           THEN lock' = t /\ Goto(t, IF op[t].kind = "upload" THEN "queue" ELSE "scroll")
           ELSE lock' = lock /\ End(t)
     \/ At(t, {"rollback"}, "lock") /\ lock' = t /\ Goto(t, "purge")
  /\ UNCHANGED <<fileVars, indexVars, calls, holes>>

\* The first write of a transaction.  An upload whose file has gone meanwhile
\* meets the foreign key, an archive whose row has changed the optimistic lock:
\* both end there.
TakeLock(t) ==
  /\ lock = NoThread
  /\ \/ /\ At(t, {"upload", "archive", "unarchive"}, "lock")
        /\ IF file.there /\ (op[t].kind # "upload" => op[t].rev = file.rev)
           THEN lock' = t /\ Goto(t, "scroll")
           ELSE lock' = lock /\ End(t)
     \/ At(t, {"rollback"}, "lock") /\ lock' = t /\ Goto(t, "purge")
  /\ UNCHANGED <<fileVars, indexVars, calls, holes>>

\* SQLite gives up on a lock that is not free within its timeout.
LockTimeout(t) ==
  /\ op[t].pc = "lock" /\ lock # NoThread
  /\ holes' = holes \union Met("torn", op[t].kind \in {"deleteVersion", "deleteFile"})
  /\ End(t)
  /\ UNCHANGED <<fileVars, lock, indexVars, calls>>

\* All points of the file, with payload and vectors.
ScrollPoints(t) ==
  /\ op[t].pc = "scroll"
  /\ op' = [op EXCEPT ![t].points = chunks, ![t].pc = "upsert"]
  /\ UNCHANGED <<fileVars, lock, indexVars, calls, holes>>

\* Mutation of Flags: a rollback makes every version's chunks current.
FlagsAllCurrent(t, i) ==
  CASE op[t].kind \in {"upload", "archive"} -> "history"
    [] op[t].kind = "rollback" -> "live"
    [] op[t].kind = "unarchive" -> IF ver[i] = file.current THEN "live" ELSE op[t].points[i]

\* Mutation of Flags: an exclusion leaves the flags alone.
FlagsKeptByArchive(t, i) ==
  CASE op[t].kind = "upload" -> "history"
    [] op[t].kind = "archive" -> op[t].points[i]
    [] op[t].kind = "rollback" -> IF ver[i] = op[t].ver THEN "live" ELSE "history"
    [] op[t].kind = "unarchive" -> IF ver[i] = file.current THEN "live" ELSE op[t].points[i]

\* Mutation of Flags: the end of an exclusion leaves them alone.
FlagsKeptByUnarchive(t, i) ==
  CASE op[t].kind \in {"upload", "archive"} -> "history"
    [] op[t].kind = "rollback" -> IF ver[i] = op[t].ver THEN "live" ELSE "history"
    [] op[t].kind = "unarchive" -> op[t].points[i]

\* What the three rewrites make of a point's archived and is_current.
Flags(t, i) ==
  CASE op[t].kind \in {"upload", "archive"} -> "history"
    [] op[t].kind = "rollback" -> IF ver[i] = op[t].ver THEN "live" ELSE "history"
    [] op[t].kind = "unarchive" -> IF ver[i] = file.current THEN "live" ELSE op[t].points[i]

\* The points that were read are written back, also those deleted since.
RewritePoints(t) ==
  /\ op[t].pc = "upsert"
  /\ chunks' = [i \in Ingests |->
                 IF op[t].points[i] = "none" THEN chunks[i] ELSE Flags(t, i)]
  /\ IF op[t].kind = "rollback"
     THEN End(t)
     ELSE op' = [op EXCEPT ![t].pc = IF op[t].kind = "upload" THEN "queue" ELSE "commit",
                           ![t].points = Nothing]
  /\ holes' = holes
       \union Met("resurrected", \E i \in Ingests \ Present : op[t].points[i] # "none")
       \union (IF op[t].kind # "rollback" THEN {}
               ELSE Met("stale", \/ file.current # op[t].ver
                                 \/ \E u \in Threads \ {t} : Between(u))
                    \union Met("excluded", file.archived))
  /\ UNCHANGED <<fileVars, lock, stage, ver, shownAs, calls>>

\* create_task inside the transaction, or no ingest for a type not supported.
QueueIngest(t) ==
  /\ At(t, {"upload"}, "queue")
  /\ \/ \E i \in Ingests :
          /\ IsUnused(i)
          /\ stage' = [stage EXCEPT ![i] = "queued"]
          /\ ver' = [ver EXCEPT ![i] = op[t].ver]
     \/ UNCHANGED <<stage, ver>>
  /\ Goto(t, "commit")
  /\ UNCHANGED <<fileVars, lock, chunks, shownAs, calls, holes>>

\* Mutation of PurgeLater: the blobs and chunks of the target go as well.
PurgeLaterAndTarget(t) ==
  /\ At(t, {"rollback"}, "purge")
  /\ blobs' = blobs \ (op[t].later \union {op[t].ver})
  /\ DeletePoints(ChunksOf(op[t].later))
  /\ Goto(t, "commit")
  /\ UNCHANGED <<file, versions, number, lock, stage, ver, shownAs, calls, holes>>

\* _purge_version_permanent for every later version, before the commit.
PurgeLater(t) ==
  /\ At(t, {"rollback"}, "purge")
  /\ blobs' = blobs \ op[t].later
  /\ DeletePoints(ChunksOf(op[t].later))
  /\ Goto(t, "commit")
  /\ UNCHANGED <<file, versions, number, lock, stage, ver, shownAs, calls, holes>>

\* The same for the one version, before the transaction has a lock.
PurgeVersion(t) ==
  /\ At(t, {"deleteVersion"}, "purge")
  /\ blobs' = blobs \ {op[t].ver}
  /\ DeletePoints(ChunksOf({op[t].ver}))
  /\ Goto(t, "lock")
  /\ UNCHANGED <<file, versions, number, lock, stage, ver, shownAs, calls, holes>>

\* cancel_ingest_tasks_for_files ends handlers before their store stage (a
\* queued task runs all the same, and the wait is bounded); then the chunks and
\* the file's directory are deleted.
PurgeFile(t) ==
  /\ At(t, {"deleteFile"}, "purge")
  /\ \E cut \in SUBSET {i \in Ingests : stage[i] = "running"} :
       stage' = [i \in Ingests |-> IF i \in cut THEN "failed" ELSE stage[i]]
  /\ DeletePoints(Ingests)
  /\ blobs' = {}
  /\ Goto(t, "lock")
  /\ UNCHANGED <<file, versions, number, lock, ver, shownAs, calls, holes>>

CommitUpload(t) ==
  /\ At(t, {"upload"}, "commit")
  /\ versions' = versions \union {op[t].ver}
  /\ file' = [file EXCEPT !.current = op[t].ver]
  /\ End(t) /\ Unlock(t)
  /\ holes' = holes \union Met("outnumbered", \E u \in versions : number[u] >= number[op[t].ver])
  /\ UNCHANGED <<number, blobs, indexVars, calls>>

\* Mutation of CommitRollback: foreign keys are off, SQLite's default.
CommitRollbackUnchecked(t) ==
  /\ At(t, {"rollback"}, "commit")
  /\ Unlock(t)
  /\ versions' = versions \ op[t].later
  /\ file' = IF file.there
             THEN [file EXCEPT !.current = op[t].ver, !.rev = @ + 1]
             ELSE file
  /\ Goto(t, "scroll")
  /\ UNCHANGED <<number, blobs, indexVars, calls, holes>>

\* A target that was deleted meanwhile violates the foreign key; the blobs and
\* chunks of the later versions are gone by then.
CommitRollback(t) ==
  /\ At(t, {"rollback"}, "commit")
  /\ Unlock(t)
  /\ IF file.there /\ op[t].ver \notin versions
     THEN /\ holes' = holes \union {"torn"}
          /\ End(t)
          /\ UNCHANGED <<file, versions>>
     ELSE /\ versions' = versions \ op[t].later
          /\ file' = IF file.there
                     THEN [file EXCEPT !.current = op[t].ver, !.rev = @ + 1]
                     ELSE file
          /\ Goto(t, "scroll")
          /\ holes' = holes \union
               Met("missed", \E u \in versions \ op[t].later : number[u] > number[op[t].ver])
  /\ UNCHANGED <<number, blobs, indexVars, calls>>

\* Mutation of CommitArchive: the connection is left open.
CommitArchiveOpen(t) ==
  /\ At(t, {"archive", "unarchive"}, "commit")
  /\ file' = [file EXCEPT !.archived = (op[t].kind = "archive"), !.rev = @ + 1]
  /\ End(t)
  /\ UNCHANGED <<versions, number, blobs, lock, indexVars, calls, holes>>

CommitArchive(t) ==
  /\ At(t, {"archive", "unarchive"}, "commit")
  /\ file' = [file EXCEPT !.archived = (op[t].kind = "archive"), !.rev = @ + 1]
  /\ End(t) /\ Unlock(t)
  /\ UNCHANGED <<versions, number, blobs, indexVars, calls, holes>>

\* A version that a rollback made current meanwhile keeps its row, without blob
\* and chunks.
DeleteVersionRow(t) ==
  /\ At(t, {"deleteVersion"}, "lock") /\ lock = NoThread
  /\ IF file.current = op[t].ver
     THEN holes' = holes \union {"torn"} /\ UNCHANGED versions
     ELSE versions' = versions \ {op[t].ver} /\ UNCHANGED holes
  /\ End(t)
  /\ UNCHANGED <<file, number, blobs, lock, indexVars, calls>>

\* All rows of the file go, those of versions added meanwhile as well.
DeleteFileRows(t) ==
  /\ At(t, {"deleteFile"}, "lock") /\ lock = NoThread
  /\ file' = [file EXCEPT !.there = FALSE, !.current = NoVersion]
  /\ versions' = {}
  /\ End(t)
  /\ UNCHANGED <<number, blobs, lock, indexVars, calls, holes>>

----------------------------------------------------------------------------
\* Crash and recovery (details of the ledger: module UploadRecovery).

Touched(t) ==
  \/ op[t].pc \in {"queue", "commit"}
  \/ op[t].kind = "rollback" /\ op[t].pc \in {"scroll", "upsert"}
  \/ op[t].kind \in {"deleteVersion", "deleteFile"} /\ op[t].pc = "lock"

Crash ==
  /\ calls["crash"] < MaxCrashes
  /\ calls' = [calls EXCEPT !["crash"] = @ + 1]
  /\ op' = [t \in Threads |-> Idle]
  /\ lock' = NoThread
  /\ stage' = [i \in Ingests |-> IF i \in OnLedger THEN "gone"
                                 ELSE IF stage[i] \in Running THEN "aborted" ELSE stage[i]]
  /\ shownAs' = [i \in Ingests |-> IF shownAs[i] = "failed" THEN "past" ELSE shownAs[i]]
  /\ holes' = holes \union Met("torn", \E t \in Threads : Touched(t))
       \union Met("unchecked", ~ file.there /\ \E i \in Ingests : stage[i] = "stored")
       \union Met("replayed", Present \intersect OnLedger # {})
  /\ UNCHANGED <<fileVars, chunks, ver>>

\* Mutation of Gone: ingests that settled are still on the ledger.
GoneOrSettled == {i \in Ingests : stage[i] \in {"gone", "settled"}}

Gone == {i \in Ingests : stage[i] = "gone"}

\* Mutation of Recover: the rows are cleared, nothing is queued again.
RecoverNothing ==
  /\ Gone # {}
  /\ stage' = [i \in Ingests |-> IF i \in Gone THEN "replaced" ELSE stage[i]]
  /\ holes' = holes \union
       Met("dropped", \E i \in Gone : ver[i] \in versions \ {file.current})
  /\ UNCHANGED <<fileVars, lock, op, chunks, ver, shownAs, calls>>

\* recover_upload_tasks: the newest row of the file, if its version is still
\* current, is queued again; it stores under new point ids.  The rest is dropped.
Recover ==
  \E last \in Gone :
    LET v == ver[last]
        kept == IF v = file.current THEN {v} ELSE {} IN
    /\ \A i \in Gone : i <= last
    /\ \E next \in SUBSET {j \in Ingests : IsUnused(j)} :
         /\ Cardinality(next) = Cardinality(kept)
         /\ stage' = [i \in Ingests |-> IF i \in next THEN "queued"
                                        ELSE IF i \in Gone THEN "replaced" ELSE stage[i]]
         /\ ver' = [i \in Ingests |-> IF i \in next THEN v ELSE ver[i]]
    /\ holes' = holes \union Met("dropped", \E i \in Gone : ver[i] \in versions \ kept)
    /\ UNCHANGED <<fileVars, lock, op, chunks, shownAs, calls>>

----------------------------------------------------------------------------
IngestStep(i) == \/ StartIngest(i) \/ FailIngest(i) \/ CheckFile(i) \/ StorePoints(i)
                 \/ FailStored(i) \/ RecheckFile(i) \/ SettleIngest(i)

ThreadStep(t) == \/ TakeLock(t) \/ LockTimeout(t) \/ ScrollPoints(t) \/ RewritePoints(t)
                 \/ QueueIngest(t) \/ PurgeLater(t) \/ PurgeVersion(t) \/ PurgeFile(t)
                 \/ CommitUpload(t) \/ CommitRollback(t) \/ CommitArchive(t)
                 \/ DeleteVersionRow(t) \/ DeleteFileRows(t)

Call(t) == \/ \E v \in Versions : BeginUpload(t, v) \/ BeginRollback(t, v)
                                  \/ BeginDeleteVersion(t, v)
           \/ BeginDeleteFile(t)
           \/ \E kind \in {"archive", "unarchive"} : BeginArchive(t, kind)

Next == \/ \E i \in Ingests : IngestStep(i) \/ CutIngest(i) \/ RetryIngest(i)
        \/ \E t \in Threads : ThreadStep(t) \/ Call(t)
        \/ Crash \/ Recover

Spec == Init /\ [][Next]_vars

\* Executor threads, the loop and request threads get on; a start recovers.
Fairness == /\ \A i \in Ingests : WF_vars(IngestStep(i))
            /\ \A t \in Threads : WF_vars(ThreadStep(t))
            /\ WF_vars(Recover)

FairSpec == Spec /\ Fairness
----------------------------------------------------------------------------
Covered(hs) == holes \intersect hs = {}

\* The file row names a version row, however operations overlap: the refusal to
\* delete the current version is a stale read, the foreign key is what holds.
CurrentIsAVersion == file.there => file.current \in versions

\* Searches never find two versions of the file, nor one that is not current:
\* flags follow current_version_id through uploads, rollbacks and restores
\* ("Archive old Qdrant chunks so search uses only the new version").
ShownIsCurrent ==
  Covered({"late", "between", "outnumbered", "missed", "stale", "resurrected"}) =>
    Shown \subseteq {file.current}

\* A file excluded from search is not found (toggle_archive: "exclude from
\* search").
ExcludedIsHidden ==
  Covered({"excluded", "between", "stale", "torn"}) /\ AtRest /\ file.archived => Shown = {}

\* A deleted file leaves no chunk behind, wherever its ingests were when it was
\* deleted: the second check of _do_store takes back what came too late.
NoZombies ==
  Covered({"unchecked", "resurrected"}) /\ ~ file.there =>
    \A i \in Present : stage[i] = "stored"

\* What was ingested for the version that is current can be found, whatever
\* versions, exclusions and rollbacks came in between.
CurrentIsFound ==
  Covered({"stale", "torn"}) /\ AtRest /\ file.there /\ ~ file.archived =>
    \A i \in ChunksOf({file.current}) :
      stage[i] \in {"done", "settled"} => chunks[i] = "live"

\* The current version can be opened and ingested again: no operation removes
\* the upload it still needs.
CurrentHasBlob ==
  Covered({"torn"}) /\ AtRest /\ file.there => file.current \in blobs

\* A version is in the index twice only if its ingest was run again when it had
\* stored: by recovery after a crash before it settled ("duplicate uploads
\* collapse into one"), or by a retry of its failed task.
TwiceOnlyByRerun ==
  Covered({"replayed", "repeated"}) => \A i, j \in Present : ver[i] = ver[j] => i = j

\* A current version that has an ingest is found in the end, or its ingest has
\* failed visibly and was not retried.
UploadsBecomeSearchable ==
  \A v \in Versions :
    file.current = v /\ ChunksOf({v}) # {} ~>
      \/ v \in Shown \/ file.archived \/ file.current # v
      \/ \E i \in ChunksOf({v}) : shownAs[i] \in {"failed", "past"}
      \/ ~ Covered({"torn", "dropped"})

\* The abstract file, seen through the flags of the chunks.
Searchable == INSTANCE SearchableFile WITH
                current <- file.current, shown <- Shown, trusted <- Covered(Holes)

\* The file keeps the promise of SearchableFile until one of the holes is met.
ImplementsSearchable == Searchable!Spec
=============================================================================
