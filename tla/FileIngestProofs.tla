-------------------------- MODULE FileIngestProofs --------------------------
(***************************************************************************)
(* Proofs about FileIngest, for any number of versions, ingests, threads   *)
(* and crashes.  Inv relates what an operation has done so far to what     *)
(* searches must not find; from it follow the invariants about old         *)
(* versions and deleted files and that the file implements SearchableFile. *)
(* Inv2 relates it to what must stay: uploads, chunks, and the flags that  *)
(* show them unless the file is excluded.                                  *)
(***************************************************************************)
EXTENDS FileIngest, FiniteSetTheorems, TLAPS

Typed ==
  /\ file \in [there : BOOLEAN, current : 0..MaxVersion, archived : BOOLEAN, rev : Nat]
  /\ versions \subseteq Versions
  /\ number \in [Versions -> Nat]
  /\ blobs \subseteq Versions
  /\ lock \in Threads \union {NoThread}
  /\ op \in [Threads -> Operations]
  /\ chunks \in [Ingests -> ChunkStates]
  /\ stage \in [Ingests -> Stages]
  /\ ver \in [Ingests -> 0..MaxVersion]
  /\ shownAs \in [Ingests -> {"open", "failed", "retried", "past"}]
  /\ calls \in [CallKinds -> Nat]
  /\ holes \subseteq Holes

\* What an operation has in its hands suits its kind.
Shape(o) ==
  /\ o.pc \in {"scroll", "upsert"} => o.kind \in {"upload", "rollback", "archive", "unarchive"}
  /\ o.kind \in {"upload", "rollback", "deleteVersion"} => o.ver \in Versions
  /\ o.kind = "rollback" => o.ver \notin o.later

Shaped == \A t \in Threads : Shape(op[t])

\* meta.db's write lock is with the thread that is in a transaction.
LockHeld == \A t \in Threads : lock = t <=> InTransaction(t)

\* Only ingests that were queued have chunks, or have had, and a version.
Assigned ==
  \A i \in Ingests :
    /\ stage[i] = "unused" => chunks[i] = "none" /\ \A t \in Threads : op[t].points[i] = "none"
    /\ stage[i] # "unused" => ver[i] \in Versions

\* A task that is shown as failed was one whose handler had come to its store
\* stage or to its end; an ingest that a crash cut was still covered, and one that
\* gave up is shown.
Ended ==
  \A i \in Ingests :
    /\ shownAs[i] # "open" =>
         stage[i] \in {"checked", "stored", "done", "failed", "settled", "aborted"}
    /\ stage[i] = "aborted" => shownAs[i] # "open"

\* The parts that hold whatever was met.
Base == Typed /\ Shaped /\ LockHeld /\ Assigned /\ Ended

\* A deleted file has no current version, and no upload commits to it.
CurrentRow ==
  /\ file.there => file.current \in versions
  /\ ~ file.there => file.current = NoVersion
  /\ \A t \in Threads : op[t].kind = "upload" /\ InTransaction(t) => file.there

\* None of the holes was met that make searches find another version.
Calm == Covered({"late", "between", "outnumbered", "missed", "stale", "resurrected"})

\* version_no orders the versions, and the current one is the last.
Ordered ==
  Calm => /\ \A v \in versions : number[v] # 0
          /\ \A u, v \in versions : number[u] = number[v] => u = v
          /\ file.there => \A v \in versions \ {file.current} : number[v] < number[file.current]

\* What an operation can rely on after the steps it has taken.
Progress(o) ==
  /\ o.kind = "rollback" /\ o.pc = "commit" =>
       \A i \in Ingests : chunks[i] = "live" => ver[i] \notin o.later
  /\ o.kind = "upload" /\ o.pc = "upsert" =>
       \A i \in Ingests : chunks[i] # "none" => o.points[i] # "none"
  /\ o.kind = "upload" /\ o.pc \in {"queue", "commit"} => \A i \in Ingests : chunks[i] # "live"
  /\ o.kind = "unarchive" /\ o.pc = "upsert" =>
       \A i \in Ingests : o.points[i] = "live" => ver[i] = file.current
  /\ o.kind = "deleteFile" /\ o.pc = "lock" => \A i \in Ingests : chunks[i] = "none"

Progressed == Calm => \A t \in Threads : Progress(op[t])

LiveIsCurrent == Calm => \A i \in Ingests : chunks[i] = "live" => ver[i] = file.current

\* Once the deletion has purged the file only a store stage can bring chunks.
NothingLeft ==
  Covered({"unchecked", "resurrected"}) /\ Deleting =>
    \A i \in Ingests : chunks[i] # "none" => stage[i] = "stored"

Inv == Base /\ CurrentRow /\ Ordered /\ Progressed /\ LiveIsCurrent /\ NothingLeft

----------------------------------------------------------------------------
\* Idle is an operation.
LEMMA IdleTyped == Idle \in Operations
  BY VersionsAssumption DEF Idle, Operations, Pcs, Nothing, ChunkStates, NoVersion

\* A version may be the current one.
LEMMA VersionsInRange == \A v \in Versions : v \in 0..MaxVersion /\ v # NoVersion
  BY VersionsAssumption DEF Versions, NoVersion

Rows == [there : BOOLEAN, current : 0..MaxVersion, archived : BOOLEAN, rev : Nat]

\* A row with another current version.
LEMMA RowMoved ==
  ASSUME NEW f \in Rows, NEW c \in 0..MaxVersion, NEW n \in Nat
  PROVE  [f EXCEPT !.current = c, !.rev = n] \in Rows
  BY DEF Rows

\* A row with the exclusion turned.
LEMMA RowTurned ==
  ASSUME NEW f \in Rows, NEW b \in BOOLEAN, NEW n \in Nat
  PROVE  [f EXCEPT !.archived = b, !.rev = n] \in Rows
  BY DEF Rows

\* What Goto does to the operation of its thread, and to no other.
LEMMA Going ==
  ASSUME op \in [Threads -> Operations], NEW t \in Threads, NEW pc \in Pcs, Goto(t, pc)
  PROVE  /\ op' \in [Threads -> Operations]
         /\ \A u \in Threads \ {t} : op'[u] = op[u]
         /\ op'[t].pc = pc
         /\ op'[t].kind = op[t].kind /\ op'[t].ver = op[t].ver
         /\ op'[t].later = op[t].later /\ op'[t].points = op[t].points
  BY DEF Goto, Operations

\* What End does.
LEMMA Ending ==
  ASSUME op \in [Threads -> Operations], NEW t \in Threads, End(t)
  PROVE  /\ op' \in [Threads -> Operations]
         /\ \A u \in Threads \ {t} : op'[u] = op[u]
         /\ op'[t] = Idle
  BY IdleTyped DEF End

\* What a rewrite that is part of a transaction does.
LEMMA Rewriting ==
  ASSUME op \in [Threads -> Operations], NEW t \in Threads, RewritePoints(t), op[t].kind # "rollback"
  PROVE  /\ op' \in [Threads -> Operations]
         /\ \A u \in Threads \ {t} : op'[u] = op[u]
         /\ op'[t].pc = IF op[t].kind = "upload" THEN "queue" ELSE "commit"
         /\ op'[t].kind = op[t].kind /\ op'[t].ver = op[t].ver
         /\ op'[t].later = op[t].later /\ op'[t].points = Nothing
  <1> DEFINE pc == IF op[t].kind = "upload" THEN "queue" ELSE "commit"
  <1>1. Nothing \in [Ingests -> ChunkStates] /\ pc \in Pcs
    BY DEF Nothing, ChunkStates, Pcs
  <1>2. op' = [op EXCEPT ![t].pc = pc, ![t].points = Nothing]
    BY DEF RewritePoints
  <1>3. op' = [op EXCEPT ![t] = [op[t] EXCEPT !.pc = pc, !.points = Nothing]]
    BY <1>2 DEF Operations
  <1> HIDE DEF pc
  <1>4. [op[t] EXCEPT !.pc = pc, !.points = Nothing] \in Operations
    BY <1>1 DEF Operations
  <1>5. op'[t] = [op[t] EXCEPT !.pc = pc, !.points = Nothing]
    BY <1>3
  <1>6. op[t] \in Operations
    OBVIOUS
  <1> QED
    BY <1>3, <1>4, <1>5, <1>6 DEF Operations, pc

----------------------------------------------------------------------------
\* The types, action by action.

\* Init is well typed.
LEMMA InitTyped == Init => Typed
  BY IdleTyped, VersionsAssumption, BoundsAssumption
     DEF Init, Typed, CallKinds, Versions, Ingests, ChunkStates, Stages, Running, NoVersion

\* An ingest's steps.
LEMMA IngestTyped ==
  ASSUME Typed, NEW i \in Ingests, IngestStep(i)
  PROVE  Typed'
  <1> USE DEF Typed, Stages, Running, ChunkStates, fileVars, indexVars
  <1>1. CASE StartIngest(i)
    BY <1>1 DEF StartIngest
  <1>2. CASE FailIngest(i)
    BY <1>2 DEF FailIngest
  <1>3. CASE CheckFile(i)
    BY <1>3 DEF CheckFile
  <1>4. CASE StorePoints(i)
    BY <1>4 DEF StorePoints, Met, Holes
  <1>5. CASE FailStored(i)
    BY <1>5 DEF FailStored, Met, Holes
  <1>6. CASE RecheckFile(i)
    BY <1>6 DEF RecheckFile, Met, Holes, DeletePoints
  <1>7. CASE SettleIngest(i)
    BY <1>7 DEF SettleIngest, Fails
  <1> QED
    BY <1>1, <1>2, <1>3, <1>4, <1>5, <1>6, <1>7 DEF IngestStep

\* A failure that only the task shows, and a retry.
LEMMA RetryTyped ==
  ASSUME Typed, NEW i \in Ingests, CutIngest(i) \/ RetryIngest(i)
  PROVE  Typed'
  <1> USE DEF Typed, Stages, Running, CallKinds, fileVars
  <1>1. CASE CutIngest(i)
    BY <1>1 DEF CutIngest, Fails
  <1>2. CASE RetryIngest(i)
    BY <1>2 DEF RetryIngest, Met, Holes
  <1> QED
    BY <1>1, <1>2

\* What a thread has in its hands when it has just been asked.
Request(o) ==
  /\ Shape(o) /\ o.points = Nothing
  /\ \/ o.pc = "lock" /\ o.kind # "deleteFile"
     \/ o.pc = "purge" /\ o.kind \in {"deleteVersion", "deleteFile"}

Asking(t) ==
  /\ op[t].pc = "idle" /\ file.there
  /\ \E o \in Operations : Request(o) /\ op' = [op EXCEPT ![t] = o]
  /\ calls' \in [CallKinds -> Nat]
  /\ number' \in [Versions -> Nat] /\ blobs' \subseteq Versions
  /\ UNCHANGED <<file, versions, lock, chunks, stage, ver, shownAs, holes>>

\* A request only starts something.
LEMMA Asked ==
  ASSUME Typed, NEW t \in Threads, Call(t)
  PROVE  Asking(t)
  <1>1. ASSUME NEW v \in Versions, BeginUpload(t, v) PROVE Asking(t)
    <2> DEFINE o == [Idle EXCEPT !.kind = "upload", !.pc = "lock", !.ver = v]
    <2>1. o \in Operations /\ Request(o)
      <3>1. o \in Operations
        BY <1>1, IdleTyped, VersionsInRange DEF BeginUpload, Begin, Operations, Pcs, Typed
      <3>2. Request(o)
        BY <1>1 DEF BeginUpload, Typed, Request, Shape, Idle
      <3> QED
        BY <3>1, <3>2
    <2>2. op[t].pc = "idle" /\ file.there /\ op' = [op EXCEPT ![t] = o] /\ calls' \in [CallKinds -> Nat]
      BY <1>1 DEF BeginUpload, Begin, Typed, CallKinds
    <2> HIDE DEF o
    <2>3. \E q \in Operations : Request(q) /\ op' = [op EXCEPT ![t] = q]
      BY <2>1, <2>2
    <2>4. number' \in [Versions -> Nat]
      <3>1. PICK top \in versions : number' = [number EXCEPT ![v] = number[top] + 1]
        BY <1>1 DEF BeginUpload
      <3> QED
        BY <3>1 DEF Typed
    <2> QED
      BY <1>1, <2>2, <2>3, <2>4 DEF BeginUpload, Typed, indexVars, Asking
  <1>2. ASSUME NEW v \in Versions, BeginRollback(t, v) PROVE Asking(t)
    <2> DEFINE o == [Idle EXCEPT !.kind = "rollback", !.pc = "lock", !.ver = v, !.later = {u \in versions : number[u] > number[v]}]
    <2>1. o \in Operations /\ Request(o)
      <3>1. o \in Operations
        BY <1>2, IdleTyped, VersionsInRange DEF BeginRollback, Begin, Operations, Pcs, Typed
      <3>2. Request(o)
        BY <1>2 DEF BeginRollback, Typed, Request, Shape, Idle
      <3> QED
        BY <3>1, <3>2
    <2>2. op[t].pc = "idle" /\ file.there /\ op' = [op EXCEPT ![t] = o] /\ calls' \in [CallKinds -> Nat]
      BY <1>2 DEF BeginRollback, Begin, Typed, CallKinds
    <2> HIDE DEF o
    <2>3. \E q \in Operations : Request(q) /\ op' = [op EXCEPT ![t] = q]
      BY <2>1, <2>2
    <2> QED
      BY <1>2, <2>2, <2>3 DEF BeginRollback, Typed, indexVars, fileVars, Asking
  <1>3. ASSUME NEW v \in Versions, BeginDeleteVersion(t, v) PROVE Asking(t)
    <2> DEFINE o == [Idle EXCEPT !.kind = "deleteVersion", !.pc = "purge", !.ver = v]
    <2>1. o \in Operations /\ Request(o)
      <3>1. o \in Operations
        BY <1>3, IdleTyped, VersionsInRange DEF BeginDeleteVersion, Begin, Operations, Pcs, Typed
      <3>2. Request(o)
        BY <1>3 DEF BeginDeleteVersion, Typed, Request, Shape, Idle
      <3> QED
        BY <3>1, <3>2
    <2>2. op[t].pc = "idle" /\ file.there /\ op' = [op EXCEPT ![t] = o] /\ calls' \in [CallKinds -> Nat]
      BY <1>3 DEF BeginDeleteVersion, Begin, Typed, CallKinds
    <2> HIDE DEF o
    <2>3. \E q \in Operations : Request(q) /\ op' = [op EXCEPT ![t] = q]
      BY <2>1, <2>2
    <2> QED
      BY <1>3, <2>2, <2>3 DEF BeginDeleteVersion, Typed, indexVars, fileVars, Asking
  <1>4. ASSUME BeginDeleteFile(t) PROVE Asking(t)
    <2> DEFINE o == [Idle EXCEPT !.kind = "deleteFile", !.pc = "purge"]
    <2>1. o \in Operations /\ Request(o)
      <3>1. o \in Operations
        BY <1>4, IdleTyped, VersionsInRange DEF BeginDeleteFile, Begin, Operations, Pcs, Typed
      <3>2. Request(o)
        BY <1>4 DEF BeginDeleteFile, Typed, Request, Shape, Idle
      <3> QED
        BY <3>1, <3>2
    <2>2. op[t].pc = "idle" /\ file.there /\ op' = [op EXCEPT ![t] = o] /\ calls' \in [CallKinds -> Nat]
      BY <1>4 DEF BeginDeleteFile, Begin, Typed, CallKinds
    <2> HIDE DEF o
    <2>3. \E q \in Operations : Request(q) /\ op' = [op EXCEPT ![t] = q]
      BY <2>1, <2>2
    <2> QED
      BY <1>4, <2>2, <2>3 DEF BeginDeleteFile, Typed, indexVars, fileVars, Asking
  <1>5. ASSUME NEW kind \in {"archive", "unarchive"}, BeginArchive(t, kind) PROVE Asking(t)
    <2> DEFINE o == [Idle EXCEPT !.kind = kind, !.pc = "lock", !.rev = file.rev]
    <2>1. o \in Operations /\ Request(o)
      <3>1. o \in Operations
        BY <1>5, IdleTyped, VersionsInRange DEF BeginArchive, Begin, Operations, Pcs, Typed
      <3>2. Request(o)
        BY <1>5 DEF Request, Shape, Idle
      <3> QED
        BY <3>1, <3>2
    <2>2. op[t].pc = "idle" /\ file.there /\ op' = [op EXCEPT ![t] = o] /\ calls' \in [CallKinds -> Nat]
      BY <1>5 DEF BeginArchive, Begin, Typed, CallKinds
    <2> HIDE DEF o
    <2>3. \E q \in Operations : Request(q) /\ op' = [op EXCEPT ![t] = q]
      BY <2>1, <2>2
    <2> QED
      BY <1>5, <2>2, <2>3 DEF BeginArchive, Typed, indexVars, fileVars, Asking
  <1> QED
    BY <1>1, <1>2, <1>3, <1>4, <1>5 DEF Call, Asking

\* Requests keep the types.
LEMMA CallTyped ==
  ASSUME Typed, NEW t \in Threads, Call(t)
  PROVE  Typed'
  BY Asked DEF Asking, Typed

\* The steps of an operation.
LEMMA ThreadTyped ==
  ASSUME Typed, Shaped, NEW t \in Threads, ThreadStep(t)
  PROVE  Typed'
  <1> USE DEF Typed, fileVars, indexVars
  <1>1. CASE TakeLock(t)
    <2>1. Goto(t, "scroll") \/ Goto(t, "purge") \/ End(t)
      BY <1>1 DEF TakeLock
    <2>2. op' \in [Threads -> Operations]
      BY <2>1, Going, Ending DEF Pcs
    <2> QED
      BY <1>1, <2>2 DEF TakeLock
  <1>2. CASE LockTimeout(t)
    BY <1>2, Ending DEF LockTimeout, Met, Holes
  <1>3. CASE ScrollPoints(t)
    BY <1>3, SMTT(30) DEF ScrollPoints, Operations, Pcs
  <1>4. CASE RewritePoints(t)
    <2>1. op' \in [Threads -> Operations]
      <3>1. CASE op[t].kind = "rollback"
        BY <1>4, <3>1, Ending DEF RewritePoints
      <3>2. CASE op[t].kind # "rollback"
        BY <1>4, <3>2, Rewriting
      <3> QED
        BY <3>1, <3>2
    <2>2. op[t].kind \in {"upload", "archive", "rollback", "unarchive"} /\ op[t].points \in [Ingests -> ChunkStates]
      BY <1>4 DEF RewritePoints, Shaped, Shape, Operations
    <2>3. \A i \in Ingests : Flags(t, i) \in ChunkStates
      BY <2>2 DEF Flags, ChunkStates
    <2>4. holes' \subseteq Holes
      BY <1>4 DEF RewritePoints, Met, Holes
    <2> QED
      BY <1>4, <2>1, <2>3, <2>4 DEF RewritePoints
  <1>5. CASE QueueIngest(t)
    <2>1. op' \in [Threads -> Operations]
      BY <1>5, Going DEF QueueIngest, Pcs
    <2>2. op[t].ver \in 0..MaxVersion
      BY DEF Operations
    <2> QED
      BY <1>5, <2>1, <2>2 DEF QueueIngest, Stages, Running
  <1>6. CASE PurgeLater(t) \/ PurgeVersion(t)
    <2>1. op' \in [Threads -> Operations]
      BY <1>6, Going DEF PurgeLater, PurgeVersion, Pcs
    <2> QED
      BY <1>6, <2>1 DEF PurgeLater, PurgeVersion, DeletePoints, ChunkStates
  <1>7. CASE PurgeFile(t)
    <2>1. op' \in [Threads -> Operations]
      BY <1>7, Going DEF PurgeFile, Pcs
    <2> QED
      BY <1>7, <2>1 DEF PurgeFile, DeletePoints, ChunkStates, Stages, Running
  <1>8. CASE CommitUpload(t)
    <2>1. op' \in [Threads -> Operations] /\ lock' \in Threads \union {NoThread}
      BY <1>8, Ending DEF CommitUpload, Unlock
    <2>2. op[t].ver \in Versions /\ op[t].ver \in 0..MaxVersion
      BY <1>8, VersionsInRange DEF CommitUpload, At, Shaped, Shape
    <2> QED
      BY <1>8, <2>1, <2>2 DEF CommitUpload, Met, Holes
  <1>9. CASE CommitRollback(t)
    <2>1. op' \in [Threads -> Operations] /\ lock' \in Threads \union {NoThread}
      BY <1>9, Ending, Going DEF CommitRollback, Unlock, Pcs
    <2>2. op[t].ver \in 0..MaxVersion
      BY DEF Operations
    <2>3. file' \in [there : BOOLEAN, current : 0..MaxVersion, archived : BOOLEAN, rev : Nat]
      <3>1. file' = file \/ file' = [file EXCEPT !.current = op[t].ver, !.rev = file.rev + 1]
        BY <1>9 DEF CommitRollback
      <3>2. file \in Rows /\ file.rev + 1 \in Nat
        BY DEF Rows
      <3>3. [file EXCEPT !.current = op[t].ver, !.rev = file.rev + 1] \in Rows
        BY <2>2, <3>2, RowMoved
      <3> QED
        BY <3>1, <3>2, <3>3 DEF Rows
    <2> QED
      BY <1>9, <2>1, <2>3 DEF CommitRollback, Met, Holes
  <1>10. CASE CommitArchive(t)
    <2>1. op' \in [Threads -> Operations] /\ lock' \in Threads \union {NoThread}
      BY <1>10, Ending DEF CommitArchive, Unlock
    <2> DEFINE b == op[t].kind = "archive"
    <2>2. file' = [file EXCEPT !.archived = b, !.rev = file.rev + 1] /\ b \in BOOLEAN
      BY <1>10 DEF CommitArchive
    <2> HIDE DEF b
    <2>3. file' \in [there : BOOLEAN, current : 0..MaxVersion, archived : BOOLEAN, rev : Nat]
      <3>1. file.rev + 1 \in Nat
        OBVIOUS
      <3> QED
        BY <2>2, <3>1, RowTurned DEF Rows
    <2> QED
      BY <1>10, <2>1, <2>3 DEF CommitArchive
  <1>11. CASE DeleteVersionRow(t) \/ DeleteFileRows(t)
    <2>1. op' \in [Threads -> Operations] /\ NoVersion \in 0..MaxVersion
      BY <1>11, Ending, VersionsAssumption DEF DeleteVersionRow, DeleteFileRows, NoVersion
    <2> QED
      BY <1>11, <2>1 DEF DeleteVersionRow, DeleteFileRows, Holes
  <1> QED
    BY <1>1, <1>2, <1>3, <1>4, <1>5, <1>6, <1>7, <1>8, <1>9, <1>10, <1>11 DEF ThreadStep

\* A crash and the start after it.
LEMMA CrashTyped ==
  ASSUME Typed, Crash \/ Recover
  PROVE  Typed'
  <1> USE DEF Typed, fileVars, indexVars
  <1>1. CASE Crash
    BY <1>1, IdleTyped DEF Crash, Stages, CallKinds, Met, Holes
  <1>2. CASE Recover
    <2>1. PICK last \in Gone : \E next \in SUBSET {j \in Ingests : IsUnused(j)} :
             /\ stage' = [i \in Ingests |-> IF i \in next THEN "queued"
                                            ELSE IF i \in Gone THEN "replaced" ELSE stage[i]]
             /\ ver' = [i \in Ingests |-> IF i \in next THEN ver[last] ELSE ver[i]]
      BY <1>2 DEF Recover
    <2>2. ver[last] \in 0..MaxVersion
      BY <2>1 DEF Gone
    <2>3. stage' \in [Ingests -> Stages] /\ ver' \in [Ingests -> 0..MaxVersion]
      BY <2>1, <2>2 DEF Stages, Running
    <2> QED
      BY <1>2, <2>3 DEF Recover, Met, Holes
  <1> QED
    BY <1>1, <1>2

\* Every step.
LEMMA StepTyped ==
  ASSUME Typed, Shaped, [Next]_vars
  PROVE  Typed'
  <1>1. CASE UNCHANGED vars
    BY <1>1 DEF vars, fileVars, indexVars, Typed
  <1> QED
    BY <1>1, IngestTyped, RetryTyped, CallTyped, ThreadTyped, CrashTyped DEF Next

\* What a cut and a retry leave alone.
LEMMA RetryFrame ==
  ASSUME NEW i \in Ingests, CutIngest(i) \/ RetryIngest(i)
  PROVE  UNCHANGED <<file, versions, number, blobs, lock, op, chunks>> /\ holes \subseteq holes'
  BY DEF CutIngest, RetryIngest, fileVars

\* A retry queues an ingest that was not used, and no other stage changes.
LEMMA RetryQueues ==
  ASSUME Typed, NEW i \in Ingests, CutIngest(i) \/ RetryIngest(i), NEW k \in Ingests
  PROVE  \/ stage'[k] = stage[k] /\ ver'[k] = ver[k]
         \/ /\ RetryIngest(i) /\ shownAs[i] = "failed"
            /\ stage[k] = "unused" /\ stage'[k] = "queued" /\ ver'[k] = ver[i]
            /\ \A j \in Ingests \ {k} : stage'[j] = stage[j]
  <1>1. CASE CutIngest(i)
    BY <1>1 DEF CutIngest
  <1>2. CASE RetryIngest(i)
    <2>1. PICK j \in Ingests : /\ IsUnused(j)
                               /\ stage' = [stage EXCEPT ![j] = "queued"]
                               /\ ver' = [ver EXCEPT ![j] = ver[i]]
      BY <1>2 DEF RetryIngest
    <2>2. stage[j] = "unused" /\ stage'[j] = "queued" /\ ver'[j] = ver[i]
      BY <2>1 DEF IsUnused, Typed
    <2>3. \A m \in Ingests \ {j} : stage'[m] = stage[m] /\ ver'[m] = ver[m]
      BY <2>1 DEF Typed
    <2>4. shownAs[i] = "failed"
      BY <1>2 DEF RetryIngest
    <2> QED
      BY <1>2, <2>2, <2>3, <2>4
  <1> QED
    BY <1>1, <1>2

----------------------------------------------------------------------------
\* Shapes, the lock and the assignments.

\* A rewrite, a scroll and the requests aside, a step of a thread is a Goto or an End.
LEMMA ThreadMoves ==
  ASSUME Typed, Shaped, NEW t \in Threads, ThreadStep(t)
  PROVE  /\ op' \in [Threads -> Operations]
         /\ \A u \in Threads \ {t} : op'[u] = op[u]
         /\ \/ op'[t] = Idle
            \/ /\ op'[t].kind = op[t].kind /\ op'[t].ver = op[t].ver /\ op'[t].later = op[t].later
               /\ \/ op'[t].points = op[t].points
                  \/ ScrollPoints(t) /\ op'[t].points = chunks
                  \/ op'[t].points = Nothing
               /\ op'[t].pc \in {"scroll", "upsert"} =>
                    op[t].kind \in {"upload", "rollback", "archive", "unarchive"}
  <1> USE DEF Typed
  <1>1. CASE TakeLock(t)
    <2>1. CASE Goto(t, "scroll") /\ op[t].kind \in {"upload", "archive", "unarchive"}
      BY <2>1, Going DEF Pcs
    <2>2. CASE Goto(t, "purge")
      BY <2>2, Going DEF Pcs
    <2>3. CASE End(t)
      BY <2>3, Ending
    <2> QED
      BY <1>1, <2>1, <2>2, <2>3 DEF TakeLock, At
  <1>2. CASE LockTimeout(t) \/ CommitUpload(t) \/ CommitArchive(t) \/ DeleteVersionRow(t)
             \/ DeleteFileRows(t)
    BY <1>2, Ending DEF LockTimeout, CommitUpload, CommitArchive, DeleteVersionRow, DeleteFileRows
  <1>3. CASE ScrollPoints(t)
    BY <1>3 DEF ScrollPoints, Operations, Pcs, Shaped, Shape
  <1>4. CASE RewritePoints(t)
    <2>1. CASE op[t].kind = "rollback"
      BY <1>4, <2>1, Ending DEF RewritePoints
    <2>2. CASE op[t].kind # "rollback"
      BY <1>4, <2>2, Rewriting
    <2> QED
      BY <2>1, <2>2
  <1>5. CASE QueueIngest(t) \/ PurgeLater(t) \/ PurgeVersion(t) \/ PurgeFile(t)
    <2>1. Goto(t, "commit") \/ Goto(t, "lock")
      BY <1>5 DEF QueueIngest, PurgeLater, PurgeVersion, PurgeFile
    <2> QED
      BY <2>1, Going DEF Pcs
  <1>6. CASE CommitRollback(t)
    <2>1. CASE Goto(t, "scroll") /\ op[t].kind = "rollback"
      BY <2>1, Going DEF Pcs
    <2>2. CASE End(t)
      BY <2>2, Ending
    <2> QED
      BY <1>6, <2>1, <2>2 DEF CommitRollback, At
  <1> QED
    BY <1>1, <1>2, <1>3, <1>4, <1>5, <1>6 DEF ThreadStep


\* Idle suits every shape.
LEMMA IdleShaped == Shape(Idle) /\ \A i \in Ingests : Idle.points[i] = "none" /\ Nothing[i] = "none"
  BY DEF Shape, Idle, Nothing

\* Operations keep to their kinds.
LEMMA StepShaped ==
  ASSUME Typed, Shaped, [Next]_vars
  PROVE  Shaped'
  <1>1. ASSUME NEW t \in Threads, Call(t) PROVE Shaped'
    <2>1. PICK o \in Operations : Request(o) /\ op' = [op EXCEPT ![t] = o]
      BY <1>1, Asked DEF Asking
    <2> QED
      BY <2>1 DEF Shaped, Request, Typed
  <1>2. ASSUME NEW t \in Threads, ThreadStep(t) PROVE Shaped'
    BY <1>2, ThreadMoves, IdleShaped DEF Shaped, Shape
  <1>3. CASE UNCHANGED op
    BY <1>3 DEF Shaped
  <1>4. CASE Crash
    BY <1>4, IdleShaped DEF Crash, Shaped
  <1>5. CASE (\E i \in Ingests : IngestStep(i) \/ CutIngest(i) \/ RetryIngest(i))
             \/ Recover \/ UNCHANGED vars
    BY <1>5, <1>3, RetryFrame DEF IngestStep, StartIngest, FailIngest, CheckFile, StorePoints, FailStored,
                      RecheckFile, SettleIngest, Recover, vars
  <1> QED
    BY <1>1, <1>2, <1>4, <1>5 DEF Next

\* A thread takes the lock when it is free and gives it back at its commit.
LEMMA StepLockHeld ==
  ASSUME Typed, Shaped, LockHeld, [Next]_vars
  PROVE  LockHeld'
  <1>1. ASSUME NEW t \in Threads, Call(t) PROVE LockHeld'
    <2>1. PICK o \in Operations : Request(o) /\ op' = [op EXCEPT ![t] = o]
      BY <1>1, Asked DEF Asking
    <2>2. op[t].pc = "idle" /\ lock' = lock
      BY <1>1, Asked DEF Asking
    <2>3. ~ InTransaction(t) /\ ~ InTransaction(t)'
      BY <2>1, <2>2 DEF InTransaction, Request, Typed
    <2>4. \A u \in Threads \ {t} : InTransaction(u)' = InTransaction(u)
      BY <2>1 DEF InTransaction, Typed
    <2> QED
      BY <2>2, <2>3, <2>4 DEF LockHeld
  <1>2. ASSUME NEW t \in Threads, ThreadStep(t) PROVE LockHeld'
    <2>1. \A u \in Threads \ {t} : InTransaction(u)' = InTransaction(u)
      BY <1>2, ThreadMoves DEF InTransaction
    <2>2. NoThread # t
      BY ThreadsAssumption
    <2>3. \/ lock' = lock /\ (InTransaction(t)' <=> InTransaction(t))
          \/ lock = NoThread /\ lock' = t /\ InTransaction(t)'
          \/ lock = t /\ lock' = NoThread /\ ~ InTransaction(t)'
      <3> USE DEF Typed, LockHeld, InTransaction
      <3>1. CASE TakeLock(t)
        BY <3>1, <2>2, Going, Ending DEF TakeLock, At, Pcs, Idle
      <3>2. CASE LockTimeout(t) \/ DeleteVersionRow(t) \/ DeleteFileRows(t)
        BY <3>2, <2>2, Ending DEF LockTimeout, DeleteVersionRow, DeleteFileRows, At, Idle
      <3>3. CASE ScrollPoints(t)
        BY <3>3, <2>2 DEF ScrollPoints, Operations, Pcs
      <3>4. CASE RewritePoints(t)
        <4>1. CASE op[t].kind = "rollback"
          BY <3>4, <4>1, <2>2, Ending DEF RewritePoints, Idle
        <4>2. CASE op[t].kind # "rollback"
          BY <3>4, <4>2, <2>2, Rewriting DEF RewritePoints, Shaped, Shape
        <4> QED
          BY <4>1, <4>2
      <3>5. CASE QueueIngest(t) \/ PurgeLater(t)
        BY <3>5, <2>2, Going DEF QueueIngest, PurgeLater, At, Pcs
      <3>6. CASE PurgeVersion(t) \/ PurgeFile(t)
        BY <3>6, <2>2, Going DEF PurgeVersion, PurgeFile, At, Pcs
      <3>7. CASE CommitUpload(t) \/ CommitArchive(t)
        <4>1. InTransaction(t) /\ op'[t] = Idle
          BY <3>7, Ending DEF CommitUpload, CommitArchive, At
        <4>2. lock = t
          BY <4>1
        <4>3. lock' = NoThread
          BY <3>7, <4>2 DEF CommitUpload, CommitArchive, Unlock
        <4>4. ~ InTransaction(t)'
          BY <4>1 DEF Idle
        <4> QED
          BY <4>2, <4>3, <4>4
      <3>8. CASE CommitRollback(t)
        <4>1. InTransaction(t) /\ op[t].kind = "rollback"
          BY <3>8 DEF CommitRollback, At
        <4>2. op'[t] = Idle \/ (op'[t].pc = "scroll" /\ op'[t].kind = op[t].kind)
          BY <3>8, Ending, Going DEF CommitRollback, Pcs
        <4> QED
          BY <3>8, <4>1, <4>2 DEF CommitRollback, Unlock, Idle
      <3> QED
        BY <1>2, <3>1, <3>2, <3>3, <3>4, <3>5, <3>6, <3>7, <3>8 DEF ThreadStep
    <2>4. CASE lock' = lock /\ (InTransaction(t)' <=> InTransaction(t))
      BY <2>1, <2>4 DEF LockHeld
    <2>5. CASE lock = NoThread /\ lock' = t /\ InTransaction(t)'
      BY <2>1, <2>5, ThreadsAssumption DEF LockHeld
    <2>6. CASE lock = t /\ lock' = NoThread /\ ~ InTransaction(t)'
      BY <2>1, <2>6, ThreadsAssumption DEF LockHeld
    <2> QED
      BY <2>3, <2>4, <2>5, <2>6
  <1>3. CASE Crash
    BY <1>3, ThreadsAssumption DEF Crash, LockHeld, InTransaction, Idle
  <1>4. CASE UNCHANGED <<op, lock>>
    BY <1>4 DEF LockHeld, InTransaction
  <1>5. CASE (\E i \in Ingests : IngestStep(i) \/ CutIngest(i) \/ RetryIngest(i))
             \/ Recover \/ UNCHANGED vars
    BY <1>5, <1>4, RetryFrame DEF IngestStep, StartIngest, FailIngest, CheckFile, StorePoints, FailStored,
                      RecheckFile, SettleIngest, Recover, vars
  <1> QED
    BY <1>1, <1>2, <1>3, <1>5 DEF Next

\* Ingests are assigned for good, and points come from ingests.
LEMMA StepAssigned ==
  ASSUME Typed, Shaped, Assigned, Ended, [Next]_vars
  PROVE  Assigned'
  <1> USE DEF Typed, Assigned
  <1>1. ASSUME NEW i \in Ingests, IngestStep(i) PROVE Assigned'
    <2>1. UNCHANGED <<op, ver>> /\ \A j \in Ingests \ {i} : stage'[j] = stage[j]
      BY <1>1 DEF IngestStep, StartIngest, FailIngest, CheckFile, StorePoints, FailStored,
                  RecheckFile, SettleIngest, indexVars, fileVars
    <2>2. stage[i] # "unused" /\ stage'[i] # "unused"
      BY <1>1 DEF IngestStep, StartIngest, FailIngest, CheckFile, StorePoints, FailStored,
                  RecheckFile, SettleIngest
    <2>3. \A j \in Ingests \ {i} : chunks'[j] = chunks[j] \/ chunks'[j] = "none"
      BY <1>1 DEF IngestStep, StartIngest, FailIngest, CheckFile, StorePoints, FailStored,
                  RecheckFile, SettleIngest, DeletePoints
    <2> QED
      BY <2>1, <2>2, <2>3
  <1>2. ASSUME NEW t \in Threads, Call(t) PROVE Assigned'
    <2>1. PICK o \in Operations : Request(o) /\ op' = [op EXCEPT ![t] = o]
      BY <1>2, Asked DEF Asking
    <2>2. UNCHANGED <<chunks, stage, ver>>
      BY <1>2, Asked DEF Asking
    <2> QED
      BY <2>1, <2>2, IdleShaped DEF Request
  <1>3. ASSUME NEW t \in Threads, ThreadStep(t) PROVE Assigned'
    <2>1. ASSUME NEW i \in Ingests
          PROVE  /\ stage'[i] = "unused" => stage[i] = "unused"
                 /\ stage[i] = "unused" => chunks'[i] = "none"
                 /\ stage[i] # "unused" => ver'[i] = ver[i]
                 /\ stage[i] = "unused" /\ stage'[i] # "unused" => ver'[i] \in Versions
      <3>1. CASE RewritePoints(t)
        BY <3>1 DEF RewritePoints
      <3>2. CASE QueueIngest(t)
        <4>1. op[t].ver \in Versions
          BY <3>2 DEF QueueIngest, At, Shaped, Shape
        <4> QED
          BY <3>2, <4>1 DEF QueueIngest, IsUnused
      <3>3. CASE PurgeLater(t) \/ PurgeVersion(t) \/ PurgeFile(t)
        BY <3>3 DEF PurgeLater, PurgeVersion, PurgeFile, DeletePoints
      <3>4. CASE UNCHANGED indexVars
        BY <3>4 DEF indexVars
      <3> QED
        BY <1>3, <3>1, <3>2, <3>3, <3>4
           DEF ThreadStep, TakeLock, LockTimeout, ScrollPoints, CommitUpload, CommitRollback,
               CommitArchive, DeleteVersionRow, DeleteFileRows
    <2>2. \A u \in Threads, i \in Ingests : stage[i] = "unused" => op'[u].points[i] = "none"
      BY <1>3, ThreadMoves, IdleShaped
    <2> QED
      BY <2>1, <2>2
  <1>4. CASE Crash
    BY <1>4, IdleShaped DEF Crash, OnLedger, Running
  <1>5. CASE Recover
    <2> DEFINE Requeued(last, next) ==
             /\ stage' = [i \in Ingests |-> IF i \in next THEN "queued"
                                            ELSE IF i \in Gone THEN "replaced" ELSE stage[i]]
             /\ ver' = [i \in Ingests |-> IF i \in next THEN ver[last] ELSE ver[i]]
    <2>1. PICK last \in Gone : \E next \in SUBSET {j \in Ingests : IsUnused(j)} :
                               Requeued(last, next)
      <3>1. \E last \in Gone :
              LET v == ver[last]
                  kept == IF v = file.current THEN {v} ELSE {} IN
              \E next \in SUBSET {j \in Ingests : IsUnused(j)} :
                /\ Cardinality(next) = Cardinality(kept)
                /\ Requeued(last, next)
        BY <1>5, Zenon DEF Recover
      <3> HIDE DEF Requeued
      <3> QED
        BY <3>1, Zenon
    <2>2. ver[last] \in Versions
      BY <2>1 DEF Gone
    <2>3. PICK next \in SUBSET {j \in Ingests : IsUnused(j)} :
             /\ stage' = [i \in Ingests |-> IF i \in next THEN "queued"
                                            ELSE IF i \in Gone THEN "replaced" ELSE stage[i]]
             /\ ver' = [i \in Ingests |-> IF i \in next THEN ver[last] ELSE ver[i]]
      BY <2>1
    <2>4. /\ UNCHANGED <<op, chunks>>
          /\ \A i \in Ingests : /\ stage[i] = "gone" => i \in Gone
                                /\ i \in next => stage[i] = "unused"
                                /\ i \in Gone => stage[i] = "gone"
      BY <1>5 DEF Recover, Gone, IsUnused
    <2>5. ASSUME NEW i \in Ingests, stage'[i] = "unused"
          PROVE  chunks'[i] = "none" /\ \A t \in Threads : op'[t].points[i] = "none"
      <3>1. stage[i] = "unused"
        BY <2>3, <2>5
      <3> QED
        BY <2>4, <3>1
    <2>6. ASSUME NEW i \in Ingests, stage'[i] # "unused"
          PROVE  ver'[i] \in Versions
      <3>1. CASE i \in next
        BY <2>2, <2>3, <3>1
      <3>2. CASE i \notin next
        <4>1. ver'[i] = ver[i] /\ stage[i] # "unused"
          BY <2>3, <2>4, <2>6, <3>2
        <4> QED
          BY <4>1
      <3> QED
        BY <3>1, <3>2
    <2> QED
      BY <2>5, <2>6
  <1>6. CASE UNCHANGED vars
    BY <1>6 DEF vars, indexVars
  <1>7. ASSUME NEW i \in Ingests, CutIngest(i) \/ RetryIngest(i) PROVE Assigned'
    <2>1. UNCHANGED <<op, chunks>>
      BY <1>7, RetryFrame
    <2>2. RetryIngest(i) /\ shownAs[i] = "failed" => stage[i] # "unused"
      BY DEF Ended
    <2> QED
      BY <1>7, <2>1, <2>2, RetryQueues
  <1> QED
    BY <1>1, <1>2, <1>3, <1>4, <1>5, <1>6, <1>7 DEF Next

\* Tasks fail, and are retried, in their order.
LEMMA StepEnded ==
  ASSUME Typed, Ended, [Next]_vars
  PROVE  Ended'
  <1> USE DEF Typed, Ended
  <1>1. ASSUME NEW i \in Ingests, IngestStep(i) PROVE Ended'
    <2>1. CASE SettleIngest(i)
      BY <2>1 DEF SettleIngest, Fails
    <2>2. CASE ~ SettleIngest(i)
      BY <1>1, <2>2 DEF IngestStep, StartIngest, FailIngest, CheckFile, StorePoints, FailStored,
                        RecheckFile
    <2> QED
      BY <2>1, <2>2
  <1>2. ASSUME NEW i \in Ingests, CutIngest(i) PROVE Ended'
    BY <1>2 DEF CutIngest, Fails
  <1>3. ASSUME NEW i \in Ingests, RetryIngest(i) PROVE Ended'
    <2>1. /\ shownAs[i] = "failed" /\ shownAs' = [shownAs EXCEPT ![i] = "retried"]
          /\ \A k \in Ingests : stage'[k] = stage[k] \/ (stage[k] = "unused" /\ stage'[k] = "queued")
      BY <1>3, RetryQueues DEF RetryIngest
    <2> QED
      BY <2>1
  <1>4. ASSUME NEW t \in Threads, ThreadStep(t) PROVE Ended'
    <2>1. shownAs' = shownAs
      BY <1>4 DEF ThreadStep, TakeLock, LockTimeout, ScrollPoints, RewritePoints, QueueIngest,
                PurgeLater, PurgeVersion, PurgeFile, CommitUpload, CommitRollback, CommitArchive,
                DeleteVersionRow, DeleteFileRows, indexVars
    <2>2. \A k \in Ingests : \/ stage'[k] = stage[k]
                             \/ stage[k] = "unused" /\ stage'[k] = "queued"
                             \/ stage[k] = "running" /\ stage'[k] = "failed"
      BY <1>4 DEF ThreadStep, TakeLock, LockTimeout, ScrollPoints, RewritePoints, QueueIngest, IsUnused,
                PurgeLater, PurgeVersion, PurgeFile, CommitUpload, CommitRollback, CommitArchive,
                DeleteVersionRow, DeleteFileRows, indexVars
    <2> QED
      BY <2>1, <2>2
  <1>5. ASSUME NEW t \in Threads, Call(t) PROVE Ended'
    BY <1>5, Asked DEF Asking
  <1>6. CASE Crash
    BY <1>6 DEF Crash, OnLedger, Running
  <1>7. CASE Recover
    <2>1. shownAs' = shownAs
      BY <1>7 DEF Recover
    <2>2. \A k \in Ingests : \/ stage'[k] = stage[k]
                             \/ stage[k] \in {"unused", "gone"} /\ stage'[k] \in {"queued", "replaced"}
      BY <1>7 DEF Recover, IsUnused, Gone
    <2> QED
      BY <2>1, <2>2
  <1>8. CASE UNCHANGED vars
    BY <1>8 DEF vars, indexVars
  <1> QED
    BY <1>1, <1>2, <1>3, <1>4, <1>5, <1>6, <1>7, <1>8 DEF Next

----------------------------------------------------------------------------
\* The rows.

\* Ingests leave the rows and the operations alone.
LEMMA IngestFrame ==
  ASSUME NEW i \in Ingests, IngestStep(i)
  PROVE  UNCHANGED <<file, versions, number, lock, op, ver>>
  BY DEF IngestStep, StartIngest, FailIngest, CheckFile, StorePoints, FailStored, RecheckFile,
         SettleIngest, fileVars, indexVars

\* A file whose row is there has the current version among its rows.
LEMMA StepCurrentRow ==
  ASSUME Base, CurrentRow, [Next]_vars
  PROVE  CurrentRow'
  <1> USE DEF Base
  <1>1. ASSUME NEW t \in Threads, Call(t) PROVE CurrentRow'
    <2>1. PICK o \in Operations : Request(o) /\ op' = [op EXCEPT ![t] = o]
      BY <1>1, Asked DEF Asking
    <2>2. UNCHANGED <<file, versions>>
      BY <1>1, Asked DEF Asking
    <2>3. op'[t].pc \notin {"scroll", "upsert", "queue", "commit"} /\ \A u \in Threads \ {t} : op'[u] = op[u]
      BY <2>1 DEF Typed, Request
    <2> QED
      BY <2>2, <2>3 DEF CurrentRow, InTransaction
  <1>2. ASSUME NEW t \in Threads, ThreadStep(t) PROVE CurrentRow'
    <2>1. \A u \in Threads \ {t} : op'[u] = op[u]
      BY <1>2, ThreadMoves
    <2>2. CASE DeleteFileRows(t)
      <3>1. lock = NoThread /\ op'[t] = Idle /\ file'.there = FALSE /\ file'.current = NoVersion
        BY <2>2, Ending DEF DeleteFileRows, Typed
      <3>2. \A u \in Threads : ~ InTransaction(u)
        BY <3>1, ThreadsAssumption DEF LockHeld
      <3> QED
        BY <2>1, <3>1, <3>2 DEF CurrentRow, InTransaction, Idle
    <2>3. CASE CommitUpload(t)
      <3>1. InTransaction(t) /\ op[t].kind = "upload"
        BY <2>3 DEF CommitUpload, At, InTransaction
      <3>2. file.there /\ file'.there = file.there /\ file'.current = op[t].ver /\ op[t].ver \in versions'
        BY <2>3, <3>1 DEF CommitUpload, CurrentRow, Typed
      <3>3. op'[t] = Idle
        BY <2>3, Ending DEF CommitUpload, Typed
      <3> QED
        BY <2>1, <3>2, <3>3 DEF CurrentRow, InTransaction, Idle
    <2>4. CASE CommitRollback(t)
      <3>1. op'[t] = Idle \/ op'[t].kind = "rollback"
        BY <2>4, Ending, Going DEF CommitRollback, At, Typed, Pcs
      <3>2. file'.there = file.there
        BY <2>4 DEF CommitRollback, Typed
      <3>3. file.there => file'.current \in versions'
        <4>1. CASE op[t].ver \notin versions
          BY <2>4, <4>1 DEF CommitRollback, CurrentRow
        <4>2. CASE op[t].ver \in versions
          BY <2>4, <4>2 DEF CommitRollback, Shaped, Shape, At, Typed
        <4> QED
          BY <4>1, <4>2
      <3>4. ~ file.there => file' = file
        BY <2>4 DEF CommitRollback
      <3> QED
        BY <2>1, <3>1, <3>2, <3>3, <3>4 DEF CurrentRow, InTransaction, Idle
    <2>5. CASE CommitArchive(t) \/ DeleteVersionRow(t)
      <3>1. op'[t] = Idle
        BY <2>5, Ending DEF CommitArchive, DeleteVersionRow, Typed
      <3>2. file'.there = file.there /\ file'.current = file.current
        BY <2>5 DEF CommitArchive, DeleteVersionRow, Typed
      <3>3. file.current \in versions => file.current \in versions'
        BY <2>5 DEF CommitArchive, DeleteVersionRow
      <3> QED
        BY <2>1, <3>1, <3>2, <3>3 DEF CurrentRow, InTransaction, Idle
    <2>6. CASE UNCHANGED <<file, versions>>
      <3>1. op'[t].kind = "upload" /\ InTransaction(t)' /\ ~ InTransaction(t) => file.there
        <4>1. CASE TakeLock(t)
          BY <4>1, Going, Ending DEF TakeLock, At, Typed, Pcs, InTransaction, Idle
        <4>2. CASE ~ TakeLock(t)
          <5>1. CASE LockTimeout(t)
            BY <5>1, Ending DEF LockTimeout, Typed, Idle
          <5>2. CASE ScrollPoints(t)
            BY <5>2 DEF ScrollPoints, InTransaction, Typed
          <5>3. CASE RewritePoints(t)
            <6>1. CASE op[t].kind = "rollback"
              BY <5>3, <6>1, Ending DEF RewritePoints, Idle, Typed
            <6>2. CASE op[t].kind # "rollback"
              <7>1. op'[t].kind = op[t].kind /\ op[t].pc = "upsert"
                BY <5>3, <6>2, Rewriting DEF Typed, RewritePoints
              <7> QED
                BY <7>1 DEF InTransaction
            <6> QED
              BY <6>1, <6>2
          <5>4. CASE QueueIngest(t) \/ PurgeLater(t) \/ PurgeVersion(t) \/ PurgeFile(t)
            BY <5>4, Going DEF QueueIngest, PurgeLater, PurgeVersion, PurgeFile, At, Typed, Pcs,
                               InTransaction
          <5>5. CASE CommitUpload(t) \/ CommitArchive(t) \/ DeleteVersionRow(t) \/ DeleteFileRows(t)
            <6>1. End(t)
              BY <5>5 DEF CommitUpload, CommitArchive, DeleteVersionRow, DeleteFileRows
            <6> QED
              BY <6>1, Ending DEF Typed, Idle
          <5>6. CASE CommitRollback(t)
            BY <5>6, Ending, Going DEF CommitRollback, At, Typed, Pcs, Idle
          <5> QED
            BY <1>2, <4>2, <5>1, <5>2, <5>3, <5>4, <5>5, <5>6 DEF ThreadStep
        <4> QED
          BY <4>1, <4>2
      <3>2. op'[t] = Idle \/ op'[t].kind = op[t].kind
        BY <1>2, ThreadMoves
      <3> QED
        BY <2>1, <2>6, <3>1, <3>2 DEF CurrentRow, InTransaction, Idle
    <2> QED
      BY <1>2, <2>2, <2>3, <2>4, <2>5, <2>6
         DEF ThreadStep, TakeLock, LockTimeout, ScrollPoints, RewritePoints, QueueIngest,
             PurgeLater, PurgeVersion, PurgeFile, fileVars
  <1>3. CASE Crash
    BY <1>3 DEF Crash, CurrentRow, InTransaction, Idle, fileVars
  <1>4. CASE UNCHANGED <<file, versions, op>>
    BY <1>4 DEF CurrentRow, InTransaction
  <1> QED
    BY <1>1, <1>2, <1>3, <1>4, IngestFrame, RetryFrame DEF Next, Recover, vars, fileVars

\* The current version changes at the commit of an upload, of a rollback or of
\* the deletion of the file.
LEMMA CurrentMoves ==
  ASSUME Base, [Next]_vars, file'.current # file.current
  PROVE  \E t \in Threads : CommitUpload(t) \/ CommitRollback(t) \/ DeleteFileRows(t)
  <1>1. ASSUME NEW t \in Threads, ThreadStep(t)
        PROVE  CommitUpload(t) \/ CommitRollback(t) \/ DeleteFileRows(t)
    <2>1. CASE CommitArchive(t)
      BY <2>1 DEF CommitArchive, Base, Typed
    <2>2. CASE UNCHANGED file
      BY <2>2
    <2> QED
      BY <1>1, <2>1, <2>2
         DEF ThreadStep, TakeLock, LockTimeout, ScrollPoints, RewritePoints, QueueIngest, PurgeLater,
             PurgeVersion, PurgeFile, DeleteVersionRow, fileVars
  <1>2. ASSUME NEW t \in Threads, Call(t) PROVE FALSE
    BY <1>2, Asked DEF Base, Asking
  <1> QED
    BY <1>1, <1>2, IngestFrame, RetryFrame DEF Next, Crash, Recover, vars, fileVars

\* What was met is not forgotten.
LEMMA HolesGrow ==
  ASSUME Typed, [Next]_vars
  PROVE  holes \subseteq holes'
  <1>1. ASSUME NEW i \in Ingests, IngestStep(i) PROVE holes \subseteq holes'
    BY <1>1 DEF IngestStep, StartIngest, FailIngest, CheckFile, StorePoints, FailStored, RecheckFile,
                SettleIngest
  <1>2. ASSUME NEW t \in Threads, ThreadStep(t) PROVE holes \subseteq holes'
    BY <1>2 DEF ThreadStep, TakeLock, LockTimeout, ScrollPoints, RewritePoints, QueueIngest,
                PurgeLater, PurgeVersion, PurgeFile, CommitUpload, CommitRollback, CommitArchive,
                DeleteVersionRow, DeleteFileRows
  <1>3. ASSUME NEW t \in Threads, Call(t) PROVE holes \subseteq holes'
    BY <1>3, Asked DEF Asking
  <1> QED
    BY <1>1, <1>2, <1>3, RetryFrame DEF Next, Crash, Recover, vars

\* A version_no is given once; commits keep the current version on top.
LEMMA StepOrdered ==
  ASSUME Base, CurrentRow, Ordered, [Next]_vars
  PROVE  Ordered'
  <1> SUFFICES ASSUME Calm' PROVE Ordered'
    BY DEF Ordered
  <1> USE DEF Base, Typed
  <1>1. Calm
    BY HolesGrow DEF Calm, Covered
  <1>2. ASSUME NEW t \in Threads, NEW v \in Versions, BeginUpload(t, v) PROVE Ordered'
    <2>1. v \notin versions
      BY <1>1, <1>2 DEF BeginUpload, Ordered
    <2>2. PICK top \in versions : number' = [number EXCEPT ![v] = number[top] + 1]
      BY <1>2 DEF BeginUpload
    <2>3. \A u \in versions : number'[u] = number[u]
      BY <2>1, <2>2
    <2>4. UNCHANGED <<file, versions>>
      BY <1>2 DEF BeginUpload
    <2> QED
      BY <1>1, <2>3, <2>4 DEF Ordered, CurrentRow
  <1>3. ASSUME NEW t \in Threads, CommitUpload(t) PROVE Ordered'
    <2>1. op[t].ver \in Versions /\ file.there
      BY <1>3 DEF CommitUpload, At, CurrentRow, InTransaction, Shaped, Shape
    <2>2. \A u \in versions : number[u] < number[op[t].ver]
      <3>1. "outnumbered" \notin holes'
        BY DEF Calm, Covered
      <3>2. ~ \E u \in versions : number[u] >= number[op[t].ver]
        BY <1>3, <3>1 DEF CommitUpload, Met
      <3> QED
        BY <2>1, <3>2
    <2>3. number[op[t].ver] # 0
      BY <2>1, <2>2 DEF CurrentRow
    <2>4. versions' = versions \union {op[t].ver} /\ file'.current = op[t].ver /\ number' = number
      BY <1>3 DEF CommitUpload
    <2> QED
      BY <1>1, <2>1, <2>2, <2>3, <2>4 DEF Ordered
  <1>4. ASSUME NEW t \in Threads, CommitRollback(t) PROVE Ordered'
    <2>1. CASE ~ file.there
      BY <1>1, <1>4, <2>1 DEF CommitRollback, Ordered
    <2>2. CASE file.there /\ op[t].ver \notin versions
      BY <1>1, <1>4, <2>2 DEF CommitRollback, Ordered
    <2>3. CASE file.there /\ op[t].ver \in versions
      <3>1. versions' = versions \ op[t].later /\ file'.current = op[t].ver /\ number' = number
        BY <1>4, <2>3 DEF CommitRollback
      <3>2. \A u \in versions \ op[t].later : ~ (number[u] > number[op[t].ver])
        <4>1. "missed" \notin holes'
          BY DEF Calm, Covered
        <4> QED
          BY <1>4, <2>3, <4>1 DEF CommitRollback, Met
      <3> QED
        BY <1>1, <2>3, <3>1, <3>2 DEF Ordered
    <2> QED
      BY <2>1, <2>2, <2>3
  <1>5. ASSUME NEW t \in Threads, DeleteVersionRow(t) PROVE Ordered'
    BY <1>1, <1>5 DEF DeleteVersionRow, Ordered
  <1>6. ASSUME NEW t \in Threads, DeleteFileRows(t) PROVE Ordered'
    BY <1>1, <1>6 DEF DeleteFileRows, Ordered
  <1>7. ASSUME NEW t \in Threads, CommitArchive(t) PROVE Ordered'
    <2>1. file'.there = file.there /\ file'.current = file.current
      BY <1>7 DEF CommitArchive
    <2> QED
      BY <1>1, <1>7, <2>1 DEF CommitArchive, Ordered
  <1>8. CASE UNCHANGED <<file, versions, number>>
    BY <1>1, <1>8 DEF Ordered
  <1>9. ASSUME NEW t \in Threads, Call(t) PROVE Ordered'
    BY <1>2, <1>8, <1>9 DEF Call, BeginRollback, BeginDeleteVersion, BeginDeleteFile, BeginArchive, fileVars
  <1>10. ASSUME NEW t \in Threads, ThreadStep(t) PROVE Ordered'
    BY <1>3, <1>4, <1>5, <1>6, <1>7, <1>8, <1>10
       DEF ThreadStep, TakeLock, LockTimeout, ScrollPoints, RewritePoints, QueueIngest, PurgeLater,
           PurgeVersion, PurgeFile, fileVars
  <1> QED
    BY <1>8, <1>9, <1>10, IngestFrame, RetryFrame DEF Next, Crash, Recover, vars, fileVars

----------------------------------------------------------------------------
\* The chunks.

\* The version of an ingest is fixed once it is queued.
LEMMA VersionFixed ==
  ASSUME Base, [Next]_vars, NEW i \in Ingests, stage[i] # "unused"
  PROVE  ver'[i] = ver[i]
  <1> USE DEF Base, Typed
  <1>1. ASSUME NEW t \in Threads, ThreadStep(t) PROVE ver'[i] = ver[i]
    BY <1>1 DEF ThreadStep, TakeLock, LockTimeout, ScrollPoints, RewritePoints, QueueIngest,
                PurgeLater, PurgeVersion, PurgeFile, CommitUpload, CommitRollback, CommitArchive,
                DeleteVersionRow, DeleteFileRows, IsUnused, indexVars
  <1>2. ASSUME NEW t \in Threads, Call(t) PROVE ver'[i] = ver[i]
    BY <1>2, Asked DEF Asking
  <1>3. CASE Recover
    BY <1>3 DEF Recover, IsUnused
  <1> QED
    BY <1>1, <1>2, <1>3, IngestFrame, RetryQueues DEF Next, Crash, vars, indexVars

\* A point is an ingest's.
LEMMA PointsAreAssigned ==
  ASSUME Base, [Next]_vars, NEW i \in Ingests, chunks'[i] # "none"
  PROVE  stage[i] # "unused"
  <1> USE DEF Base, Typed, Assigned
  <1>1. ASSUME NEW j \in Ingests, IngestStep(j) PROVE stage[i] # "unused"
    BY <1>1 DEF IngestStep, StartIngest, FailIngest, CheckFile, StorePoints, FailStored, RecheckFile,
                SettleIngest, DeletePoints
  <1>2. ASSUME NEW t \in Threads, ThreadStep(t) PROVE stage[i] # "unused"
    <2>1. CASE RewritePoints(t)
      BY <2>1 DEF RewritePoints
    <2>2. CASE PurgeLater(t) \/ PurgeVersion(t) \/ PurgeFile(t)
      BY <2>2 DEF PurgeLater, PurgeVersion, PurgeFile, DeletePoints
    <2>3. CASE chunks' = chunks
      BY <2>3
    <2> QED
      BY <1>2, <2>1, <2>2, <2>3
         DEF ThreadStep, TakeLock, LockTimeout, ScrollPoints, QueueIngest, CommitUpload,
             CommitRollback, CommitArchive, DeleteVersionRow, DeleteFileRows, indexVars
  <1>3. CASE chunks' = chunks
    BY <1>3
  <1>4. ASSUME NEW t \in Threads, Call(t) PROVE chunks' = chunks
    BY <1>4, Asked DEF Asking
  <1>5. CASE Crash \/ Recover \/ UNCHANGED vars
    BY <1>3, <1>5 DEF Crash, Recover, vars, indexVars
  <1> QED
    BY <1>1, <1>2, <1>3, <1>4, <1>5, RetryFrame DEF Next

\* Only a store stage and a rewrite bring chunks or change their flags.
LEMMA ChunksChange ==
  ASSUME Typed, [Next]_vars, NEW i \in Ingests, chunks'[i] # chunks[i]
  PROVE  \/ chunks'[i] = "none"
         \/ StorePoints(i)
         \/ \E t \in Threads : RewritePoints(t)
  <1> USE DEF Typed
  <1>1. ASSUME NEW j \in Ingests, IngestStep(j), ~ StorePoints(i) PROVE chunks'[i] = "none"
    <2>1. CASE StorePoints(j)
      <3>1. i # j
        BY <1>1, <2>1
      <3> QED
        BY <2>1, <3>1 DEF StorePoints
    <2>2. CASE RecheckFile(j)
      BY <2>2 DEF RecheckFile, DeletePoints
    <2>3. CASE chunks' = chunks
      BY <2>3
    <2> QED
      BY <1>1, <2>1, <2>2, <2>3 DEF IngestStep, StartIngest, FailIngest, CheckFile, FailStored, SettleIngest
  <1>2. ASSUME NEW t \in Threads, ThreadStep(t), ~ RewritePoints(t) PROVE chunks'[i] = "none"
    BY <1>2 DEF ThreadStep, TakeLock, LockTimeout, ScrollPoints, QueueIngest, PurgeLater,
                PurgeVersion, PurgeFile, CommitUpload, CommitRollback, CommitArchive,
                DeleteVersionRow, DeleteFileRows, indexVars, DeletePoints
  <1>3. ASSUME NEW t \in Threads, Call(t) PROVE FALSE
    BY <1>3, Asked DEF Asking
  <1> QED
    BY <1>1, <1>2, <1>3, RetryFrame DEF Next, Crash, Recover, vars, indexVars

\* While an operation is between its dealing with the chunks and its commit they
\* can only go.
LEMMA Undisturbed ==
  ASSUME Base, [Next]_vars, Calm', NEW u \in Threads, Between(u), InTransaction(u),
         ~ RewritePoints(u), NEW i \in Ingests
  PROVE  chunks'[i] = chunks[i] \/ chunks'[i] = "none"
  <1> SUFFICES ASSUME chunks'[i] # chunks[i], chunks'[i] # "none" PROVE FALSE
    OBVIOUS
  <1> USE DEF Base
  <1>1. CASE StorePoints(i)
    BY <1>1 DEF StorePoints, Met, Calm, Covered
  <1>2. ASSUME NEW t \in Threads, RewritePoints(t) PROVE FALSE
    <2>1. t # u
      BY <1>2
    <2>2. CASE op[t].kind = "rollback"
      BY <1>2, <2>1, <2>2 DEF RewritePoints, Met, Calm, Covered
    <2>3. CASE op[t].kind # "rollback"
      <3>1. InTransaction(t)
        BY <1>2, <2>3 DEF RewritePoints, InTransaction, Shaped, Shape
      <3> QED
        BY <2>1, <3>1 DEF LockHeld
    <2> QED
      BY <2>2, <2>3
  <1> QED
    BY <1>1, <1>2, ChunksChange

\* Once a deletion has purged the file no chunk comes back.
LEMMA PurgedStays ==
  ASSUME Base, [Next]_vars, Calm', NEW u \in Threads, op[u].kind = "deleteFile", op[u].pc = "lock",
         NEW i \in Ingests, chunks[i] = "none"
  PROVE  chunks'[i] = "none"
  <1> SUFFICES ASSUME chunks'[i] # "none" PROVE FALSE
    OBVIOUS
  <1> USE DEF Base
  <1>1. CASE StorePoints(i)
    BY <1>1 DEF StorePoints, Between, Met, Calm, Covered
  <1>2. ASSUME NEW t \in Threads, RewritePoints(t) PROVE FALSE
    <2>1. op[t].points[i] = "none"
      BY <1>2 DEF RewritePoints, Present, Met, Calm, Covered
    <2> QED
      BY <1>2, <2>1 DEF RewritePoints
  <1> QED
    BY <1>1, <1>2, ChunksChange

----------------------------------------------------------------------------
\* What operations rely on, and what searches see.

\* The steps other operations, ingests and crashes take.
LEMMA OthersProgress ==
  ASSUME Base, Progressed, Calm, Calm', [Next]_vars, NEW u \in Threads, op'[u] = op[u]
  PROVE  Progress(op[u])'
  <1> USE DEF Base
  <1>1. ~ RewritePoints(u)
    <2>1. ASSUME RewritePoints(u) PROVE op'[u].pc # "upsert"
      <3>1. CASE op[u].kind = "rollback"
        BY <2>1, <3>1, Ending DEF RewritePoints, Idle, Typed
      <3>2. CASE op[u].kind # "rollback"
        BY <2>1, <3>2, Rewriting DEF Typed
      <3> QED
        BY <3>1, <3>2
    <2> QED
      BY <2>1 DEF RewritePoints
  <1>2. Progress(op[u])
    BY DEF Progressed
  <1>3. ASSUME NEW i \in Ingests, chunks'[i] # "none" PROVE ver'[i] = ver[i]
    BY <1>3, PointsAreAssigned, VersionFixed
  <1>4. op[u].kind = "rollback" /\ op[u].pc = "commit" =>
           \A i \in Ingests : chunks'[i] = "live" => ver'[i] \notin op[u].later
    <2>1. SUFFICES ASSUME op[u].kind = "rollback", op[u].pc = "commit", NEW i \in Ingests,
                          chunks'[i] = "live"
                   PROVE  ver'[i] \notin op[u].later
      OBVIOUS
    <2>2. chunks[i] = "live" /\ ver'[i] = ver[i]
      BY <1>1, <1>3, <2>1, Undisturbed DEF Between, InTransaction
    <2> QED
      BY <1>2, <2>1, <2>2 DEF Progress
  <1>5. op[u].kind = "upload" /\ op[u].pc \in {"upsert", "queue", "commit"} =>
           \A i \in Ingests : chunks'[i] = chunks[i] \/ chunks'[i] = "none"
    BY <1>1, Undisturbed DEF Between, InTransaction
  <1>6. op[u].kind = "unarchive" /\ op[u].pc = "upsert" =>
           \A i \in Ingests : op[u].points[i] = "live" => ver'[i] = file'.current
    <2>1. SUFFICES ASSUME op[u].kind = "unarchive", op[u].pc = "upsert", NEW i \in Ingests,
                          op[u].points[i] = "live"
                   PROVE  ver'[i] = file'.current
      OBVIOUS
    <2>2. ver'[i] = ver[i]
      BY <2>1, VersionFixed DEF Assigned
    <2>3. lock = u
      BY <2>1 DEF LockHeld, InTransaction
    <2>4. file'.current = file.current
      <3>1. ASSUME NEW t \in Threads, CommitUpload(t) \/ CommitRollback(t) \/ DeleteFileRows(t) PROVE FALSE
        <4>1. CASE DeleteFileRows(t)
          BY <2>3, <4>1, ThreadsAssumption DEF DeleteFileRows
        <4>2. CASE CommitUpload(t) \/ CommitRollback(t)
          <5>1. InTransaction(t) /\ op[t].pc = "commit"
            BY <4>2 DEF CommitUpload, CommitRollback, At, InTransaction
          <5> QED
            BY <2>1, <2>3, <5>1 DEF LockHeld
        <4> QED
          BY <3>1, <4>1, <4>2
      <3> QED
        BY <3>1, CurrentMoves
    <2> QED
      BY <1>2, <2>1, <2>2, <2>4 DEF Progress
  <1>7. op[u].kind = "deleteFile" /\ op[u].pc = "lock" => \A i \in Ingests : chunks'[i] = "none"
    BY <1>2, PurgedStays DEF Progress
  <1> QED
    BY <1>2, <1>4, <1>5, <1>6, <1>7 DEF Progress

\* The steps of the operation itself.
LEMMA OwnProgress ==
  ASSUME Base, Progressed, LiveIsCurrent, Calm, Calm', [Next]_vars, NEW u \in Threads, ThreadStep(u)
  PROVE  Progress(op[u])'
  <1> USE DEF Base, Typed
  <1>1. CASE PurgeLater(u)
    <2>1. op'[u].kind = "rollback" /\ op'[u].later = op[u].later
      BY <1>1, Going DEF PurgeLater, At, Pcs
    <2>2. \A i \in Ingests : chunks'[i] = "live" => ver'[i] \notin op[u].later
      BY <1>1 DEF PurgeLater, DeletePoints, ChunksOf
    <2> QED
      BY <2>1, <2>2 DEF Progress
  <1>2. CASE ScrollPoints(u)
    <2>1. op'[u].pc = "upsert" /\ op'[u].points = chunks
      BY <1>2 DEF ScrollPoints, Operations
    <2>2. UNCHANGED <<chunks, ver, file>>
      BY <1>2 DEF ScrollPoints, indexVars, fileVars
    <2> QED
      BY <2>1, <2>2 DEF Progress, LiveIsCurrent
  <1>3. CASE RewritePoints(u)
    <2>1. CASE op[u].kind = "rollback"
      BY <1>3, <2>1, Ending DEF RewritePoints, Idle, Progress
    <2>2. CASE op[u].kind = "upload"
      <3>1. op'[u].pc = "queue" /\ op'[u].kind = "upload"
        BY <1>3, <2>2, Rewriting
      <3>2. \A i \in Ingests : chunks[i] # "none" => op[u].points[i] # "none"
        BY <1>3, <2>2 DEF RewritePoints, Progressed, Progress
      <3>3. \A i \in Ingests : Flags(u, i) = "history"
        BY <2>2 DEF Flags
      <3>4. \A i \in Ingests : chunks'[i] # "live"
        BY <1>3, <3>2, <3>3 DEF RewritePoints
      <3> QED
        BY <3>1, <3>4 DEF Progress
    <2>3. CASE op[u].kind \notin {"rollback", "upload"}
      BY <1>3, <2>3, Rewriting DEF Progress, RewritePoints, Shaped, Shape
    <2> QED
      BY <2>1, <2>2, <2>3
  <1>4. CASE QueueIngest(u)
    <2>1. op'[u].kind = "upload" /\ op'[u].pc = "commit" /\ chunks' = chunks
      BY <1>4, Going DEF QueueIngest, At, Pcs
    <2>2. \A i \in Ingests : chunks[i] # "live"
      BY <1>4 DEF QueueIngest, At, Progressed, Progress
    <2> QED
      BY <2>1, <2>2 DEF Progress
  <1>5. CASE PurgeFile(u)
    BY <1>5, Going DEF PurgeFile, At, Pcs, DeletePoints, Progress
  <1>6. CASE PurgeVersion(u)
    BY <1>6, Going DEF PurgeVersion, At, Pcs, Progress
  <1>8. CASE TakeLock(u)
    <2>1. Goto(u, "scroll") \/ Goto(u, "purge") \/ End(u)
      BY <1>8 DEF TakeLock
    <2>2. op'[u] = Idle \/ op'[u].pc \in {"scroll", "purge"}
      BY <2>1, Going, Ending DEF Pcs
    <2> QED
      BY <2>2 DEF Progress, Idle
  <1>9. CASE CommitRollback(u)
    <2>1. op'[u] = Idle \/ op'[u].pc = "scroll"
      BY <1>9, Going, Ending DEF CommitRollback, Pcs
    <2> QED
      BY <2>1 DEF Progress, Idle
  <1>10. CASE LockTimeout(u) \/ CommitUpload(u) \/ CommitArchive(u) \/ DeleteVersionRow(u)
              \/ DeleteFileRows(u)
    <2>1. End(u)
      BY <1>10 DEF LockTimeout, CommitUpload, CommitArchive, DeleteVersionRow, DeleteFileRows
    <2> QED
      BY <2>1, Ending DEF Progress, Idle
  <1> QED
    BY <1>1, <1>2, <1>3, <1>4, <1>5, <1>6, <1>8, <1>9, <1>10 DEF ThreadStep

\* Together.
LEMMA StepProgressed ==
  ASSUME Base, Progressed, LiveIsCurrent, [Next]_vars
  PROVE  Progressed'
  <1> SUFFICES ASSUME Calm', NEW u \in Threads PROVE Progress(op[u])'
    BY DEF Progressed
  <1>1. Calm
    BY HolesGrow DEF Base, Calm, Covered
  <1>2. CASE op'[u] = op[u]
    BY <1>1, <1>2, OthersProgress
  <1>3. ASSUME NEW t \in Threads, ThreadStep(t) PROVE Progress(op[u])'
    <2>1. CASE t = u
      BY <1>1, <1>3, <2>1, OwnProgress
    <2>2. CASE t # u
      BY <1>2, <1>3, <2>2, ThreadMoves DEF Base
    <2> QED
      BY <2>1, <2>2
  <1>4. ASSUME NEW t \in Threads, Call(t) PROVE Progress(op[u])'
    <2>1. PICK o \in Operations : Request(o) /\ op' = [op EXCEPT ![t] = o]
      BY <1>4, Asked DEF Asking, Base
    <2>2. CASE t = u
      BY <2>1, <2>2 DEF Request, Progress, Base, Typed
    <2>3. CASE t # u
      BY <1>2, <2>1, <2>3 DEF Base, Typed
    <2> QED
      BY <2>2, <2>3
  <1>5. CASE Crash
    BY <1>5 DEF Crash, Idle, Progress
  <1>6. CASE (\E i \in Ingests : IngestStep(i) \/ CutIngest(i) \/ RetryIngest(i))
             \/ Recover \/ UNCHANGED vars
    BY <1>2, <1>6, IngestFrame, RetryFrame DEF Recover, vars
  <1> QED
    BY <1>3, <1>4, <1>5, <1>6 DEF Next

\* The current version changes only while nothing of the file is live.
LEMMA MovesUnseen ==
  ASSUME Inv, Calm, Calm', [Next]_vars, file'.current # file.current
  PROVE  /\ \A i \in Ingests : chunks[i] # "live"
         /\ UNCHANGED <<chunks, ver>>
  <1> USE DEF Inv, Base, Typed
  <1>1. ASSUME NEW t \in Threads, CommitUpload(t) \/ DeleteFileRows(t)
        PROVE  (\A i \in Ingests : chunks[i] # "live") /\ UNCHANGED <<chunks, ver>>
    <2>1. Progress(op[t])
      BY DEF Progressed
    <2> QED
      BY <1>1, <2>1 DEF CommitUpload, DeleteFileRows, At, Progress, indexVars
  <1>2. ASSUME NEW t \in Threads, CommitRollback(t)
        PROVE  (\A i \in Ingests : chunks[i] # "live") /\ UNCHANGED <<chunks, ver>>
    <2>1. UNCHANGED <<chunks, ver>>
      BY <1>2 DEF CommitRollback, indexVars
    <2>2. file.there /\ op[t].ver \in versions /\ op[t].ver # file.current
      BY <1>2 DEF CommitRollback
    <2>3. \A u \in versions \ op[t].later : ~ (number[u] > number[op[t].ver])
      <3>1. "missed" \notin holes'
        BY DEF Calm, Covered
      <3> QED
        BY <1>2, <2>2, <3>1 DEF CommitRollback, Met
    <2>4. file.current \in op[t].later
      <3>1. file.current \in versions /\ number[op[t].ver] < number[file.current]
        BY <2>2 DEF CurrentRow, Ordered
      <3> QED
        BY <2>3, <3>1
    <2>5. \A i \in Ingests : chunks[i] = "live" => ver[i] \notin op[t].later
      BY <1>2 DEF CommitRollback, At, Progressed, Progress
    <2> QED
      BY <2>1, <2>4, <2>5 DEF LiveIsCurrent
  <1> QED
    BY <1>1, <1>2, CurrentMoves

\* Stores and rewrites make live only what is current.
LEMMA StepLiveIsCurrent ==
  ASSUME Inv, [Next]_vars
  PROVE  LiveIsCurrent'
  <1> SUFFICES ASSUME Calm', NEW i \in Ingests, chunks'[i] = "live"
               PROVE  ver'[i] = file'.current
    BY DEF LiveIsCurrent
  <1> USE DEF Inv, Base, Typed
  <1>1. Calm
    BY HolesGrow DEF Calm, Covered
  <1>2. ver'[i] = ver[i]
    BY PointsAreAssigned, VersionFixed
  <1>3. CASE chunks[i] = "live"
    <2>1. file'.current = file.current \/ chunks[i] # "live"
      BY <1>1, MovesUnseen
    <2>2. ver[i] = file.current
      BY <1>1, <1>3 DEF LiveIsCurrent
    <2> QED
      BY <1>2, <1>3, <2>1, <2>2
  <1>4. CASE StorePoints(i)
    <2>1. ver[i] = file.current
      BY <1>4 DEF StorePoints, Met, Calm, Covered
    <2>2. file' = file
      BY <1>4 DEF StorePoints, fileVars
    <2> QED
      BY <1>2, <2>1, <2>2
  <1>5. ASSUME NEW t \in Threads, RewritePoints(t), chunks[i] # "live" PROVE ver'[i] = file'.current
    <2>1. file' = file
      BY <1>5 DEF RewritePoints, fileVars
    <2>2. op[t].points[i] # "none" /\ Flags(t, i) = "live"
      BY <1>5 DEF RewritePoints
    <2>3. op[t].kind \in {"upload", "archive", "rollback", "unarchive"}
      BY <1>5 DEF RewritePoints, Shaped, Shape
    <2>4. CASE op[t].kind \in {"upload", "archive"}
      BY <2>2, <2>4 DEF Flags
    <2>5. CASE op[t].kind = "rollback"
      <3>1. ver[i] = op[t].ver
        BY <2>2, <2>5 DEF Flags
      <3>2. file.current = op[t].ver
        BY <1>5, <2>5 DEF RewritePoints, Met, Calm, Covered
      <3> QED
        BY <1>2, <2>1, <3>1, <3>2
    <2>6. CASE op[t].kind = "unarchive"
      <3>1. ver[i] = file.current \/ op[t].points[i] = "live"
        BY <2>2, <2>6 DEF Flags
      <3>2. op[t].points[i] = "live" => ver[i] = file.current
        BY <1>1, <1>5, <2>6 DEF RewritePoints, Progressed, Progress
      <3> QED
        BY <1>2, <2>1, <3>1, <3>2
    <2> QED
      BY <2>3, <2>4, <2>5, <2>6
  <1> QED
    BY <1>3, <1>4, <1>5, ChunksChange

\* Only the purge of the file begins a deletion.
LEMMA DeletionBegins ==
  ASSUME Base, [Next]_vars, Deleting', ~ Deleting
  PROVE  \E t \in Threads : PurgeFile(t)
  <1> USE DEF Base, Typed
  <1>1. file'.there = file.there
    <2>1. ASSUME NEW t \in Threads, ThreadStep(t) PROVE file'.there = file.there
      <3>1. ~ DeleteFileRows(t)
        BY DEF Deleting, DeleteFileRows, At
      <3> QED
        BY <2>1, <3>1 DEF ThreadStep, TakeLock, LockTimeout, ScrollPoints, RewritePoints, QueueIngest,
           PurgeLater, PurgeVersion, PurgeFile, CommitUpload, CommitRollback, CommitArchive,
           DeleteVersionRow, fileVars
    <2>2. ASSUME NEW t \in Threads, Call(t) PROVE file'.there = file.there
      BY <2>2, Asked DEF Asking
    <2> QED
      BY <2>1, <2>2, IngestFrame, RetryFrame DEF Next, Crash, Recover, vars, fileVars
  <1>2. PICK u \in Threads : op'[u].kind = "deleteFile" /\ op'[u].pc = "lock" /\ op'[u] # op[u]
    BY <1>1 DEF Deleting
  <1>3. ASSUME NEW t \in Threads, ThreadStep(t), ~ PurgeFile(t) PROVE FALSE
    <2>1. t = u
      BY <1>2, <1>3, ThreadMoves
    <2>2. op'[u] # Idle
      BY <1>2 DEF Idle
    <2>3. op[u].kind = "deleteFile"
      BY <1>2, <1>3, <2>1, <2>2, ThreadMoves
    <2>4. CASE TakeLock(t) \/ ScrollPoints(t) \/ RewritePoints(t) \/ QueueIngest(t) \/ PurgeLater(t)
               \/ PurgeVersion(t) \/ CommitUpload(t) \/ CommitRollback(t) \/ CommitArchive(t)
               \/ DeleteVersionRow(t)
      BY <2>1, <2>3, <2>4 DEF TakeLock, ScrollPoints, RewritePoints, QueueIngest, PurgeLater,
         PurgeVersion, CommitUpload, CommitRollback, CommitArchive, DeleteVersionRow, At, Shaped, Shape
    <2>5. CASE LockTimeout(t) \/ DeleteFileRows(t)
      BY <2>1, <2>2, <2>5, Ending DEF LockTimeout, DeleteFileRows
    <2> QED
      BY <1>3, <2>4, <2>5 DEF ThreadStep
  <1>4. ASSUME NEW t \in Threads, Call(t) PROVE FALSE
    <2>1. PICK o \in Operations : Request(o) /\ op' = [op EXCEPT ![t] = o]
      BY <1>4, Asked DEF Asking
    <2> QED
      BY <1>2, <2>1 DEF Request
  <1>5. CASE Crash
    BY <1>2, <1>5 DEF Crash, Idle
  <1>6. CASE UNCHANGED op
    BY <1>2, <1>6
  <1> QED
    BY <1>3, <1>4, <1>5, <1>6, IngestFrame, RetryFrame DEF Next, Recover, vars

\* After a purge only a store stage brings chunks, and its second check, or the
\* ones that do not see the deletion, ends it.
LEMMA StepNothingLeft ==
  ASSUME Base, NothingLeft, [Next]_vars
  PROVE  NothingLeft'
  <1> DEFINE Sound == Covered({"unchecked", "resurrected"})
  <1> SUFFICES ASSUME Sound', Deleting', NEW i \in Ingests, chunks'[i] # "none"
               PROVE  stage'[i] = "stored"
    BY DEF NothingLeft
  <1> USE DEF Base, Typed
  <1>1. Sound
    BY HolesGrow DEF Covered
  <1>2. CASE \E t \in Threads : PurgeFile(t)
    BY <1>2 DEF PurgeFile, DeletePoints
  <1>3. CASE Deleting /\ chunks[i] # "none"
    <2>1. stage[i] = "stored"
      BY <1>1, <1>3 DEF NothingLeft
    <2>2. ASSUME NEW j \in Ingests, IngestStep(j) PROVE stage'[i] = "stored"
      <3>1. CASE FailStored(j)
        BY <1>3, <2>1, <3>1 DEF FailStored, Met, Covered
      <3>2. CASE RecheckFile(j)
        BY <1>3, <3>2 DEF RecheckFile, DeletePoints, Met, Covered
      <3>3. CASE ~ FailStored(j) /\ ~ RecheckFile(j)
        BY <2>1, <2>2, <3>3
           DEF IngestStep, StartIngest, FailIngest, CheckFile, StorePoints, SettleIngest
      <3> QED
        BY <3>1, <3>2, <3>3
    <2>3. ASSUME NEW t \in Threads, ThreadStep(t) PROVE stage'[i] = "stored"
      BY <2>1, <2>3 DEF ThreadStep, TakeLock, LockTimeout, ScrollPoints, RewritePoints, QueueIngest,
         PurgeLater, PurgeVersion, PurgeFile, CommitUpload, CommitRollback, CommitArchive,
         DeleteVersionRow, DeleteFileRows, IsUnused, indexVars
    <2>4. ASSUME NEW t \in Threads, Call(t) PROVE stage'[i] = "stored"
      BY <2>1, <2>4, Asked DEF Asking
    <2>5. CASE Crash
      <3>1. ~ file'.there
        BY <2>5 DEF Crash, Deleting, Idle
      <3>2. ~ file.there
        BY <2>5, <3>1 DEF Crash, fileVars
      <3> QED
        BY <2>1, <2>5, <3>2 DEF Crash, Met, Covered
    <2>6. CASE Recover
      BY <2>1, <2>6 DEF Recover, Gone, IsUnused
    <2>7. CASE UNCHANGED vars
      BY <2>1, <2>7 DEF vars, indexVars
    <2>8. ASSUME NEW j \in Ingests, CutIngest(j) \/ RetryIngest(j) PROVE stage'[i] = "stored"
      BY <2>1, <2>8, RetryQueues
    <2> QED
      BY <2>2, <2>3, <2>4, <2>5, <2>6, <2>7, <2>8 DEF Next
  <1>4. CASE chunks[i] = "none"
    <2>1. CASE StorePoints(i)
      BY <2>1 DEF StorePoints
    <2>2. ASSUME NEW t \in Threads, RewritePoints(t) PROVE FALSE
      <3>1. op[t].points[i] = "none"
        BY <1>4, <2>2 DEF RewritePoints, Present, Met, Covered
      <3> QED
        BY <1>4, <2>2, <3>1 DEF RewritePoints
    <2> QED
      BY <1>4, <2>1, <2>2, ChunksChange
  <1> QED
    BY <1>2, <1>3, <1>4, DeletionBegins

----------------------------------------------------------------------------
\* The theorems.

\* The invariant holds at first.
LEMMA InitInv == Init => Inv
  <1> SUFFICES ASSUME Init PROVE Inv
    OBVIOUS
  <1>1. Typed
    BY InitTyped
  <1>2. \A t \in Threads : op[t] = Idle
    BY DEF Init
  <1>3. Shaped /\ LockHeld
    BY <1>2, IdleShaped, ThreadsAssumption DEF Init, Shaped, LockHeld, InTransaction, Idle
  <1>4. Assigned
    <2>1. SUFFICES ASSUME NEW i \in Ingests
                   PROVE  /\ stage[i] = "unused" => chunks[i] = "none"
                          /\ stage[i] # "unused" => ver[i] \in Versions
      BY <1>2, IdleShaped DEF Assigned
    <2>2. stage[i] = "unused" => chunks[i] = "none"
      BY VersionsAssumption DEF Init, Ingests
    <2>3. stage[i] # "unused" => i <= Uploaded /\ ver[i] = i
      BY VersionsAssumption DEF Init, Ingests
    <2> QED
      BY <2>2, <2>3, VersionsAssumption DEF Ingests, Versions
  <1>5. CurrentRow
    BY <1>2, VersionsAssumption DEF Init, CurrentRow, Idle
  <1>6. Ordered
    BY VersionsAssumption DEF Init, Ordered, Versions
  <1>7. Progressed
    BY <1>2 DEF Progressed, Progress, Idle
  <1>8. LiveIsCurrent
    BY DEF Init, LiveIsCurrent
  <1>9. NothingLeft
    BY <1>2 DEF Init, NothingLeft, Deleting, Idle
  <1>10. Ended
    BY VersionsAssumption DEF Init, Ended
  <1> QED
    BY <1>1, <1>3, <1>4, <1>5, <1>6, <1>7, <1>8, <1>9, <1>10 DEF Inv, Base

\* Every step keeps it.
LEMMA StepInv == Inv /\ [Next]_vars => Inv'
  BY StepTyped, StepShaped, StepLockHeld, StepAssigned, StepEnded, StepCurrentRow, StepOrdered, StepProgressed,
     StepLiveIsCurrent, StepNothingLeft DEF Inv, Base

\* It is an invariant.
LEMMA Invariance == Spec => []Inv
  BY InitInv, StepInv, PTL DEF Spec

\* Types, and one holder of meta.db's write lock: the thread in a transaction.
THEOREM TypeCorrect == Spec => []TypeOK
  <1>1. Inv => TypeOK
    BY DEF Inv, Base, Typed, LockHeld, TypeOK
  <1> QED
    BY <1>1, Invariance, PTL

\* The files row names a version row, however many threads delete versions,
\* roll back and upload at once.
THEOREM RowIsSound == Spec => []CurrentIsAVersion
  <1>1. Inv => CurrentIsAVersion
    BY DEF Inv, CurrentRow, CurrentIsAVersion
  <1> QED
    BY <1>1, Invariance, PTL

\* Unless one of six holes is met, searches find the current version only.
THEOREM SearchesAreCurrent == Spec => []ShownIsCurrent
  <1>1. Inv => ShownIsCurrent
    BY DEF Inv, LiveIsCurrent, Calm, ShownIsCurrent, Shown
  <1> QED
    BY <1>1, Invariance, PTL

\* A deleted file leaves chunks only where an ingest is between its store and
\* its second check, unless one of two holes is met.
THEOREM DeletionIsFinal == Spec => []NoZombies
  <1>1. Inv => NoZombies
    BY DEF Inv, NothingLeft, Deleting, NoZombies, Present
  <1> QED
    BY <1>1, Invariance, PTL

----------------------------------------------------------------------------
\* What operations do to versions, uploads and ingests, whatever was met.

\* Ingests whose points were written.
Stored(i) == stage[i] \in {"stored", "done", "settled"}

\* Version ids are used once, and a version is its upload's own until it commits.
UsedOnce ==
  /\ \A v \in versions : number[v] # 0
  /\ \A i \in Ingests : stage[i] # "unused" => number[ver[i]] # 0
  /\ \A t \in Threads :
       /\ op[t].kind \in {"upload", "rollback", "deleteVersion"} => number[op[t].ver] # 0
       /\ op[t].kind = "rollback" => \A v \in op[t].later : number[v] # 0
       /\ op[t].kind = "upload" =>
            /\ op[t].ver \notin versions
            /\ op[t].pc # "commit" => \A i \in Ingests : stage[i] # "unused" => ver[i] # op[t].ver
            /\ \A u \in Threads \ {t} :
                 /\ op[u].kind \in {"upload", "rollback", "deleteVersion"} => op[u].ver # op[t].ver
                 /\ op[u].kind = "rollback" => op[t].ver \notin op[u].later

\* Another ingest of the version was queued in its place.
Superseded(i) == stage[i] = "replaced" \/ shownAs[i] = "retried"

\* Of the ingests of a version all but one were replaced after a crash or retried.
OneIngest ==
  \A i, j \in Ingests : i # j /\ stage[i] # "unused" /\ stage[j] # "unused" /\ ver[i] = ver[j] =>
    Superseded(i) \/ Superseded(j)

\* An ingest that a crash cut, or whose task was retried, has left nothing, unless
\* it had stored by then or was to.
CutIsBare ==
  Covered({"replayed", "repeated"}) =>
    \A i \in Ingests : stage[i] = "gone" \/ Superseded(i) =>
      /\ chunks[i] = "none" /\ stage[i] \notin {"checked", "stored"}
      /\ \A t \in Threads : op[t].points[i] = "none"

\* The operation has removed blob and chunks of the version, its row comes next.
Doomed(t, v) ==
  \/ op[t].kind = "rollback" /\ op[t].pc = "commit" /\ v \in op[t].later
  \/ op[t].kind = "deleteVersion" /\ op[t].pc = "lock" /\ op[t].ver = v
  \/ op[t].kind = "deleteFile" /\ op[t].pc = "lock"

\* Versions that are, or that an upload may still commit.
Awaited(v) == v \in versions \/ \E t \in Threads : op[t].kind = "upload" /\ op[t].ver = v

\* Such a version has its blob, and chunks if it was ingested, or is about to go.
Kept ==
  Covered({"torn"}) /\ file.there =>
    \A v \in Versions : Awaited(v) =>
      \/ v \in blobs /\ \A i \in Ingests : ver[i] = v /\ Stored(i) => chunks[i] # "none"
      \/ \E t \in Threads : Doomed(t, v)

\* Nobody touches the chunks of a version before its upload commits.
OwnIsLive ==
  Covered({"stale", "torn"}) =>
    \A t \in Threads : op[t].kind = "upload" /\ op[t].pc = "commit" =>
      \A i \in Ingests : ver[i] = op[t].ver /\ Stored(i) =>
        chunks[i] = "live" \/ \E u \in Threads : Doomed(u, ver[i])

\* The operation is going to show the ingest again, to move the current version
\* or to exclude the file.
Restores(t, i) ==
  \/ /\ op[t].kind = "rollback" /\ op[t].ver = file.current
     /\ \/ op[t].pc = "scroll"
        \/ op[t].pc = "upsert" /\ op[t].points[i] # "none"
  \/ op[t].kind = "upload" /\ op[t].pc \in {"queue", "commit"}
  \/ op[t].kind = "archive" /\ op[t].pc = "commit"
  \/ Doomed(t, file.current)

\* The file is not excluded, or an operation that ends the exclusion has
\* rewritten the ingest's flags, or will pass them over.
Wanted(i) ==
  \/ ~ file.archived
  \/ \E t \in Threads : /\ op[t].kind = "unarchive"
                        /\ op[t].pc \in {"upsert", "commit"}
                        /\ op[t].pc = "upsert" => op[t].points[i] = "none"

Found ==
  Covered({"stale", "torn"}) /\ file.there =>
    \A i \in Ingests : ver[i] = file.current /\ Stored(i) /\ Wanted(i) =>
      chunks[i] = "live" \/ \E t \in Threads : Restores(t, i)

\* While the file is excluded only an operation that ends that shows anything;
\* one that excludes it has seen all that is shown.
Hidden ==
  Covered({"excluded", "between", "stale", "torn"}) =>
    /\ \A t \in Threads : op[t].kind = "archive" =>
         /\ op[t].pc = "upsert" => \A i \in Ingests : chunks[i] = "live" => op[t].points[i] # "none"
         /\ op[t].pc = "commit" => \A i \in Ingests : chunks[i] # "live"
    /\ file.archived =>
         \/ \A i \in Ingests : chunks[i] # "live"
         \/ \E t \in Threads : op[t].kind = "unarchive" /\ op[t].pc = "commit"

\* No crash has cut the ingest of a version before its upload commits.
OwnIsUncut ==
  \A t \in Threads : op[t].kind = "upload" =>
    \A i \in Ingests : stage[i] \in {"gone", "replaced"} => ver[i] # op[t].ver

\* An ingest that recovery gave up, or whose task was retried, has one in its
\* place, unless it was dropped.
Succeeded ==
  Covered({"dropped"}) =>
    \A i \in Ingests : Superseded(i) /\ Awaited(ver[i]) =>
      \E j \in Ingests : ver[j] = ver[i] /\ stage[j] # "unused" /\ ~ Superseded(j)

\* With Inv, the second inductive invariant.
Inv2 == /\ UsedOnce /\ OneIngest /\ CutIsBare /\ Kept /\ OwnIsLive /\ Found /\ Hidden
        /\ OwnIsUncut /\ Succeeded

----------------------------------------------------------------------------
\* Which step an operation takes next.
LEMMA Dispatch ==
  ASSUME NEW t \in Threads, ThreadStep(t)
  PROVE  /\ op[t].pc # "idle"
         /\ op[t].pc = "scroll" => ScrollPoints(t)
         /\ op[t].pc = "upsert" => RewritePoints(t)
         /\ op[t].pc = "queue" => QueueIngest(t)
         /\ op[t].pc = "commit" =>
              \/ op[t].kind = "upload" /\ CommitUpload(t)
              \/ op[t].kind = "rollback" /\ CommitRollback(t)
              \/ op[t].kind \in {"archive", "unarchive"} /\ CommitArchive(t)
         /\ op[t].pc = "lock" /\ op[t].kind = "deleteVersion" => LockTimeout(t) \/ DeleteVersionRow(t)
         /\ op[t].pc = "lock" /\ op[t].kind = "deleteFile" => LockTimeout(t) \/ DeleteFileRows(t)
  BY DEF ThreadStep, TakeLock, LockTimeout, ScrollPoints, RewritePoints, QueueIngest, PurgeLater,
         PurgeVersion, PurgeFile, CommitUpload, CommitRollback, CommitArchive, DeleteVersionRow,
         DeleteFileRows, At

\* Who changes what an operation has in its hands.
LEMMA OpMoves ==
  ASSUME Base, [Next]_vars, NEW u \in Threads, op'[u] # op[u]
  PROVE  \/ ThreadStep(u)
         \/ Call(u) /\ op[u].pc = "idle" /\ op'[u].pc \in {"lock", "purge"}
         \/ Crash /\ op'[u] = Idle
  <1>1. ASSUME NEW t \in Threads, ThreadStep(t) PROVE t = u
    BY <1>1, ThreadMoves DEF Base
  <1>2. ASSUME NEW t \in Threads, Call(t)
        PROVE  Call(u) /\ op[u].pc = "idle" /\ op'[u].pc \in {"lock", "purge"}
    <2>1. PICK o \in Operations : Request(o) /\ op' = [op EXCEPT ![t] = o]
      BY <1>2, Asked DEF Asking, Base
    <2>2. t = u
      BY <2>1 DEF Base, Typed
    <2> QED
      BY <1>2, <2>1, <2>2, Asked DEF Asking, Request, Base, Typed
  <1> QED
    BY <1>1, <1>2, IngestFrame, RetryFrame DEF Next, Crash, Recover, vars

\* Where an operation comes from.
LEMMA OpOrigin ==
  ASSUME Base, [Next]_vars, NEW u \in Threads, op'[u].kind \in {"upload", "rollback", "deleteVersion"}
  PROVE  \/ op'[u].kind = op[u].kind /\ op'[u].ver = op[u].ver /\ op'[u].later = op[u].later
         \/ /\ \A w \in Threads \ {u} : op'[w] = op[w]
            /\ UNCHANGED <<versions, stage, ver>>
            /\ \/ op'[u].kind = "upload" /\ BeginUpload(u, op'[u].ver)
                  /\ op'[u].ver \in Versions
               \/ op'[u].kind # "upload" /\ op'[u].ver \in versions
                  /\ op'[u].later \subseteq versions /\ number' = number
  <1> SUFFICES ASSUME op'[u] # op[u]
               PROVE  \/ op'[u].kind = op[u].kind /\ op'[u].ver = op[u].ver /\ op'[u].later = op[u].later
                      \/ /\ \A w \in Threads \ {u} : op'[w] = op[w]
                         /\ UNCHANGED <<versions, stage, ver>>
                         /\ \/ op'[u].kind = "upload" /\ BeginUpload(u, op'[u].ver)
                               /\ op'[u].ver \in Versions
                            \/ op'[u].kind # "upload" /\ op'[u].ver \in versions
                               /\ op'[u].later \subseteq versions /\ number' = number
    OBVIOUS
  <1>1. CASE ThreadStep(u)
    BY <1>1, ThreadMoves DEF Base, Idle
  <1>2. CASE Call(u)
    <2>1. (\A w \in Threads \ {u} : op'[w] = op[w]) /\ UNCHANGED <<versions, stage, ver>>
      BY <1>2, Asked DEF Asking, Base, Typed
    <2>2. ASSUME NEW v \in Versions, BeginUpload(u, v)
          PROVE  op'[u].kind = "upload" /\ BeginUpload(u, op'[u].ver) /\ op'[u].ver \in Versions
      <3>1. op'[u].kind = "upload" /\ op'[u].ver = v
        BY <2>2 DEF BeginUpload, Begin, Base, Typed, Idle
      <3> QED
        BY <2>2, <3>1
    <2>3. ASSUME NEW v \in Versions, BeginRollback(u, v)
          PROVE  op'[u].kind # "upload" /\ op'[u].ver \in versions /\ op'[u].later \subseteq versions
                 /\ number' = number
      <3> DEFINE later == {w \in versions : number[w] > number[v]}
      <3> DEFINE o == [Idle EXCEPT !.kind = "rollback", !.pc = "lock", !.ver = v, !.later = later]
      <3>1. v \in versions /\ op'[u] = o /\ number' = number /\ later \subseteq versions
        BY <2>3 DEF BeginRollback, Begin, Base, Typed, fileVars
      <3> HIDE DEF later
      <3>2. o.kind = "rollback" /\ o.ver = v /\ o.later = later
        BY DEF Idle
      <3> HIDE DEF o
      <3> QED
        BY <3>1, <3>2
    <2>4. ASSUME NEW v \in Versions, BeginDeleteVersion(u, v)
          PROVE  op'[u].kind # "upload" /\ op'[u].ver \in versions /\ op'[u].later \subseteq versions
                 /\ number' = number
      BY <2>4 DEF BeginDeleteVersion, Begin, Base, Typed, Idle, fileVars
    <2>5. ASSUME NEW kind \in {"archive", "unarchive"}, BeginArchive(u, kind) PROVE FALSE
      <3>1. op'[u].kind = kind
        BY <2>5 DEF BeginArchive, Begin, Base, Typed, Idle
      <3> QED
        BY <3>1
    <2>6. CASE BeginDeleteFile(u)
      <3>1. op'[u].kind = "deleteFile"
        BY <2>6 DEF BeginDeleteFile, Begin, Base, Typed, Idle
      <3> QED
        BY <3>1
    <2> QED
      BY <1>2, <2>1, <2>2, <2>3, <2>4, <2>5, <2>6 DEF Call
  <1>3. CASE Crash
    BY <1>3 DEF Crash, Idle
  <1> QED
    BY <1>1, <1>2, <1>3, OpMoves

\* A version_no is given once.
LEMMA NumberKept ==
  ASSUME Base, [Next]_vars, NEW v \in Versions, number[v] # 0
  PROVE  number'[v] = number[v]
  <1>1. ASSUME NEW t \in Threads, NEW w \in Versions, BeginUpload(t, w) PROVE number'[v] = number[v]
    BY <1>1 DEF BeginUpload, Base, Typed
  <1>2. ASSUME NEW t \in Threads, Call(t) PROVE number'[v] = number[v]
    BY <1>1, <1>2 DEF Call, BeginRollback, BeginDeleteVersion, BeginDeleteFile, BeginArchive, fileVars
  <1>3. ASSUME NEW t \in Threads, ThreadStep(t) PROVE number'[v] = number[v]
    BY <1>3 DEF ThreadStep, TakeLock, LockTimeout, ScrollPoints, RewritePoints, QueueIngest,
                PurgeLater, PurgeVersion, PurgeFile, CommitUpload, CommitRollback, CommitArchive,
                DeleteVersionRow, DeleteFileRows, fileVars
  <1> QED
    BY <1>2, <1>3, IngestFrame, RetryFrame DEF Next, Crash, Recover, vars, fileVars

\* New rows are committed by uploads.
LEMMA RowsCommitted ==
  ASSUME Base, [Next]_vars, NEW v \in versions', v \notin versions
  PROVE  \E u \in Threads : CommitUpload(u) /\ op[u].ver = v /\ op[u].kind = "upload"
  <1>1. ASSUME NEW t \in Threads, ThreadStep(t) PROVE CommitUpload(t) /\ op[t].ver = v /\ op[t].kind = "upload"
    <2>1. CASE CommitUpload(t)
      BY <2>1 DEF CommitUpload, At
    <2>2. CASE versions' \subseteq versions
      BY <2>2
    <2> QED
      BY <1>1, <2>1, <2>2
         DEF ThreadStep, TakeLock, LockTimeout, ScrollPoints, RewritePoints, QueueIngest,
             PurgeLater, PurgeVersion, PurgeFile, CommitRollback, CommitArchive,
             DeleteVersionRow, DeleteFileRows, fileVars
  <1>2. ASSUME NEW t \in Threads, Call(t) PROVE FALSE
    BY <1>2, Asked DEF Asking, Base
  <1> QED
    BY <1>1, <1>2, IngestFrame, RetryFrame DEF Next, Crash, Recover, vars, fileVars

\* Ingests are queued by uploads, or in place of those a crash cut.
LEMMA IngestOrigin ==
  ASSUME Base, [Next]_vars, NEW i \in Ingests, stage[i] = "unused", stage'[i] # "unused"
  PROVE  \/ \E t \in Threads : /\ QueueIngest(t) /\ ver'[i] = op[t].ver
                               /\ \A j \in Ingests \ {i} : stage'[j] = stage[j]
         \/ Recover /\ UNCHANGED op /\ \E last \in Gone : ver'[i] = ver[last]
         \/ \E k \in Ingests : /\ RetryIngest(k) /\ stage[k] # "unused" /\ ver'[i] = ver[k]
                               /\ UNCHANGED op /\ \A j \in Ingests \ {i} : stage'[j] = stage[j]
  <1> USE DEF Base, Typed
  <1>1. ASSUME NEW j \in Ingests, IngestStep(j) PROVE FALSE
    BY <1>1 DEF IngestStep, StartIngest, FailIngest, CheckFile, StorePoints, FailStored,
                RecheckFile, SettleIngest
  <1>2. ASSUME NEW t \in Threads, ThreadStep(t)
        PROVE  QueueIngest(t) /\ ver'[i] = op[t].ver /\ \A j \in Ingests \ {i} : stage'[j] = stage[j]
    <2>1. CASE QueueIngest(t)
      <3>1. PICK j \in Ingests : /\ stage' = [stage EXCEPT ![j] = "queued"]
                                 /\ ver' = [ver EXCEPT ![j] = op[t].ver]
        BY <2>1 DEF QueueIngest
      <3>2. j = i
        BY <3>1
      <3> QED
        BY <2>1, <3>1, <3>2
    <2>2. CASE PurgeFile(t)
      BY <2>2 DEF PurgeFile
    <2>3. CASE stage' = stage
      BY <2>3
    <2> QED
      BY <1>2, <2>1, <2>2, <2>3
         DEF ThreadStep, TakeLock, LockTimeout, ScrollPoints, RewritePoints,
             PurgeLater, PurgeVersion, CommitUpload, CommitRollback, CommitArchive,
             DeleteVersionRow, DeleteFileRows, indexVars
  <1>3. ASSUME NEW t \in Threads, Call(t) PROVE FALSE
    BY <1>3, Asked DEF Asking
  <1>4. CASE Recover
    <2>1. PICK last \in Gone : \E next \in SUBSET {j \in Ingests : IsUnused(j)} :
             /\ stage' = [j \in Ingests |-> IF j \in next THEN "queued"
                                            ELSE IF j \in Gone THEN "replaced" ELSE stage[j]]
             /\ ver' = [j \in Ingests |-> IF j \in next THEN ver[last] ELSE ver[j]]
      BY <1>4 DEF Recover
    <2>2. ver'[i] = ver[last]
      BY <2>1 DEF Gone
    <2> QED
      BY <1>4, <2>2 DEF Recover
  <1>5. CASE Crash \/ UNCHANGED vars
    BY <1>5 DEF Crash, OnLedger, Running, vars, indexVars
  <1>6. ASSUME NEW k \in Ingests, CutIngest(k) \/ RetryIngest(k)
        PROVE  /\ RetryIngest(k) /\ stage[k] # "unused" /\ ver'[i] = ver[k]
               /\ UNCHANGED op /\ \A j \in Ingests \ {i} : stage'[j] = stage[j]
    BY <1>6, RetryFrame, RetryQueues DEF Ended
  <1> QED
    BY <1>1, <1>2, <1>3, <1>4, <1>5, <1>6 DEF Next

\* An ingest is not forgotten.
LEMMA StaysAssigned ==
  ASSUME Base, [Next]_vars, NEW i \in Ingests, stage[i] # "unused"
  PROVE  /\ stage'[i] # "unused"
         /\ stage[i] = "replaced" => stage'[i] = "replaced"
  <1> USE DEF Base, Typed
  <1>1. ASSUME NEW j \in Ingests, IngestStep(j)
        PROVE  stage'[i] # "unused" /\ (stage[i] = "replaced" => stage'[i] = "replaced")
    BY <1>1 DEF IngestStep, StartIngest, FailIngest, CheckFile, StorePoints, FailStored,
                RecheckFile, SettleIngest
  <1>2. ASSUME NEW t \in Threads, ThreadStep(t)
        PROVE  stage'[i] # "unused" /\ (stage[i] = "replaced" => stage'[i] = "replaced")
    BY <1>2 DEF ThreadStep, TakeLock, LockTimeout, ScrollPoints, RewritePoints, QueueIngest, IsUnused,
             PurgeLater, PurgeVersion, PurgeFile, CommitUpload, CommitRollback, CommitArchive,
             DeleteVersionRow, DeleteFileRows, indexVars
  <1>3. ASSUME NEW t \in Threads, Call(t) PROVE stage' = stage
    BY <1>3, Asked DEF Asking
  <1>4. CASE Recover
    BY <1>4 DEF Recover, IsUnused, Gone
  <1>5. CASE Crash \/ UNCHANGED vars
    BY <1>5 DEF Crash, OnLedger, Running, vars, indexVars
  <1> QED
    BY <1>1, <1>2, <1>3, <1>4, <1>5, RetryQueues DEF Next

\* A retry is not undone, and a task is retried once.
LEMMA RetriedOrigin ==
  ASSUME Base, [Next]_vars, NEW i \in Ingests
  PROVE  /\ shownAs[i] = "retried" => shownAs'[i] = "retried"
         /\ shownAs'[i] = "retried" => shownAs[i] = "retried" \/ RetryIngest(i)
  <1> USE DEF Base, Typed
  <1>1. ASSUME NEW j \in Ingests, IngestStep(j) \/ CutIngest(j) \/ RetryIngest(j)
        PROVE  /\ shownAs[i] = "retried" => shownAs'[i] = "retried"
               /\ shownAs'[i] = "retried" => shownAs[i] = "retried" \/ RetryIngest(i)
    BY <1>1 DEF IngestStep, StartIngest, FailIngest, CheckFile, StorePoints, FailStored,
                RecheckFile, SettleIngest, CutIngest, RetryIngest, Fails
  <1>2. ASSUME NEW t \in Threads, ThreadStep(t) PROVE shownAs' = shownAs
    BY <1>2 DEF ThreadStep, TakeLock, LockTimeout, ScrollPoints, RewritePoints, QueueIngest,
             PurgeLater, PurgeVersion, PurgeFile, CommitUpload, CommitRollback, CommitArchive,
             DeleteVersionRow, DeleteFileRows, indexVars
  <1>3. ASSUME NEW t \in Threads, Call(t) PROVE shownAs' = shownAs
    BY <1>3, Asked DEF Asking
  <1>4. CASE Crash \/ Recover \/ UNCHANGED vars
    BY <1>4 DEF Crash, Recover, vars, indexVars
  <1> QED
    BY <1>1, <1>2, <1>3, <1>4 DEF Next

----------------------------------------------------------------------------
\* An operation that waits to commit an upload keeps what it has until it does.
LEMMA UploadEnds ==
  ASSUME Base, [Next]_vars, NEW t \in Threads, op[t].kind = "upload", op[t].pc = "commit",
         op'[t].kind = "upload"
  PROVE  op'[t] = op[t]
  <1> SUFFICES ASSUME op'[t] # op[t] PROVE FALSE
    OBVIOUS
  <1>1. CASE ThreadStep(t)
    <2>1. CommitUpload(t)
      BY <1>1, Dispatch
    <2>2. op'[t] = Idle
      BY <2>1, Ending DEF CommitUpload, Base, Typed
    <2> QED
      BY <2>2 DEF Idle
  <1>2. CASE Crash /\ op'[t] = Idle
    BY <1>2 DEF Idle
  <1> QED
    BY <1>1, <1>2, OpMoves

\* Before a version is uploaded nothing has its id.
LEMMA NewVersion ==
  ASSUME Base, UsedOnce, NEW t \in Threads, NEW v \in Versions, BeginUpload(t, v)
  PROVE  /\ number[v] = 0 /\ number'[v] # 0
         /\ v \notin versions
         /\ \A i \in Ingests : stage[i] # "unused" => ver[i] # v
         /\ \A u \in Threads :
              /\ op[u].kind \in {"upload", "rollback", "deleteVersion"} => op[u].ver # v
              /\ op[u].kind = "rollback" => v \notin op[u].later
  <1>1. number[v] = 0
    BY DEF BeginUpload
  <1>2. PICK top \in versions : number' = [number EXCEPT ![v] = number[top] + 1]
    BY DEF BeginUpload
  <1>3. number[top] \in Nat /\ number'[v] = number[top] + 1
    BY <1>2 DEF Base, Typed
  <1> QED
    BY <1>1, <1>3 DEF UsedOnce

\* A version id is never taken again, and no other operation knows it before its commit.
LEMMA StepUsedOnce ==
  ASSUME Base, UsedOnce, [Next]_vars
  PROVE  UsedOnce'
  <1> DEFINE Versioned == {"upload", "rollback", "deleteVersion"}
  <1>0. /\ versions \subseteq Versions
        /\ \A t \in Threads : op[t].later \subseteq Versions
        /\ \A t \in Threads : op[t].kind \in Versioned => op[t].ver \in Versions
        /\ \A i \in Ingests : stage[i] # "unused" => ver[i] \in Versions
    BY DEF Base, Typed, Shaped, Shape, Assigned, Operations
  <1>1. \A v \in Versions : number[v] # 0 => number'[v] # 0
    BY NumberKept
  <1>2. ASSUME NEW v \in versions' PROVE number'[v] # 0
    <2>1. v \in versions \/ \E u \in Threads : op[u].kind = "upload" /\ op[u].ver = v
      BY RowsCommitted
    <2> QED
      BY <1>0, <1>1, <2>1 DEF UsedOnce
  <1>3. ASSUME NEW i \in Ingests, stage'[i] # "unused" PROVE number'[ver'[i]] # 0
    <2>1. CASE stage[i] # "unused"
      BY <2>1, <1>0, <1>1, VersionFixed DEF UsedOnce
    <2>2. CASE stage[i] = "unused"
      <3>1. \/ \E t \in Threads : op[t].kind = "upload" /\ ver'[i] = op[t].ver
            \/ \E last \in Ingests : stage[last] # "unused" /\ ver'[i] = ver[last]
        BY <1>3, <2>2, IngestOrigin DEF QueueIngest, At, Gone
      <3> QED
        BY <1>0, <1>1, <3>1 DEF UsedOnce
    <2> QED
      BY <2>1, <2>2
  <1> DEFINE Same(t) == /\ op'[t].kind = op[t].kind /\ op'[t].ver = op[t].ver
                        /\ op'[t].later = op[t].later
  <1> DEFINE New(t) ==
        /\ \A w \in Threads \ {t} : op'[w] = op[w]
        /\ UNCHANGED <<versions, stage, ver>>
        /\ \/ op'[t].kind = "upload" /\ BeginUpload(t, op'[t].ver)
              /\ op'[t].ver \in Versions
           \/ op'[t].kind # "upload" /\ op'[t].ver \in versions
              /\ op'[t].later \subseteq versions /\ number' = number
  <1>4. \A t \in Threads : op'[t].kind \in Versioned => Same(t) \/ New(t)
    BY OpOrigin
  <1> HIDE DEF Same, New
  <1>5. ASSUME NEW t \in Threads
        PROVE  /\ op'[t].kind \in Versioned => number'[op'[t].ver] # 0
               /\ op'[t].kind = "rollback" => \A v \in op'[t].later : number'[v] # 0
    <2>1. CASE Same(t)
      BY <2>1, <1>0, <1>1 DEF UsedOnce, Same
    <2>2. CASE New(t) /\ op'[t].kind = "upload"
      BY <2>2, NewVersion DEF New
    <2>3. CASE New(t) /\ op'[t].kind # "upload"
      BY <2>3 DEF New, UsedOnce
    <2> QED
      BY <1>4, <2>1, <2>2, <2>3
  <1>6. ASSUME NEW t \in Threads, op'[t].kind = "upload" PROVE op'[t].ver \notin versions'
    <2>1. CASE Same(t)
      <3>1. ASSUME op[t].ver \in versions' PROVE FALSE
        <4>1. PICK u \in Threads : CommitUpload(u) /\ op[u].ver = op[t].ver /\ op[u].kind = "upload"
          BY <1>6, <2>1, <3>1, RowsCommitted DEF UsedOnce, Same
        <4>2. u = t
          BY <1>6, <2>1, <4>1 DEF UsedOnce, Same
        <4>3. op'[t] = Idle
          BY <4>1, <4>2, Ending DEF CommitUpload, Base, Typed
        <4> QED
          BY <1>6, <4>3 DEF Idle
      <3> QED
        BY <2>1, <3>1 DEF Same
    <2>2. CASE New(t)
      BY <1>6, <2>2, NewVersion DEF New
    <2> QED
      BY <1>4, <1>6, <2>1, <2>2
  <1>7. ASSUME NEW t \in Threads, op'[t].kind = "upload", op'[t].pc # "commit",
               NEW i \in Ingests, stage'[i] # "unused"
        PROVE  ver'[i] # op'[t].ver
    <2>1. CASE New(t)
      BY <1>7, <2>1, NewVersion DEF New
    <2>2. CASE Same(t)
      <3>1. op[t].kind = "upload" /\ op'[t].ver = op[t].ver /\ op[t].pc # "commit"
        BY <1>7, <2>2, UploadEnds DEF Same
      <3>2. CASE stage[i] # "unused"
        BY <3>1, <3>2, VersionFixed DEF UsedOnce
      <3>3. ASSUME NEW u \in Threads, QueueIngest(u), ver'[i] = op[u].ver PROVE ver'[i] # op'[t].ver
        <4>1. u # t
          BY <1>7, <3>3, Going DEF QueueIngest, Base, Typed, Pcs
        <4> QED
          BY <3>1, <3>3, <4>1 DEF QueueIngest, At, UsedOnce
      <3>4. ASSUME NEW last \in Ingests, stage[last] # "unused", ver'[i] = ver[last]
            PROVE  ver'[i] # op'[t].ver
        BY <3>1, <3>4 DEF UsedOnce
      <3> QED
        BY <1>7, <3>2, <3>3, <3>4, IngestOrigin DEF Gone
    <2> QED
      BY <1>4, <1>7, <2>1, <2>2
  <1>8. ASSUME NEW t \in Threads, op'[t].kind = "upload", NEW u \in Threads \ {t}
        PROVE  /\ op'[u].kind \in Versioned => op'[u].ver # op'[t].ver
               /\ op'[u].kind = "rollback" => op'[t].ver \notin op'[u].later
    <2>1. CASE New(t)
      BY <1>8, <2>1, NewVersion DEF New
    <2>2. CASE Same(t) /\ New(u) /\ op'[u].kind = "upload"
      BY <1>8, <2>2, NewVersion DEF New, Same
    <2>3. CASE Same(t) /\ New(u) /\ op'[u].kind # "upload"
      BY <1>8, <2>3 DEF New, Same, UsedOnce
    <2>4. CASE Same(t) /\ Same(u)
      BY <1>8, <2>4 DEF Same, UsedOnce
    <2> QED
      BY <1>4, <1>8, <2>1, <2>2, <2>3, <2>4
  <1> QED
    BY <1>2, <1>3, <1>5, <1>6, <1>7, <1>8 DEF UsedOnce

\* A given up ingest stays so.
LEMMA StaysSuperseded ==
  ASSUME Base, [Next]_vars, NEW i \in Ingests, Superseded(i)
  PROVE  Superseded(i)'
  BY StaysAssigned, RetriedOrigin DEF Superseded

\* An ingest that a crash cut, or whose task can be retried, has none in its place.
LEMMA NotSuperseded ==
  ASSUME Base, NEW i \in Ingests, stage[i] = "gone" \/ shownAs[i] = "failed"
  PROVE  stage[i] # "unused" /\ ~ Superseded(i)
  BY DEF Base, Ended, Superseded

\* An upload queues the only ingest of its version; recovery and a retry queue one
\* more for one they give up.
LEMMA StepOneIngest ==
  ASSUME Base, UsedOnce, OneIngest, [Next]_vars
  PROVE  OneIngest'
  <1>1. ASSUME NEW i \in Ingests, NEW j \in Ingests, i # j, stage[i] = "unused", stage'[i] # "unused",
               stage[j] # "unused", ver'[i] = ver'[j]
        PROVE  Superseded(j)'
    <2>1. ver'[j] = ver[j]
      BY <1>1, VersionFixed
    <2>2. ASSUME NEW t \in Threads, QueueIngest(t), ver'[i] = op[t].ver PROVE FALSE
      BY <1>1, <2>1, <2>2 DEF QueueIngest, At, UsedOnce
    <2>3. ASSUME NEW k \in Ingests, ver'[i] = ver[k], k # j, stage[k] # "unused", ~ Superseded(k)
          PROVE  Superseded(j)'
      BY <1>1, <2>1, <2>3, StaysSuperseded DEF OneIngest
    <2>4. ASSUME NEW last \in Gone, ver'[i] = ver[last], Recover PROVE Superseded(j)'
      <3>1. CASE j \in Gone
        BY <2>4, <3>1 DEF Recover, Gone, IsUnused, Superseded
      <3>2. CASE j \notin Gone
        BY <2>3, <2>4, <3>2, NotSuperseded DEF Gone
      <3> QED
        BY <3>1, <3>2
    <2>5. ASSUME NEW k \in Ingests, RetryIngest(k), ver'[i] = ver[k] PROVE Superseded(j)'
      <3>1. CASE j = k
        BY <2>5, <3>1 DEF RetryIngest, Superseded, Base, Typed
      <3>2. CASE j # k
        BY <2>3, <2>5, <3>2, NotSuperseded DEF RetryIngest
      <3> QED
        BY <3>1, <3>2
    <2> QED
      BY <1>1, <2>2, <2>4, <2>5, IngestOrigin
  <1>2. ASSUME NEW i \in Ingests, NEW j \in Ingests, i # j, stage[i] = "unused", stage'[i] # "unused",
               stage[j] = "unused", stage'[j] # "unused"
        PROVE  FALSE
    <2>1. Recover
      BY <1>2, IngestOrigin
    <2>2. IsUnused(i) /\ IsUnused(j)
      BY <1>2, <2>1 DEF Recover, Gone
    <2> QED
      BY <1>2, <2>2, BoundsAssumption DEF IsUnused, Ingests
  <1>3. ASSUME NEW i \in Ingests, NEW j \in Ingests, i # j, stage[i] # "unused", stage[j] # "unused",
               ver'[i] = ver'[j]
        PROVE  Superseded(i)' \/ Superseded(j)'
    BY <1>3, VersionFixed, StaysSuperseded DEF OneIngest
  <1> QED
    BY <1>1, <1>2, <1>3 DEF OneIngest

\* The points an operation has read were there.
LEMMA PointsOrigin ==
  ASSUME Base, [Next]_vars, NEW t \in Threads, NEW i \in Ingests, op'[t].points[i] # "none"
  PROVE  op[t].points[i] # "none" \/ chunks[i] # "none"
  <1>1. CASE ThreadStep(t)
    BY <1>1, ThreadMoves, IdleShaped DEF Base
  <1>2. CASE Call(t)
    <2>1. PICK o \in Operations : Request(o) /\ op' = [op EXCEPT ![t] = o]
      BY <1>2, Asked DEF Asking, Base
    <2>2. op'[t].points = Nothing
      BY <2>1 DEF Request, Base, Typed
    <2> QED
      BY <2>2, IdleShaped
  <1>3. CASE op'[t] = Idle
    BY <1>3, IdleShaped
  <1> QED
    BY <1>1, <1>2, <1>3, OpMoves

\* Crashes cut ingests, recovery gives them up.
LEMMA CutOrigin ==
  ASSUME Base, [Next]_vars, NEW i \in Ingests, stage'[i] \in {"gone", "replaced"}
  PROVE  stage[i] \in {"gone", "replaced"} \/ (Crash /\ i \in OnLedger)
  <1> USE DEF Base, Typed
  <1>1. ASSUME NEW j \in Ingests, IngestStep(j) PROVE stage[i] \in {"gone", "replaced"}
    BY <1>1 DEF IngestStep, StartIngest, FailIngest, CheckFile, StorePoints, FailStored,
                RecheckFile, SettleIngest
  <1>2. ASSUME NEW t \in Threads, ThreadStep(t) PROVE stage[i] \in {"gone", "replaced"}
    BY <1>2 DEF ThreadStep, TakeLock, LockTimeout, ScrollPoints, RewritePoints, QueueIngest,
                PurgeLater, PurgeVersion, PurgeFile, CommitUpload, CommitRollback, CommitArchive,
                DeleteVersionRow, DeleteFileRows, indexVars
  <1>3. ASSUME NEW t \in Threads, Call(t) PROVE stage' = stage
    BY <1>3, Asked DEF Asking
  <1>4. CASE Recover
    BY <1>4 DEF Recover, Gone
  <1>5. CASE Crash \/ UNCHANGED vars
    BY <1>5 DEF Crash, vars, indexVars
  <1> QED
    BY <1>1, <1>2, <1>3, <1>4, <1>5, RetryQueues DEF Next

\* The ingests whose points are written are those that had stored, and one that stores now.
LEMMA StoredOrigin ==
  ASSUME Base, [Next]_vars, NEW i \in Ingests, Stored(i)'
  PROVE  Stored(i) \/ StorePoints(i)
  <1> USE DEF Base, Typed, Stored
  <1>1. ASSUME NEW j \in Ingests, IngestStep(j) PROVE Stored(i) \/ StorePoints(i)
    BY <1>1 DEF IngestStep, StartIngest, FailIngest, CheckFile, StorePoints, FailStored,
                RecheckFile, SettleIngest
  <1>2. ASSUME NEW t \in Threads, ThreadStep(t) PROVE Stored(i)
    BY <1>2 DEF ThreadStep, TakeLock, LockTimeout, ScrollPoints, RewritePoints, QueueIngest,
                PurgeLater, PurgeVersion, PurgeFile, CommitUpload, CommitRollback, CommitArchive,
                DeleteVersionRow, DeleteFileRows, indexVars
  <1>3. ASSUME NEW t \in Threads, Call(t) PROVE stage' = stage
    BY <1>3, Asked DEF Asking
  <1>4. CASE Recover \/ Crash \/ UNCHANGED vars
    BY <1>4 DEF Recover, Crash, vars, indexVars
  <1> QED
    BY <1>1, <1>2, <1>3, <1>4, RetryQueues DEF Next

\* An ingest that was cut or is past its store stage does not come to it again.
LEMMA StoresOnce ==
  ASSUME Base, [Next]_vars, NEW i \in Ingests, stage[i] # "unused",
         stage[i] \notin {"queued", "running", "checked", "stored"}
  PROVE  stage'[i] \notin {"checked", "stored"}
  <1> USE DEF Base, Typed
  <1>1. ASSUME NEW j \in Ingests, IngestStep(j) PROVE stage'[i] \notin {"checked", "stored"}
    BY <1>1 DEF IngestStep, StartIngest, FailIngest, CheckFile, StorePoints, FailStored,
                RecheckFile, SettleIngest
  <1>2. ASSUME NEW t \in Threads, ThreadStep(t) PROVE stage'[i] \notin {"checked", "stored"}
    BY <1>2 DEF ThreadStep, TakeLock, LockTimeout, ScrollPoints, RewritePoints, QueueIngest,
                PurgeLater, PurgeVersion, PurgeFile, CommitUpload, CommitRollback, CommitArchive,
                DeleteVersionRow, DeleteFileRows, indexVars
  <1>3. ASSUME NEW t \in Threads, Call(t) PROVE stage' = stage
    BY <1>3, Asked DEF Asking
  <1>4. CASE Recover \/ Crash \/ UNCHANGED vars
    BY <1>4 DEF Recover, Crash, vars, indexVars
  <1> QED
    BY <1>1, <1>2, <1>3, <1>4, RetryQueues DEF Next

\* Nothing writes points for an ingest that a crash has cut or a retry replaced.
LEMMA StepCutIsBare ==
  ASSUME Base, CutIsBare, [Next]_vars
  PROVE  CutIsBare'
  <1> SUFFICES ASSUME "replayed" \notin holes', "repeated" \notin holes', NEW i \in Ingests,
                      stage'[i] = "gone" \/ Superseded(i)'
               PROVE  /\ chunks'[i] = "none" /\ stage'[i] \notin {"checked", "stored"}
                      /\ \A t \in Threads : op'[t].points[i] = "none"
    BY DEF CutIsBare, Covered
  <1>0. "replayed" \notin holes /\ "repeated" \notin holes
    BY HolesGrow DEF Base
  <1>1. CASE stage[i] = "gone" \/ Superseded(i)
    <2>1. /\ chunks[i] = "none" /\ stage[i] \notin {"checked", "stored"}
          /\ \A t \in Threads : op[t].points[i] = "none"
      BY <1>0, <1>1 DEF CutIsBare, Covered
    <2>2. stage[i] \notin {"unused", "queued", "running", "checked", "stored"}
      BY <1>1, <2>1 DEF Base, Ended, Superseded
    <2>3. chunks'[i] = "none"
      BY <2>1, ChunksChange DEF StorePoints, RewritePoints, Base
    <2>4. stage'[i] \notin {"checked", "stored"}
      BY <2>2, StoresOnce
    <2> QED
      BY <2>1, <2>3, <2>4, PointsOrigin
  <1>2. CASE Crash /\ i \in OnLedger
    <2>1. chunks[i] = "none"
      BY <1>2 DEF Crash, Met, Present, OnLedger
    <2>2. stage'[i] = "gone" /\ chunks' = chunks
      BY <1>2 DEF Crash, OnLedger
    <2> QED
      BY <1>2, <2>1, <2>2, IdleShaped DEF Crash
  <1>3. CASE RetryIngest(i)
    <2>1. /\ chunks[i] = "none" /\ stage[i] \notin {"checked", "stored"}
          /\ \A t \in Threads : op[t].points[i] = "none"
      BY <1>3 DEF RetryIngest, Met, Present
    <2>2. stage'[i] = stage[i]
      BY <1>3, RetryQueues, NotSuperseded DEF Base, RetryIngest
    <2> QED
      BY <1>3, <2>1, <2>2, RetryFrame
  <1>4. \/ stage[i] = "gone" \/ Superseded(i)
        \/ Crash /\ i \in OnLedger
        \/ RetryIngest(i)
    BY CutOrigin, RetriedOrigin DEF Superseded
  <1> QED
    BY <1>1, <1>2, <1>3, <1>4

----------------------------------------------------------------------------
\* Blobs and chunks.

\* A deleted file does not come back.
LEMMA ThereBefore ==
  ASSUME Base, [Next]_vars, file'.there
  PROVE  file.there
  <1>1. ASSUME NEW t \in Threads, ThreadStep(t) PROVE file.there
    BY <1>1 DEF Base, Typed, ThreadStep, TakeLock, LockTimeout, ScrollPoints, RewritePoints, QueueIngest,
                PurgeLater, PurgeVersion, PurgeFile, CommitUpload, CommitRollback, CommitArchive,
                DeleteVersionRow, DeleteFileRows, fileVars
  <1>2. ASSUME NEW t \in Threads, Call(t) PROVE file.there
    BY <1>2, Asked DEF Asking, Base
  <1> QED
    BY <1>1, <1>2, IngestFrame, RetryFrame DEF Next, Crash, Recover, vars, fileVars

\* Versions come from uploads.
LEMMA AwaitedOrigin ==
  ASSUME Base, [Next]_vars, NEW v \in Versions, Awaited(v)'
  PROVE  Awaited(v) \/ \E t \in Threads : BeginUpload(t, v)
  <1>1. CASE v \in versions'
    BY <1>1, RowsCommitted DEF Awaited
  <1>2. ASSUME NEW u \in Threads, op'[u].kind = "upload", op'[u].ver = v
        PROVE  Awaited(v) \/ BeginUpload(u, v)
    BY <1>2, OpOrigin DEF Awaited
  <1> QED
    BY <1>1, <1>2 DEF Awaited

\* What an operation takes from a version it takes before the rows.
LEMMA Purging ==
  ASSUME Base, NEW t \in Threads, PurgeLater(t) \/ PurgeVersion(t) \/ PurgeFile(t)
  PROVE  /\ \A v \in Versions : v \in blobs /\ v \notin blobs' => Doomed(t, v)'
         /\ \A i \in Ingests : chunks[i] # chunks'[i] => chunks'[i] = "none" /\ Doomed(t, ver[i])'
  <1>1. CASE PurgeLater(t)
    <2>1. op'[t].pc = "commit" /\ op'[t].kind = "rollback" /\ op'[t].later = op[t].later
      BY <1>1, Going DEF PurgeLater, At, Base, Typed, Pcs
    <2>2. /\ blobs' = blobs \ op[t].later
          /\ chunks' = [i \in Ingests |-> IF i \in ChunksOf(op[t].later) THEN "none" ELSE chunks[i]]
          /\ ver' = ver
      BY <1>1 DEF PurgeLater, DeletePoints
    <2> QED
      BY <2>1, <2>2 DEF Doomed, ChunksOf
  <1>2. CASE PurgeVersion(t)
    <2>1. op'[t].pc = "lock" /\ op'[t].kind = "deleteVersion" /\ op'[t].ver = op[t].ver
      BY <1>2, Going DEF PurgeVersion, At, Base, Typed, Pcs
    <2>2. /\ blobs' = blobs \ {op[t].ver}
          /\ chunks' = [i \in Ingests |-> IF i \in ChunksOf({op[t].ver}) THEN "none" ELSE chunks[i]]
          /\ ver' = ver
      BY <1>2 DEF PurgeVersion, DeletePoints
    <2> QED
      BY <2>1, <2>2 DEF Doomed, ChunksOf
  <1>3. CASE PurgeFile(t)
    <2>1. op'[t].pc = "lock" /\ op'[t].kind = "deleteFile"
      BY <1>3, Going DEF PurgeFile, At, Base, Typed, Pcs
    <2> QED
      BY <1>3, <2>1 DEF PurgeFile, DeletePoints, Doomed
  <1> QED
    BY <1>1, <1>2, <1>3

\* While the file exists only operations that will delete the rows remove blobs and chunks.
LEMMA PurgedIsDoomed ==
  ASSUME Base, [Next]_vars, file.there
  PROVE  /\ \A v \in Versions : v \in blobs /\ v \notin blobs' => \E t \in Threads : Doomed(t, v)'
         /\ \A i \in Ingests : chunks[i] # "none" /\ chunks'[i] = "none" =>
              \E t \in Threads : Doomed(t, ver[i])'
  <1> USE DEF Base, Typed
  <1>1. ASSUME NEW i \in Ingests, IngestStep(i)
        PROVE  blobs' = blobs /\ \A j \in Ingests : chunks'[j] = "none" => chunks[j] = "none"
    BY <1>1 DEF IngestStep, StartIngest, FailIngest, CheckFile, StorePoints, FailStored,
                RecheckFile, SettleIngest, fileVars
  <1>2. ASSUME NEW t \in Threads, ThreadStep(t), ~ (PurgeLater(t) \/ PurgeVersion(t) \/ PurgeFile(t))
        PROVE  blobs' = blobs /\ \A j \in Ingests : chunks'[j] = "none" => chunks[j] = "none"
    <2>1. CASE RewritePoints(t)
      <3>1. op[t].kind \in {"upload", "rollback", "archive", "unarchive"}
        BY <2>1 DEF RewritePoints, Shaped, Shape
      <3>2. \A i \in Ingests : op[t].points[i] # "none" => Flags(t, i) # "none"
        BY <3>1 DEF Flags
      <3> QED
        BY <2>1, <3>2 DEF RewritePoints, fileVars
    <2> QED
      BY <1>2, <2>1 DEF ThreadStep, TakeLock, LockTimeout, ScrollPoints, QueueIngest,
                CommitUpload, CommitRollback, CommitArchive, DeleteVersionRow, DeleteFileRows,
                fileVars, indexVars
  <1>3. ASSUME NEW t \in Threads, Call(t) PROVE blobs \subseteq blobs' /\ chunks' = chunks
    <2>1. ASSUME NEW v \in Versions, BeginUpload(t, v) PROVE blobs \subseteq blobs'
      BY <2>1 DEF BeginUpload
    <2> QED
      BY <1>3, <2>1, Asked
         DEF Call, BeginRollback, BeginDeleteVersion, BeginDeleteFile, BeginArchive, fileVars, Asking
  <1>4. CASE Crash \/ Recover \/ UNCHANGED vars
    BY <1>4 DEF Crash, Recover, vars, fileVars, indexVars
  <1> QED
    BY <1>1, <1>2, <1>3, <1>4, Purging, RetryFrame DEF Next

\* Having done so the operation deletes the rows, unless it is torn.
LEMMA DoomedStays ==
  ASSUME Base, UsedOnce, [Next]_vars, Covered({"torn"})', NEW t \in Threads, NEW v \in Versions,
         Doomed(t, v)
  PROVE  Doomed(t, v)' \/ ~ file'.there \/ ~ Awaited(v)'
  <1> SUFFICES ASSUME op'[t] # op[t], file'.there PROVE ~ Awaited(v)'
    BY DEF Doomed
  <1>0. "torn" \notin holes'
    BY DEF Covered
  <1>1. ~ Crash
    BY <1>0 DEF Crash, Met, Touched, Doomed
  <1>2. ThreadStep(t)
    BY <1>1, OpMoves DEF Doomed
  <1>3. op[t].kind \in {"rollback", "deleteVersion"} /\ v \notin versions'
    <2>1. CASE op[t].kind = "rollback"
      <3>1. CommitRollback(t)
        BY <1>2, <2>1, Dispatch DEF Doomed
      <3> QED
        BY <1>0, <2>1, <3>1 DEF CommitRollback, Doomed
    <2>2. CASE op[t].kind = "deleteVersion"
      <3>1. LockTimeout(t) \/ DeleteVersionRow(t)
        BY <1>2, <2>2, Dispatch DEF Doomed
      <3> QED
        BY <1>0, <2>2, <3>1 DEF LockTimeout, DeleteVersionRow, Doomed, Met
    <2>3. CASE op[t].kind = "deleteFile"
      <3>1. LockTimeout(t) \/ DeleteFileRows(t)
        BY <1>2, <2>3, Dispatch DEF Doomed
      <3>2. ~ LockTimeout(t)
        BY <1>0, <2>3 DEF LockTimeout, Met
      <3> QED
        BY <3>1, <3>2 DEF DeleteFileRows, Base, Typed
    <2> QED
      BY <2>1, <2>2, <2>3 DEF Doomed
  <1>4. ASSUME NEW u \in Threads, op'[u].kind = "upload", op'[u].ver = v PROVE FALSE
    <2>1. CASE op[u].kind = "upload" /\ op[u].ver = v
      BY <1>3, <2>1 DEF UsedOnce, Doomed
    <2>2. CASE BeginUpload(u, v)
      BY <1>3, <2>2, NewVersion DEF Doomed
    <2> QED
      BY <1>4, <2>1, <2>2, OpOrigin
  <1> QED
    BY <1>3, <1>4 DEF Awaited

\* Blobs and chunks outlast the rows and the uploads they belong to.
LEMMA StepKept ==
  ASSUME Base, UsedOnce, Kept, [Next]_vars
  PROVE  Kept'
  <1> SUFFICES ASSUME Covered({"torn"})', file'.there, NEW v \in Versions, Awaited(v)',
                      ~ \E t \in Threads : Doomed(t, v)'
               PROVE  v \in blobs' /\ \A i \in Ingests : ver'[i] = v /\ Stored(i)' => chunks'[i] # "none"
    BY DEF Kept
  <1>1. Covered({"torn"}) /\ file.there
    BY HolesGrow, ThereBefore DEF Covered, Base
  <1>2. CASE Awaited(v)
    <2>1. v \in blobs /\ \A i \in Ingests : ver[i] = v /\ Stored(i) => chunks[i] # "none"
      BY <1>1, <1>2, DoomedStays DEF Kept
    <2>2. v \in blobs'
      BY <1>1, <2>1, PurgedIsDoomed
    <2>3. ASSUME NEW i \in Ingests, ver'[i] = v, Stored(i)' PROVE chunks'[i] # "none"
      <3>1. CASE StorePoints(i)
        BY <3>1 DEF StorePoints, Base, Typed
      <3>2. CASE Stored(i)
        <4>1. ver[i] = v /\ ver'[i] = v
          BY <2>3, <3>2, VersionFixed DEF Stored
        <4> QED
          BY <1>1, <2>1, <3>2, <4>1, PurgedIsDoomed
      <3> QED
        BY <2>3, <3>1, <3>2, StoredOrigin
    <2> QED
      BY <2>2, <2>3
  <1>3. ASSUME NEW t \in Threads, BeginUpload(t, v)
        PROVE  v \in blobs' /\ \A i \in Ingests : ver'[i] = v /\ Stored(i)' => chunks'[i] # "none"
    <2>1. v \in blobs' /\ stage' = stage /\ ver' = ver
      BY <1>3 DEF BeginUpload, indexVars
    <2> QED
      BY <1>3, <2>1, NewVersion DEF Stored
  <1> QED
    BY <1>2, <1>3, AwaitedOrigin

\* What was stored for a version before its upload commits is live when it does.
LEMMA StepOwnIsLive ==
  ASSUME Base, CurrentRow, CurrentRow', UsedOnce, OwnIsLive, [Next]_vars
  PROVE  OwnIsLive'
  <1> SUFFICES ASSUME Covered({"stale", "torn"})', NEW t \in Threads, op'[t].kind = "upload",
                      op'[t].pc = "commit", NEW i \in Ingests, ver'[i] = op'[t].ver, Stored(i)',
                      ~ \E u \in Threads : Doomed(u, ver[i])'
               PROVE  chunks'[i] = "live"
    BY DEF OwnIsLive
  <1>0. CASE StorePoints(i)
    BY <1>0 DEF StorePoints, Base, Typed
  <1> SUFFICES ASSUME ~ StorePoints(i) PROVE chunks'[i] = "live"
    BY <1>0
  <1>1. Covered({"stale", "torn"}) /\ Covered({"torn"})'
    BY HolesGrow DEF Covered, Base
  <1>2. Stored(i) /\ ver'[i] = ver[i]
    BY StoredOrigin, VersionFixed DEF Stored
  <1>3. CASE op'[t] = op[t]
    <2>1. lock = t /\ file.there /\ file'.there /\ ver[i] \in Versions
      <3>1. op[t].kind = "upload" /\ op[t].pc = "commit" /\ ver[i] = op[t].ver
        BY <1>2, <1>3
      <3>2. InTransaction(t) /\ InTransaction(t)'
        BY <1>3, <3>1 DEF InTransaction
      <3>3. lock = t /\ Shape(op[t])
        BY <3>2 DEF Base, LockHeld, Shaped
      <3>4. ver[i] \in Versions
        BY <3>1, <3>3 DEF Shape
      <3>5. file.there /\ file'.there
        BY <3>1, <3>2 DEF CurrentRow
      <3> QED
        BY <3>3, <3>4, <3>5
    <2>2. Awaited(ver[i])'
      BY <1>2 DEF Awaited
    <2>3. chunks[i] = "live"
      BY <1>1, <1>2, <1>3, <2>1, <2>2, DoomedStays DEF OwnIsLive
    <2>4. ASSUME NEW w \in Threads, RewritePoints(w) PROVE FALSE
      <3>1. op[w].kind = "rollback" /\ w # t
        BY <1>3, <2>1, <2>4 DEF RewritePoints, Base, Shaped, Shape, LockHeld, InTransaction
      <3> QED
        BY <1>3, <2>4, <3>1 DEF RewritePoints, Met, Covered, Between
    <2> QED
      BY <2>1, <2>3, <2>4, ChunksChange, PurgedIsDoomed DEF Base
  <1>4. CASE op'[t] # op[t]
    <2>1. ThreadStep(t)
      BY <1>4, OpMoves DEF Idle
    <2>2. op[t].kind = "upload" /\ op[t].ver = op'[t].ver
      BY <2>1, ThreadMoves DEF Base, Idle
    <2>3. op[t].pc # "commit"
      BY <1>4, <2>2, UploadEnds
    <2> QED
      BY <1>2, <2>2, <2>3 DEF UsedOnce, Stored
  <1> QED
    BY <1>3, <1>4

----------------------------------------------------------------------------
\* What is found.

\* Who changes the exclusion of the file.
LEMMA ArchivedMoves ==
  ASSUME Base, [Next]_vars, file'.archived # file.archived
  PROVE  \E t \in Threads : CommitArchive(t)
  <1>1. ASSUME NEW t \in Threads, ThreadStep(t), ~ CommitArchive(t) PROVE FALSE
    BY <1>1 DEF Base, Typed, ThreadStep, TakeLock, LockTimeout, ScrollPoints, RewritePoints, QueueIngest,
                PurgeLater, PurgeVersion, PurgeFile, CommitUpload, CommitRollback,
                DeleteVersionRow, DeleteFileRows, fileVars
  <1>2. ASSUME NEW t \in Threads, Call(t) PROVE FALSE
    BY <1>2, Asked DEF Asking, Base
  <1> QED
    BY <1>1, <1>2, IngestFrame, RetryFrame DEF Next, Crash, Recover, vars, fileVars

\* The two steps of an exclusion, and of its end, on the index.
LEMMA Excluding ==
  ASSUME Base, NEW t \in Threads, ThreadStep(t), op'[t].kind \in {"archive", "unarchive"}
  PROVE  /\ op'[t].kind = op[t].kind
         /\ op'[t].pc = "upsert" => ScrollPoints(t) /\ op'[t].points = chunks
         /\ op'[t].pc = "commit" => RewritePoints(t)
  <1>1. op'[t].kind = op[t].kind
    BY ThreadMoves DEF Base, Idle
  <1>2. CASE TakeLock(t)
    BY <1>1, <1>2, Going DEF TakeLock, At, Ending, Idle, End, Base, Typed, Pcs
  <1>3. CASE LockTimeout(t) \/ CommitArchive(t)
    <2>1. op'[t] = Idle
      BY <1>3, Ending DEF LockTimeout, CommitArchive, Base, Typed
    <2> QED
      BY <2>1 DEF Idle
  <1>4. CASE ScrollPoints(t)
    <2>1. op'[t].pc = "upsert" /\ op'[t].points = chunks
      BY <1>4 DEF ScrollPoints, Base, Typed, Operations
    <2> QED
      BY <1>1, <1>4, <2>1
  <1>5. CASE RewritePoints(t)
    BY <1>1, <1>5, Rewriting DEF Base, Typed
  <1> QED
    BY <1>1, <1>2, <1>3, <1>4, <1>5
       DEF ThreadStep, QueueIngest, PurgeLater, PurgeVersion, PurgeFile, CommitUpload,
           CommitRollback, DeleteVersionRow, DeleteFileRows, At

\* Whoever is going to delete a version's rows before a step is so after it.
LEMMA Undoomed ==
  ASSUME Base, UsedOnce, [Next]_vars, Covered({"torn"})', file'.there, NEW v \in Versions, Awaited(v)',
         \A t \in Threads : ~ Doomed(t, v)'
  PROVE  \A t \in Threads : ~ Doomed(t, v)
  BY DoomedStays

\* A rewrite shows the current version, or its operation shows it later.
LEMMA RewriteShows ==
  ASSUME Base, NEW t \in Threads, RewritePoints(t), "stale" \notin holes', NEW i \in Ingests,
         ver[i] = file.current, ~ Restores(t, i)'
  PROVE  chunks'[i] = "live" \/ (op[t].points[i] = "none" /\ chunks'[i] = chunks[i])
  <1> SUFFICES ASSUME op[t].points[i] # "none" PROVE chunks'[i] = "live"
    BY DEF RewritePoints
  <1>1. chunks'[i] = Flags(t, i)
    BY DEF RewritePoints
  <1>2. CASE op[t].kind = "rollback"
    BY <1>1, <1>2 DEF RewritePoints, Flags, Met
  <1>3. CASE op[t].kind = "unarchive"
    BY <1>1, <1>3 DEF Flags
  <1>4. CASE op[t].kind \in {"upload", "archive"}
    BY <1>4, Rewriting DEF Restores, Base, Typed
  <1> QED
    BY <1>2, <1>3, <1>4 DEF RewritePoints, Base, Shaped, Shape

\* The chunks of the current version stay shown, or somebody has yet to show them.
LEMMA StepFound ==
  ASSUME Base, Base', CurrentRow, CurrentRow', UsedOnce, Kept, OwnIsLive, Found, [Next]_vars
  PROVE  Found'
  <1> SUFFICES ASSUME Covered({"stale", "torn"})', file'.there, NEW i \in Ingests,
                      ver'[i] = file'.current, Stored(i)', Wanted(i)',
                      \A t \in Threads : ~ Restores(t, i)'
               PROVE  chunks'[i] = "live"
    BY DEF Found
  <1>0. CASE StorePoints(i)
    BY <1>0 DEF StorePoints, Base, Typed
  <1> SUFFICES ASSUME ~ StorePoints(i) PROVE chunks'[i] = "live"
    BY <1>0
  <1>1. /\ "torn" \notin holes' /\ "stale" \notin holes' /\ Covered({"torn"})'
        /\ Covered({"torn"}) /\ Covered({"stale", "torn"})
        /\ file.there /\ file.current \in versions /\ file.current \in Versions
        /\ Stored(i) /\ ver'[i] = ver[i]
    <2>1. Stored(i) /\ stage[i] # "unused"
      BY StoredOrigin DEF Stored
    <2>2. file.there /\ file.current \in versions /\ file.current \in Versions
      BY ThereBefore DEF CurrentRow, Base, Typed
    <2>3. holes \subseteq holes' /\ ver'[i] = ver[i]
      BY <2>1, VersionFixed, HolesGrow DEF Base
    <2> QED
      BY <2>1, <2>2, <2>3 DEF Covered
  \* Nobody has taken away blob and chunks of the version that is current now.
  <1>2. PICK v \in Versions : v = file'.current
    BY DEF CurrentRow, Base, Typed
  <1>3. v = ver[i] /\ Awaited(v)'
    BY <1>1, <1>2 DEF CurrentRow, Awaited
  <1>4. \A t \in Threads : ~ Doomed(t, v) /\ ~ Doomed(t, v)'
    <2>1. \A t \in Threads : ~ Doomed(t, v)'
      BY <1>2 DEF Restores, Doomed
    <2> QED
      BY <1>1, <1>3, <2>1, Undoomed
  <1>5. ASSUME Awaited(v) PROVE chunks[i] # "none"
    BY <1>1, <1>3, <1>4, <1>5 DEF Kept
  \* What is shown stays, and any rewrite of the points read shows it.
  <1>6. ASSUME NEW t \in Threads, RewritePoints(t)
        PROVE  chunks'[i] = "live" \/ (op[t].points[i] = "none" /\ chunks'[i] = chunks[i])
    BY <1>1, <1>2, <1>3, <1>6, RewriteShows DEF RewritePoints, fileVars
  <1>7. CASE chunks[i] = "live"
    <2>1. chunks'[i] = "none" => \E t \in Threads : Doomed(t, ver[i])'
      BY <1>1, <1>7, PurgedIsDoomed
    <2>2. chunks'[i] # "none"
      BY <1>1, <1>2, <1>4, <2>1 DEF Doomed
    <2> QED
      BY <1>6, <1>7, <2>2, ChunksChange DEF Base
  \* The current version changes.
  <1>8. CASE v # file.current
    <2>1. ASSUME NEW t \in Threads, CommitUpload(t) PROVE chunks[i] = "live"
      <3>1. op[t].kind = "upload" /\ op[t].pc = "commit" /\ op[t].ver = v
        BY <1>2, <2>1 DEF CommitUpload, At, Base, Typed
      <3> QED
        BY <1>1, <1>3, <1>4, <3>1 DEF OwnIsLive
    <2>2. ASSUME NEW t \in Threads, CommitRollback(t) PROVE FALSE
      <3>1. file' = [file EXCEPT !.current = op[t].ver, !.rev = @ + 1] /\ Goto(t, "scroll")
            /\ op[t].kind = "rollback"
        BY <1>1, <1>2, <1>8, <2>2 DEF CommitRollback, At
      <3>2. op'[t].kind = "rollback" /\ op'[t].ver = op[t].ver /\ op'[t].pc = "scroll"
        BY <3>1, Going DEF Base, Typed, Pcs
      <3>3. file'.current = op[t].ver
        BY <3>1 DEF Base, Typed
      <3> QED
        BY <3>2, <3>3 DEF Restores
    <2>3. ASSUME NEW t \in Threads, DeleteFileRows(t) PROVE FALSE
      BY <2>3 DEF DeleteFileRows, Base, Typed
    <2> QED
      BY <1>2, <1>7, <1>8, <2>1, <2>2, <2>3, CurrentMoves
  \* It stays.  Who was to show it again has done so.
  <1>9. CASE v = file.current /\ Wanted(i)
    <2>1. Awaited(v)
      BY <1>1, <1>9 DEF Awaited
    <2>2. SUFFICES ASSUME NEW t \in Threads, Restores(t, i) PROVE chunks'[i] = "live"
      BY <1>1, <1>3, <1>7, <1>9 DEF Found
    <2>3. op'[t] # op[t] /\ op[t].pc # "idle" /\ ~ Doomed(t, file.current)
      BY <1>2, <1>4, <1>9, <2>2 DEF Restores
    <2>4. ~ Crash
      BY <1>1, <2>2, <2>3 DEF Crash, Met, Touched, Restores
    <2>5. ThreadStep(t)
      BY <2>3, <2>4, OpMoves
    <2>6. CASE op[t].kind = "rollback" /\ op[t].pc = "scroll"
      <3>1. ScrollPoints(t)
        BY <2>5, <2>6, Dispatch
      <3>2. op'[t].kind = op[t].kind /\ op'[t].ver = op[t].ver /\ op'[t].pc = "upsert"
            /\ op'[t].points = chunks
        BY <3>1 DEF ScrollPoints, Base, Typed, Operations
      <3> QED
        BY <1>2, <1>5, <1>9, <2>1, <2>2, <2>3, <2>6, <3>2 DEF Restores
    <2>7. CASE op[t].kind = "rollback" /\ op[t].pc = "upsert"
      BY <1>6, <2>2, <2>3, <2>5, <2>7, Dispatch DEF Restores
    <2>8. CASE op[t].kind = "upload" /\ op[t].pc = "queue"
      <3>1. QueueIngest(t)
        BY <2>5, <2>8, Dispatch
      <3> QED
        BY <2>8, <3>1, Going DEF QueueIngest, Restores, Base, Typed, Pcs
    <2>9. CASE op[t].kind = "upload" /\ op[t].pc = "commit"
      <3>1. CommitUpload(t)
        BY <2>5, <2>9, Dispatch
      <3> QED
        BY <1>1, <1>2, <1>9, <2>9, <3>1 DEF CommitUpload, UsedOnce, Base, Typed
    <2>10. CASE op[t].kind = "archive" /\ op[t].pc = "commit"
      <3>1. CommitArchive(t) /\ lock = t
        BY <2>5, <2>10, Dispatch DEF Base, LockHeld, InTransaction
      <3>2. file'.archived /\ lock' = NoThread
        BY <2>10, <3>1 DEF CommitArchive, Unlock, Base, Typed
      <3>3. PICK u \in Threads : op'[u].kind = "unarchive" /\ op'[u].pc \in {"upsert", "commit"}
        BY <3>2 DEF Wanted
      <3> QED
        BY <3>2, <3>3, ThreadsAssumption DEF Base, LockHeld, InTransaction
    <2> QED
      BY <2>2, <2>3, <2>6, <2>7, <2>8, <2>9, <2>10 DEF Restores
  <1>10. CASE v = file.current /\ ~ Wanted(i)
    <2>1. Awaited(v)
      BY <1>1, <1>10 DEF Awaited
    <2>2. file.archived /\ file'.archived
      <3>1. ASSUME NEW t \in Threads, CommitArchive(t), ~ file'.archived PROVE FALSE
        BY <1>10, <3>1 DEF CommitArchive, At, Wanted, Base, Typed
      <3> QED
        BY <1>10, <3>1, ArchivedMoves DEF Wanted, Base, Typed
    <2>3. PICK u \in Threads : /\ op'[u].kind = "unarchive"
                               /\ op'[u].pc \in {"upsert", "commit"}
                               /\ op'[u].pc = "upsert" => op'[u].points[i] = "none"
      BY <2>2 DEF Wanted
    <2>4. ThreadStep(u)
      BY <1>10, <2>3, OpMoves DEF Wanted, Idle
    <2>5. CASE op'[u].pc = "upsert"
      BY <1>5, <2>1, <2>3, <2>4, <2>5, Excluding
    <2>6. CASE op'[u].pc = "commit"
      <3>1. op[u].kind = "unarchive" /\ RewritePoints(u)
        BY <2>3, <2>4, <2>6, Excluding
      <3>2. op[u].pc = "upsert"
        BY <3>1 DEF RewritePoints
      <3>3. op[u].points[i] # "none"
        BY <1>10, <3>1, <3>2 DEF Wanted
      <3> QED
        BY <1>6, <3>1, <3>3
    <2> QED
      BY <2>3, <2>5, <2>6
  <1> QED
    BY <1>8, <1>9, <1>10

\* An operation on the index that waits for nothing else is not overtaken.
LEMMA NothingShown ==
  ASSUME Base, [Next]_vars, "between" \notin holes', "stale" \notin holes',
         NEW t \in Threads, Between(t), InTransaction(t), ~ RewritePoints(t), NEW i \in Ingests
  PROVE  chunks'[i] = chunks[i] \/ chunks'[i] = "none"
  <1> SUFFICES ASSUME chunks'[i] # chunks[i], chunks'[i] # "none" PROVE FALSE
    OBVIOUS
  <1>1. ~ StorePoints(i)
    BY DEF StorePoints, Met
  <1>2. PICK w \in Threads : RewritePoints(w)
    BY <1>1, ChunksChange DEF Base
  <1>3. op[w].kind = "rollback"
    BY <1>2 DEF RewritePoints, Base, Shaped, Shape, LockHeld, InTransaction
  <1> QED
    BY <1>2, <1>3 DEF RewritePoints, Met

\* An exclusion hides all chunks and no later step shows one, but its end.
LEMMA StepHidden ==
  ASSUME Base, Hidden, [Next]_vars
  PROVE  Hidden'
  <1> SUFFICES ASSUME Covered({"excluded", "between", "stale", "torn"})' PROVE Hidden'
    BY DEF Hidden
  <1>1. /\ "excluded" \notin holes' /\ "between" \notin holes' /\ "stale" \notin holes' /\ "torn" \notin holes'
        /\ Covered({"excluded", "between", "stale", "torn"})
    BY HolesGrow DEF Covered, Base
  <1>2. ASSUME NEW t \in Threads, op'[t].kind = "archive", op'[t].pc = "upsert",
               NEW i \in Ingests, chunks'[i] = "live"
        PROVE  op'[t].points[i] # "none"
    <2>1. CASE op'[t] = op[t]
      <3>1. ~ RewritePoints(t)
        BY <1>2, <2>1, Rewriting DEF Base, Typed
      <3>2. chunks[i] = "live"
        BY <1>1, <1>2, <2>1, <3>1, NothingShown DEF Between, InTransaction
      <3> QED
        BY <1>1, <1>2, <2>1, <3>2 DEF Hidden
    <2>2. CASE op'[t] # op[t]
      <3>1. ThreadStep(t)
        BY <1>2, <2>2, OpMoves DEF Idle
      <3>2. ScrollPoints(t) /\ op'[t].points = chunks
        BY <1>2, <3>1, Excluding
      <3> QED
        BY <1>2, <3>2 DEF ScrollPoints, indexVars
    <2> QED
      BY <2>1, <2>2
  <1>3. ASSUME NEW t \in Threads, op'[t].kind = "archive", op'[t].pc = "commit", NEW i \in Ingests
        PROVE  chunks'[i] # "live"
    <2>1. CASE op'[t] = op[t]
      <3>1. ~ RewritePoints(t)
        BY <1>3, <2>1 DEF RewritePoints
      <3>2. chunks[i] # "live"
        BY <1>1, <1>3, <2>1 DEF Hidden
      <3> QED
        BY <1>1, <1>3, <2>1, <3>1, <3>2, NothingShown DEF Between, InTransaction
    <2>2. CASE op'[t] # op[t]
      <3>1. ThreadStep(t)
        BY <1>3, <2>2, OpMoves DEF Idle
      <3>2. RewritePoints(t) /\ op[t].kind = "archive" /\ op[t].pc = "upsert"
        BY <1>3, <3>1, Excluding DEF RewritePoints
      <3>3. chunks[i] = "live" => op[t].points[i] # "none"
        BY <1>1, <3>2 DEF Hidden
      <3> QED
        BY <3>2, <3>3 DEF RewritePoints, Flags
    <2> QED
      BY <2>1, <2>2
  <1>4. ASSUME file'.archived
        PROVE  \/ \A i \in Ingests : chunks'[i] # "live"
               \/ \E t \in Threads : op'[t].kind = "unarchive" /\ op'[t].pc = "commit"
    <2>1. CASE ~ file.archived
      <3>1. PICK t \in Threads : CommitArchive(t)
        BY <1>4, <2>1, ArchivedMoves
      <3>2. op[t].kind = "archive" /\ op[t].pc = "commit" /\ chunks' = chunks
        BY <1>4, <3>1 DEF CommitArchive, At, indexVars, Base, Typed
      <3> QED
        BY <1>1, <3>2 DEF Hidden
    <2>2. ASSUME NEW t \in Threads, op[t].kind = "unarchive", op[t].pc = "commit"
          PROVE  op'[t] = op[t]
      <3>1. ASSUME ThreadStep(t) PROVE FALSE
        <4>1. CommitArchive(t)
          BY <2>2, <3>1, Dispatch
        <4> QED
          BY <1>4, <2>2, <4>1 DEF CommitArchive, Base, Typed
      <3>2. ~ Crash
        BY <1>1, <2>2 DEF Crash, Met, Touched
      <3> QED
        BY <2>2, <3>1, <3>2, OpMoves
    <2>3. ASSUME file.archived, \A i \in Ingests : chunks[i] # "live",
                 NEW i \in Ingests, chunks'[i] = "live"
          PROVE  \E t \in Threads : op'[t].kind = "unarchive" /\ op'[t].pc = "commit"
      <3>1. ~ StorePoints(i)
        BY <1>1, <2>3 DEF StorePoints, Met
      <3>2. PICK t \in Threads : RewritePoints(t)
        BY <2>3, <3>1, ChunksChange DEF Base
      <3>3. op[t].kind \in {"upload", "archive", "unarchive"}
        BY <1>1, <2>3, <3>2 DEF RewritePoints, Met, Base, Shaped, Shape
      <3>4. op[t].kind = "unarchive"
        BY <2>3, <3>2, <3>3 DEF RewritePoints, Flags
      <3> QED
        BY <3>2, <3>4, Rewriting DEF Base, Typed
    <2> QED
      BY <1>1, <2>1, <2>2, <2>3 DEF Hidden
  <1> QED
    BY <1>2, <1>3, <1>4 DEF Hidden

----------------------------------------------------------------------------
\* Ingests that a crash cut.

\* A crash takes the operations with it, so none goes on for an ingest it cut.
LEMMA StepOwnIsUncut ==
  ASSUME Base, UsedOnce, OwnIsUncut, [Next]_vars
  PROVE  OwnIsUncut'
  <1> SUFFICES ASSUME NEW t \in Threads, op'[t].kind = "upload",
                      NEW i \in Ingests, stage'[i] \in {"gone", "replaced"}
               PROVE  ver'[i] # op'[t].ver
    BY DEF OwnIsUncut
  <1>1. ~ Crash
    <2>1. Crash => op'[t] = Idle
      BY DEF Crash
    <2>2. Idle.kind = "none"
      BY DEF Idle
    <2> QED
      BY <2>1, <2>2
  <1>2. stage[i] \in {"gone", "replaced"}
    BY <1>1, CutOrigin
  <1>3. ver'[i] = ver[i]
    BY <1>2, VersionFixed
  <1>4. CASE op'[t].kind = op[t].kind /\ op'[t].ver = op[t].ver
    BY <1>2, <1>3, <1>4 DEF OwnIsUncut
  <1>5. CASE BeginUpload(t, op'[t].ver) /\ op'[t].ver \in Versions
    BY <1>2, <1>3, <1>5, NewVersion
  <1>6. op'[t].kind \in {"upload", "rollback", "deleteVersion"}
    OBVIOUS
  <1>7. \/ op'[t].kind = op[t].kind /\ op'[t].ver = op[t].ver
        \/ op'[t].kind = "upload" /\ BeginUpload(t, op'[t].ver) /\ op'[t].ver \in Versions
        \/ op'[t].kind # "upload"
    BY <1>6, OpOrigin
  <1> QED
    BY <1>4, <1>5, <1>7

\* Only recovery gives ingests up.
LEMMA GivenUp ==
  ASSUME Base, [Next]_vars, NEW i \in Ingests, stage'[i] = "replaced"
  PROVE  stage[i] = "replaced" \/ (Recover /\ i \in Gone)
  <1> USE DEF Base, Typed
  <1>1. ASSUME NEW j \in Ingests, IngestStep(j) PROVE stage[i] = "replaced"
    BY <1>1 DEF IngestStep, StartIngest, FailIngest, CheckFile, StorePoints, FailStored,
                RecheckFile, SettleIngest
  <1>2. ASSUME NEW t \in Threads, ThreadStep(t) PROVE stage[i] = "replaced"
    BY <1>2 DEF ThreadStep, TakeLock, LockTimeout, ScrollPoints, RewritePoints, QueueIngest,
                PurgeLater, PurgeVersion, PurgeFile, CommitUpload, CommitRollback, CommitArchive,
                DeleteVersionRow, DeleteFileRows, indexVars
  <1>3. ASSUME NEW t \in Threads, Call(t) PROVE stage' = stage
    BY <1>3, Asked DEF Asking
  <1>4. CASE Recover
    BY <1>4 DEF Recover
  <1>5. CASE Crash \/ UNCHANGED vars
    BY <1>5 DEF Crash, vars, indexVars
  <1> QED
    BY <1>1, <1>2, <1>3, <1>4, <1>5, RetryQueues DEF Next

\* Recovery queues the version of an ingest it gives up again, or has dropped it.
LEMMA QueuedAgain ==
  ASSUME Base, Recover, NEW i \in Gone, ver[i] \in versions, "dropped" \notin holes'
  PROVE  \E k \in Ingests : stage'[k] = "queued" /\ ver'[k] = ver[i]
  <1> DEFINE Again(last) == IF ver[last] = file.current THEN {ver[last]} ELSE {}
  <1>1. PICK last \in Gone :
          /\ \E next \in SUBSET {j \in Ingests : IsUnused(j)} :
               /\ Cardinality(next) = Cardinality(Again(last))
               /\ stage' = [j \in Ingests |-> IF j \in next THEN "queued"
                                              ELSE IF j \in Gone THEN "replaced" ELSE stage[j]]
               /\ ver' = [j \in Ingests |-> IF j \in next THEN ver[last] ELSE ver[j]]
          /\ holes' = holes \union Met("dropped", \E j \in Gone : ver[j] \in versions \ Again(last))
    BY DEF Recover
  <1>2. PICK next \in SUBSET {j \in Ingests : IsUnused(j)} :
               /\ Cardinality(next) = Cardinality(Again(last))
               /\ stage' = [j \in Ingests |-> IF j \in next THEN "queued"
                                              ELSE IF j \in Gone THEN "replaced" ELSE stage[j]]
               /\ ver' = [j \in Ingests |-> IF j \in next THEN ver[last] ELSE ver[j]]
    BY <1>1
  <1>3. ver[i] \in Again(last)
    BY <1>1 DEF Met
  <1>4. Again(last) = {ver[last]} /\ ver[i] = ver[last]
    BY <1>3
  <1>5. Cardinality(next) = 1
    BY <1>2, <1>4, FS_Singleton
  <1>6. next # {}
    BY <1>5, FS_EmptySet
  <1>7. PICK k \in next : TRUE
    BY <1>6
  <1> QED
    BY <1>2, <1>4, <1>7

\* So an ingest always has one in its place.
LEMMA StepSucceeded ==
  ASSUME Base, Base', UsedOnce, OwnIsUncut, Succeeded, [Next]_vars
  PROVE  Succeeded'
  <1> DEFINE Live(j) == stage[j] # "unused" /\ ~ Superseded(j)
  <1> SUFFICES ASSUME "dropped" \notin holes',
                      NEW i \in Ingests, Superseded(i)', Awaited(ver[i])'
               PROVE  \E j \in Ingests : ver'[j] = ver'[i] /\ Live(j)'
    BY DEF Succeeded, Covered
  <1>1. "dropped" \notin holes
    BY HolesGrow DEF Base
  <1>2. Superseded(i) \/ (Recover /\ i \in Gone) \/ RetryIngest(i)
    BY GivenUp, RetriedOrigin DEF Superseded
  <1>3. stage[i] # "unused" /\ ver'[i] = ver[i]
    <2>1. stage[i] # "unused"
      BY <1>2, NotSuperseded DEF Gone, RetryIngest, Base, Ended, Superseded
    <2> QED
      BY <2>1, VersionFixed
  <1>4. Awaited(ver[i])
    <2>1. PICK v \in Versions : v = ver[i]
      BY <1>3 DEF Base, Assigned
    <2>2. Awaited(v)'
      BY <1>3, <2>1 DEF Awaited
    <2>3. ASSUME NEW t \in Threads, BeginUpload(t, v) PROVE FALSE
      BY <1>3, <2>1, <2>3, NewVersion
    <2>4. Awaited(v)
      BY <2>2, <2>3, AwaitedOrigin
    <2> QED
      BY <2>1, <2>4
  <1>5. ASSUME NEW j \in Ingests, ver[j] = ver[i], Live(j), ~ (Recover /\ j \in Gone), ~ RetryIngest(j)
        PROVE  ver'[j] = ver'[i] /\ Live(j)'
    <2>1. stage'[j] # "replaced"
      BY <1>5, GivenUp DEF Superseded
    <2>2. shownAs'[j] # "retried"
      BY <1>5, RetriedOrigin DEF Superseded
    <2> QED
      BY <1>3, <1>5, <2>1, <2>2, VersionFixed, StaysAssigned DEF Superseded
  <1>6. ASSUME NEW k \in Ingests, stage'[k] = "queued" PROVE Live(k)'
    BY <1>6 DEF Base, Ended, Superseded
  <1>7. ASSUME NEW j \in Gone, ver[j] = ver[i], Recover
        PROVE  \E k \in Ingests : ver'[k] = ver'[i] /\ Live(k)'
    <2>1. ver[j] \in versions
      BY <1>4, <1>7 DEF Awaited, OwnIsUncut, Gone
    <2> QED
      BY <1>3, <1>6, <1>7, <2>1, QueuedAgain
  <1>8. ASSUME NEW j \in Ingests, ver[j] = ver[i], RetryIngest(j)
        PROVE  \E k \in Ingests : ver'[k] = ver'[i] /\ Live(k)'
    <2>1. PICK k \in Ingests : /\ IsUnused(k)
                               /\ stage' = [stage EXCEPT ![k] = "queued"]
                               /\ ver' = [ver EXCEPT ![k] = ver[j]]
      BY <1>8 DEF RetryIngest
    <2>2. stage'[k] = "queued" /\ ver'[k] = ver[i]
      BY <1>8, <2>1 DEF Base, Typed
    <2> QED
      BY <1>3, <1>6, <2>2
  <1>9. CASE Superseded(i)
    <2>1. PICK j \in Ingests : ver[j] = ver[i] /\ Live(j)
      BY <1>1, <1>4, <1>9 DEF Succeeded, Covered
    <2> QED
      BY <1>5, <1>7, <1>8, <2>1
  <1> QED
    BY <1>2, <1>7, <1>8, <1>9

----------------------------------------------------------------------------
\* The second invariant holds at first.
LEMMA InitInv2 == Init => Inv2
  <1> SUFFICES ASSUME Init PROVE Inv2
    OBVIOUS
  <1> USE DEF Init
  <1>0. \A t \in Threads : op[t] = Idle
    OBVIOUS
  <1>1. UsedOnce
    BY <1>0, VersionsAssumption, BoundsAssumption DEF UsedOnce, Idle, Versions, Ingests, NoVersion
  <1>2. OneIngest
    BY VersionsAssumption, BoundsAssumption DEF OneIngest, Ingests
  <1>3. CutIsBare
    BY DEF CutIsBare, Superseded
  <1>4. Kept
    BY <1>0, VersionsAssumption, BoundsAssumption DEF Kept, Awaited, Idle, Ingests, Versions, Stored
  <1>5. OwnIsLive
    BY <1>0 DEF OwnIsLive, Idle
  <1>6. Found
    BY VersionsAssumption, BoundsAssumption DEF Found, Ingests, Stored
  <1>7. Hidden
    BY <1>0 DEF Hidden, Idle
  <1>8. OwnIsUncut /\ Succeeded
    BY DEF OwnIsUncut, Succeeded, Superseded
  <1> QED
    BY <1>1, <1>2, <1>3, <1>4, <1>5, <1>6, <1>7, <1>8 DEF Inv2

\* Every step keeps it, given the first one.
LEMMA StepInv2 == Inv /\ Inv' /\ Inv2 /\ [Next]_vars => Inv2'
  BY StepUsedOnce, StepOneIngest, StepCutIsBare, StepKept, StepOwnIsLive, StepFound, StepHidden,
     StepOwnIsUncut, StepSucceeded
     DEF Inv2, Inv

\* Both are invariants.
LEMMA Invariance2 == Spec => [](Inv /\ Inv2)
  <1>1. Init => Inv /\ Inv2
    BY InitInv, InitInv2
  <1>2. Inv /\ Inv2 /\ [Next]_vars => Inv' /\ Inv2'
    BY StepInv, StepInv2
  <1> QED
    BY <1>1, <1>2, PTL DEF Spec

\* Current versions keep their upload on disk: whoever removes a blob, or is
\* going to (rollback_file_version, delete_file_version, delete_file), removes
\* the version's row as well or is torn.
THEOREM BlobsAreKept == Spec => []CurrentHasBlob
  <1>1. Inv /\ Inv2 => CurrentHasBlob
    <2> SUFFICES ASSUME Inv, Inv2, Covered({"torn"}), AtRest, file.there
                 PROVE  file.current \in blobs
      BY DEF CurrentHasBlob
    <2>1. file.current \in versions /\ file.current \in Versions
      BY DEF Inv, CurrentRow, Base, Typed
    <2>2. \A t \in Threads : ~ Doomed(t, file.current)
      BY DEF AtRest, Doomed
    <2> QED
      BY <2>1, <2>2 DEF Inv2, Kept, Awaited
  <1> QED
    BY <1>1, Invariance2, PTL

\* A version is ingested once, by upload_handler or by the task that recovery or
\* retry_task queues in its place; unless one of two holes is met the first has
\* left no chunks then, and stores none afterwards.
THEOREM StoredOnce == Spec => []TwiceOnlyByRerun
  <1>1. Inv /\ Inv2 => TwiceOnlyByRerun
    <2> SUFFICES ASSUME Inv, Inv2, Covered({"replayed", "repeated"}), NEW i \in Present,
                        NEW j \in Present, ver[i] = ver[j], i # j
                 PROVE  FALSE
      BY DEF TwiceOnlyByRerun
    <2>1. Superseded(i) \/ Superseded(j)
      BY DEF Inv, Inv2, Base, Assigned, OneIngest, Present
    <2> QED
      BY <2>1 DEF Inv2, CutIsBare, Present
  <1> QED
    BY <1>1, Invariance2, PTL

\* A file excluded from search is not found: toggle_archive has rewritten every
\* chunk shown before it commits, and nothing shows one afterwards.
THEOREM ExclusionHolds == Spec => []ExcludedIsHidden
  <1>1. Inv /\ Inv2 => ExcludedIsHidden
    <2> SUFFICES ASSUME Inv2, Covered({"excluded", "between", "stale", "torn"}), AtRest, file.archived
                 PROVE  \A i \in Ingests : chunks[i] # "live"
      BY DEF ExcludedIsHidden, Shown
    <2> QED
      BY DEF Inv2, Hidden, AtRest
  <1> QED
    BY <1>1, Invariance2, PTL

\* What is ingested for the current version is found once the operations on the
\* file are over: a rewrite shows its chunks, or the operation has a step left
\* that shows them, makes another version current or excludes the file.
THEOREM CurrentIsSearchable == Spec => []CurrentIsFound
  <1>1. Inv /\ Inv2 => CurrentIsFound
    <2> SUFFICES ASSUME Inv2, Covered({"stale", "torn"}), AtRest, file.there, ~ file.archived,
                        NEW i \in ChunksOf({file.current}), stage[i] \in {"done", "settled"}
                 PROVE  chunks[i] = "live"
      BY DEF CurrentIsFound
    <2>1. \A t \in Threads : ~ Restores(t, i)
      BY DEF AtRest, Restores, Doomed
    <2> QED
      BY <2>1 DEF Inv2, Found, Stored, Wanted, ChunksOf
  <1> QED
    BY <1>1, Invariance2, PTL

\* An upload that was queued for ingest is not lost: while its version is
\* current it is found, or an ingest of it that was not retried is under way, has
\* failed where the user sees it, or waits for recovery, but for the holes named.
UploadIsNotLost ==
  Covered({"stale", "torn", "dropped"}) /\ AtRest /\ file.there /\ ~ file.archived =>
    \A i \in Ingests : stage[i] # "unused" /\ ver[i] = file.current =>
      \/ file.current \in Shown
      \/ \E j \in Ingests :
           /\ ver[j] = file.current /\ shownAs[j] # "retried"
           /\ stage[j] \in {"queued", "running", "checked", "gone", "failed"} \/ shownAs[j] # "open"

\* That holds throughout, crashes included (the safety half of
\* UploadsBecomeSearchable: recover_upload_tasks gives up no ingest of the
\* current version without one in its place, and what is stored is shown).
THEOREM NoUploadIsLost == Spec => []UploadIsNotLost
  <1>1. Inv /\ Inv2 => UploadIsNotLost
    <2> SUFFICES ASSUME Inv, Inv2, Covered({"stale", "torn", "dropped"}), AtRest, file.there,
                        ~ file.archived, NEW i \in Ingests, stage[i] # "unused", ver[i] = file.current,
                        \A j \in Ingests : ver[j] = file.current /\ shownAs[j] # "retried" =>
                          /\ stage[j] \notin {"queued", "running", "checked", "gone", "failed"}
                          /\ shownAs[j] = "open"
                 PROVE  file.current \in Shown
      BY DEF UploadIsNotLost
    <2>1. Base /\ file.current \in versions
      BY DEF Inv, CurrentRow
    <2>2. Covered({"stale", "torn"}) /\ Covered({"dropped"})
      BY DEF Covered
    <2>3. PICK j \in Ingests : ver[j] = file.current /\ stage[j] # "unused" /\ ~ Superseded(j)
      BY <2>1, <2>2 DEF Inv2, Succeeded, Awaited
    <2>4. stage[j] \in Stages /\ shownAs[j] = "open" /\ stage[j] # "aborted"
      BY <2>1, <2>3 DEF Base, Typed, Ended, Superseded
    <2>5. Stored(j)
      BY <2>3, <2>4 DEF Stored, Stages, Running, Superseded
    <2>6. \A t \in Threads : ~ Restores(t, j)
      BY DEF AtRest, Restores, Doomed
    <2>7. chunks[j] = "live"
      BY <2>2, <2>3, <2>5, <2>6 DEF Inv2, Found, Wanted
    <2> QED
      BY <2>3, <2>7 DEF Shown
  <1> QED
    BY <1>1, Invariance2, PTL

----------------------------------------------------------------------------
\* The refinement.

\* Initial states are initial states of SearchableFile.
LEMMA InitRefines == Init => Searchable!Init
  BY VersionsAssumption DEF Init, Searchable!Init, Shown, Covered, Versions

\* Every step is one of SearchableFile's, or changes nothing a search may see.
LEMMA StepRefines ==
  ASSUME Inv, Inv', [Next]_vars
  PROVE  [Searchable!Next]_(Searchable!vars)
  <1> USE DEF Inv, Base
  <1>1. Shown' \subseteq Versions
    BY DEF Shown, Assigned, Typed
  <1>2. file'.current \in Versions \union {NoVersion}
    BY VersionsAssumption DEF Typed, Versions, NoVersion
  <1>3. CASE ~ Covered(Holes)'
    BY <1>1, <1>2, <1>3 DEF Searchable!Next, Searchable!LoseTrust, Covered
  <1>4. CASE Covered(Holes)'
    <2>1. Covered(Holes) /\ Calm /\ Calm'
      BY <1>4, HolesGrow DEF Covered, Calm, Holes
    <2>2. Shown' \subseteq {file'.current}
      BY <2>1 DEF LiveIsCurrent, Shown
    <2>3. CASE file'.current = file.current
      <3>1. CASE Shown' = {}
        BY <1>4, <2>1, <2>3, <3>1 DEF Searchable!Next, Searchable!Hide, Covered
      <3>2. CASE Shown' = {file.current}
        <4>1. file.current # NoVersion
          BY <1>1, <3>2, VersionsInRange
        <4> QED
          BY <1>4, <2>1, <2>3, <3>2, <4>1 DEF Searchable!Next, Searchable!Show, Covered
      <3> QED
        BY <2>2, <2>3, <3>1, <3>2
    <2>4. CASE file'.current # file.current
      <3>1. (\A i \in Ingests : chunks[i] # "live") /\ UNCHANGED <<chunks, ver>>
        BY <2>1, <2>4, MovesUnseen
      <3>2. Shown = {} /\ Shown' = Shown
        BY <3>1 DEF Shown
      <3>3. Searchable!Replace(file.current')
        BY <1>4, <2>1, <3>2 DEF Searchable!Replace, Covered
      <3> QED
        BY <1>2, <2>1, <3>3 DEF Searchable!Next
    <2> QED
      BY <2>3, <2>4
  <1> QED
    BY <1>3, <1>4

\* The file keeps the promise of SearchableFile: a search finds one version or
\* none, and the version changes only while it finds none, until a hole is met.
THEOREM Refinement == Spec => ImplementsSearchable
  <1>1. Inv /\ Inv' /\ [Next]_vars => [Searchable!Next]_(Searchable!vars)
    BY StepRefines
  <1> QED
    BY <1>1, InitRefines, Invariance, PTL DEF Spec, Searchable!Spec, ImplementsSearchable
=============================================================================
