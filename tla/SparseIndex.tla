---------------------------- MODULE SparseIndex ----------------------------
(***************************************************************************)
(* The sparse (BM25) index of one collection: the vectors on its chunks,   *)
(* the vocabulary that gives term ids a meaning, and the counter of chunk  *)
(* changes that triggers a rebuild (tasks/handlers.py, rag/sparse_encoder  *)
(* and rag/sparse_recalc).                                                 *)
(*                                                                         *)
(* Vocabulary, counter and rebuild lock are fields of one point in Qdrant, *)
(* the collection config.  update_collection_config reads that point whole *)
(* and writes it back whole: whatever another thread changed in between is *)
(* undone.  Every update is two steps here, a read and a write; a value    *)
(* that is computed from the config was read the moment before.            *)
(*                                                                         *)
(* A text has one term of its own, so a chunk stands for its term and a    *)
(* vocabulary is a sequence of chunks: the position is the term id.        *)
(***************************************************************************)
EXTENDS Naturals, Sequences, FiniteSets, SequencesExt

CONSTANTS
  Chunks,         \* chunks ever stored; a thread per chunk stores or deletes it
  Rebuilds,       \* sparse_recalc tasks that can exist at the same time
  Writers,        \* threads that update other fields of the config point
  NoChunk,        \* nobody is in _sparse_vocab_lock
  Threshold,      \* sparse_recalc_threshold
  MaxUses         \* bound: uploads, deletions, requests for a rebuild, other updates,
                  \* crashes and failed calls

ASSUME ChunksAssumption == /\ IsFiniteSet(Chunks \union Rebuilds)
                           /\ Chunks \intersect Rebuilds = {}
                           /\ Writers \intersect (Chunks \union Rebuilds) = {}
                           /\ NoChunk \notin Chunks
ASSUME ThresholdAssumption == Threshold \in Nat \ {0}
ASSUME UsesAssumption == MaxUses \in Nat

VARIABLES
  config,    \* the config point: lock, vocab, counter
  vector,    \* term id in a chunk's sparse vector; 0: no such point
  proc,      \* where each thread and task is, and what it has read
  vocabLock, \* who is in _sparse_vocab_lock
  trigger,   \* the user's request: "none", "create"
  counted,   \* history: changes bumped so far, and those a rebuild has dealt with
  uses,      \* uploads, deletions, requests for a rebuild, other updates, crashes and
             \* failed calls so far
  undone,    \* history: config fields some update put back to an older value
  mishaps    \* history: the other known ways to go wrong that were met

indexState == <<config, vector, proc, vocabLock, trigger, counted, uses, undone, mishaps>>

\* lock: "free", "held", or "stale" (held, its sparse_lock_at over LOCK_STALE_SEC old)
EmptyConfig == [lock |-> "free", vocab |-> <<>>, counter |-> 0]
Fields == DOMAIN EmptyConfig

\* terms: the vocabulary it works on; seen: the config it read; had, mark:
\* history, the counter and the changes counted at a rebuild's scroll
At(pc) == [pc |-> pc, terms |-> <<>>, seen |-> EmptyConfig, had |-> 0, mark |-> 0]

StorePcs == {"new", "again", "encoded", "saveVocab", "store", "stored", "deleted",
             "bump", "bumpWrite", "check", "create"}
HoldingPcs == {"scroll", "vectors", "save", "saveWrite", "count", "countWrite",
               "reset", "resetWrite", "release", "releaseWrite", "abandon", "abandonWrite"}
RebuildPcs == {"unused", "acquire", "takeWrite", "recheck", "failed"} \union HoldingPcs
WriterPcs == {"idle", "write"}
PcsOf(p) == IF p \in Chunks THEN StorePcs ELSE IF p \in Rebuilds THEN RebuildPcs ELSE WriterPcs

\* raced:      two rebuilds read the lock before either had written it
\* misread:    a rebuild took the lock for free because it could not be read
\* overtaken:  a rebuild that was still running had its lock taken over
\* crossed:    a text was encoded and stored across a rebuild's scroll or save
\* halfway:    a rebuild wrote vectors and did not save the vocabulary
\* blank:      a text was encoded with no vocabulary because none could be read
\* unsaved:    a vocabulary could not be saved, and its vectors are used all the same
\* kept:       a lock could not be released, or not be cleared at a start
\* forgotten:  a rebuild subtracted more than had been counted at its scroll
\* gaveUp:     a rebuild failed
\* selfBlocked: the re-check at a rebuild's end found that rebuild itself
\* lostTask:   a crash met a rebuild that was due
Mishaps == {"raced", "misread", "overtaken", "crossed", "halfway", "blank", "unsaved", "kept",
            "forgotten", "gaveUp", "selfBlocked", "lostTask"}

Vocabularies == {s \in SeqOf(Chunks, Cardinality(Chunks)) : IsInjective(s)}
Configs == [lock : {"free", "held", "stale"}, vocab : Vocabularies, counter : Nat]

IdIn(terms, c) == CHOOSE i \in DOMAIN terms : terms[i] = c

Holding(r) == proc[r].pc \in HoldingPcs
\* has_active_task(collection, "sparse_recalc"): the status stays PROCESSING
\* until the handler has returned.
Active == \E r \in Rebuilds : proc[r].pc # "unused"
Points == {c \in Chunks : vector[c] # 0}
Encoding(c) == proc[c].pc \in {"encoded", "saveVocab", "store"}
\* Between a rebuild's scroll and the save of what it made of it.
Rebuilding(r) == proc[r].pc \in {"vectors", "save", "saveWrite"}

\* One type per field; a thread is in the vocabulary lock from load to save.
IndexTypeOK ==
  /\ config \in Configs
  /\ vector \in [Chunks -> 0..Cardinality(Chunks)]
  /\ \A p \in Chunks \union Rebuilds \union Writers :
       /\ proc[p].pc \in PcsOf(p)
       /\ proc[p].terms \in Vocabularies /\ proc[p].seen \in Configs
       /\ proc[p].had \in Nat /\ proc[p].mark \in Nat
  /\ vocabLock \in Chunks \union {NoChunk}
  /\ trigger \in {"none", "create"}
  /\ counted \in [{"bumped", "handled"} -> Nat]
  /\ uses \in Nat
  /\ undone \subseteq Fields /\ mishaps \subseteq Mishaps
  /\ \A c \in Chunks : vocabLock = c <=> proc[c].pc \in {"encoded", "saveVocab"}

\* Some chunks have been stored, one after the other; if that reached the
\* threshold, a rebuild has followed.
IndexInit ==
  /\ \E vocab \in Vocabularies :
       LET n == IF Len(vocab) < Threshold THEN Len(vocab) ELSE 0 IN
       /\ config = [EmptyConfig EXCEPT !.vocab = vocab, !.counter = n]
       /\ vector = [c \in Chunks |-> IF c \in Range(vocab) THEN IdIn(vocab, c) ELSE 0]
       /\ proc = [p \in Chunks \union Rebuilds \union Writers |->
                    At(IF p \in Writers THEN "idle"
                       ELSE IF p \in Rebuilds THEN "unused"
                       ELSE IF p \in Range(vocab) THEN "stored" ELSE "new")]
       /\ counted = [bumped |-> n, handled |-> 0]
  /\ vocabLock = NoChunk
  /\ trigger = "none"
  /\ uses = 0
  /\ undone = {} /\ mishaps = {}

----------------------------------------------------------------------------
(* Steps of threads.                                                       *)

Move(p, pc) == proc' = [proc EXCEPT ![p].pc = pc]

Note(what) == mishaps' = mishaps \union what

\* The read of update_collection_config.
ReadConfig(p, from, to) ==
  /\ proc[p].pc = from
  /\ proc' = [proc EXCEPT ![p].pc = to, ![p].seen = config]
  /\ UNCHANGED <<config, vector, vocabLock, trigger, counted, uses, undone, mishaps>>

\* The write of update_collection_config: the fields in set, the others as
\* they were read.  A counter is computed from the one read.
WriteConfig(p, set) ==
  /\ config' = [f \in Fields |-> IF f \in DOMAIN set THEN set[f] ELSE proc[p].seen[f]]
  /\ undone' = undone \union {f \in Fields : /\ proc[p].seen[f] # config[f]
                                             /\ f = "counter" \/ f \notin DOMAIN set}

----------------------------------------------------------------------------
(* Storing a chunk.                                                        *)

WithTerm(vocab, c) == IF c \in Range(vocab) THEN vocab ELSE Append(vocab, c)

\* Mutation of Encode: no lock around load and save.
EncodeUnlocked(c) ==
  /\ proc[c].pc \in {"new", "again"}
  /\ IF proc[c].pc = "new" THEN uses < MaxUses /\ uses' = uses + 1 ELSE UNCHANGED uses
  /\ vocabLock' = c
  /\ proc' = [proc EXCEPT ![c].pc = "encoded", ![c].terms = WithTerm(config.vocab, c)]
  /\ Note(IF \E r \in Rebuilds : Rebuilding(r) THEN {"crossed"} ELSE {})
  /\ UNCHANGED <<config, vector, trigger, counted, undone>>

\* _do_sparse: load the vocabulary and encode, in the vocabulary lock.
Encode(c) ==
  /\ proc[c].pc \in {"new", "again"} /\ vocabLock = NoChunk
  /\ IF proc[c].pc = "new" THEN uses < MaxUses /\ uses' = uses + 1 ELSE UNCHANGED uses
  /\ vocabLock' = c
  /\ proc' = [proc EXCEPT ![c].pc = "encoded", ![c].terms = WithTerm(config.vocab, c)]
  /\ Note(IF \E r \in Rebuilds : Rebuilding(r) THEN {"crossed"} ELSE {})
  /\ UNCHANGED <<config, vector, trigger, counted, undone>>

\* encoder.save, and out of the vocabulary lock.
SaveVocab(c) ==
  /\ proc[c].pc = "saveVocab"
  /\ WriteConfig(c, [vocab |-> proc[c].terms])
  /\ vocabLock' = NoChunk
  /\ proc' = [proc EXCEPT ![c] = [At("store") EXCEPT !.terms = proc[c].terms]]
  /\ UNCHANGED <<vector, trigger, counted, uses, mishaps>>

\* _do_store: the point and its sparse vector.
StoreChunk(c) ==
  /\ proc[c].pc = "store"
  /\ vector' = [vector EXCEPT ![c] = IdIn(proc[c].terms, c)]
  /\ proc' = [proc EXCEPT ![c] = At("bump")]
  /\ UNCHANGED <<config, vocabLock, trigger, counted, uses, undone, mishaps>>

\* delete_document: the chunks go, then the counter is bumped the same way.
DeleteChunk(c) ==
  /\ proc[c].pc = "stored" /\ uses < MaxUses
  /\ uses' = uses + 1
  /\ vector' = [vector EXCEPT ![c] = 0]
  /\ Move(c, "bump")
  /\ UNCHANGED <<config, vocabLock, trigger, counted, undone, mishaps>>

\* Where a thread ends up that has counted its change.
Settled(c) == At(IF vector[c] = 0 THEN "deleted" ELSE "stored")

\* Mutation of BumpCounter: a rebuild only when the threshold has been passed.
BumpCounterPast(c) ==
  LET counter == proc[c].seen.counter + 1 IN
  /\ proc[c].pc = "bumpWrite"
  /\ WriteConfig(c, [counter |-> counter])
  /\ counted' = [counted EXCEPT !.bumped = @ + 1]
  /\ proc' = [proc EXCEPT ![c] = IF counter > Threshold THEN At("check") ELSE Settled(c)]
  /\ UNCHANGED <<vector, vocabLock, trigger, uses, mishaps>>

\* _bump_sparse_recalc_counter, with the counter it has read.
BumpCounter(c) ==
  LET counter == proc[c].seen.counter + 1 IN
  /\ proc[c].pc = "bumpWrite"
  /\ WriteConfig(c, [counter |-> counter])
  /\ counted' = [counted EXCEPT !.bumped = @ + 1]
  /\ proc' = [proc EXCEPT ![c] = IF counter >= Threshold THEN At("check") ELSE Settled(c)]
  /\ UNCHANGED <<vector, vocabLock, trigger, uses, mishaps>>

\* _schedule_sparse_recalc: nothing to do when a rebuild is active ...
Schedule(c) ==
  /\ proc[c].pc = "check"
  /\ proc' = [proc EXCEPT ![c] = IF Active THEN Settled(c) ELSE At("create")]
  /\ UNCHANGED <<config, vector, vocabLock, trigger, counted, uses, undone, mishaps>>

\* ... else create_task, which nothing ties to that answer.
CreateTask(c, r) ==
  /\ proc[c].pc = "create" /\ proc[r].pc = "unused"
  /\ proc' = [proc EXCEPT ![c] = Settled(c), ![r] = At("acquire")]
  /\ UNCHANGED <<config, vector, vocabLock, trigger, counted, uses, undone, mishaps>>

\* trigger_sparse_recalc goes the same way in a request thread.
UserSchedules ==
  /\ uses < MaxUses /\ trigger = "none" /\ ~Active
  /\ uses' = uses + 1
  /\ trigger' = "create"
  /\ UNCHANGED <<config, vector, proc, vocabLock, counted, undone, mishaps>>

UserCreatesTask(r) ==
  /\ trigger = "create" /\ proc[r].pc = "unused"
  /\ trigger' = "none"
  /\ proc' = [proc EXCEPT ![r] = At("acquire")]
  /\ UNCHANGED <<config, vector, vocabLock, counted, uses, undone, mishaps>>

----------------------------------------------------------------------------
(* A rebuild: run_sparse_recalc in an executor thread.                     *)

\* Mutation of Acquire: the lock is taken whoever has it.
AcquireAnyway(r) ==
  /\ proc[r].pc = "acquire"
  /\ proc' = [proc EXCEPT ![r].pc = "takeWrite", ![r].seen = config]
  /\ Note(IF config.lock = "stale" /\ \E q \in Rebuilds : Holding(q) THEN {"overtaken"} ELSE {})
  /\ UNCHANGED <<config, vector, vocabLock, trigger, counted, uses, undone>>

\* _acquire_lock reads the lock, once a second for LOCK_TIMEOUT seconds: it
\* goes on to take a lock that is free, or that is old.
Acquire(r) ==
  /\ proc[r].pc = "acquire" /\ config.lock \in {"free", "stale"}
  /\ proc' = [proc EXCEPT ![r].pc = "takeWrite", ![r].seen = config]
  /\ Note(IF config.lock = "stale" /\ \E q \in Rebuilds : Holding(q) THEN {"overtaken"} ELSE {})
  /\ UNCHANGED <<config, vector, vocabLock, trigger, counted, uses, undone>>

\* SparseRecalcLocked.
AcquireTimesOut(r) ==
  /\ proc[r].pc = "acquire" /\ config.lock = "held"
  /\ Move(r, "failed")
  /\ UNCHANGED <<config, vector, vocabLock, trigger, counted, uses, undone, mishaps>>

TakeLock(r) ==
  /\ proc[r].pc = "takeWrite"
  /\ WriteConfig(r, [lock |-> "held"])
  /\ proc' = [proc EXCEPT ![r] = At("scroll")]
  /\ Note(IF \E q \in Rebuilds \ {r} : proc[q].pc = "takeWrite" THEN {"raced"} ELSE {})
  /\ UNCHANGED <<vector, vocabLock, trigger, counted, uses>>

\* LOCK_STALE_SEC pass.  The holder may be a rebuild that takes that long.
LockAges ==
  /\ config.lock = "held"
  /\ config' = [config EXCEPT !.lock = "stale"]
  /\ UNCHANGED <<vector, proc, vocabLock, trigger, counted, uses, undone, mishaps>>

\* All texts are read, and a vocabulary made of them in scroll order.
Scroll(r) ==
  /\ proc[r].pc = "scroll"
  /\ \E terms \in SetToSeqs(Points) :
       proc' = [proc EXCEPT ![r] = [At(IF terms = <<>> THEN "reset" ELSE "vectors") EXCEPT
                                      !.terms = terms, !.had = config.counter, !.mark = counted.bumped]]
  /\ Note(IF \E c \in Chunks : Encoding(c) THEN {"crossed"} ELSE {})
  /\ UNCHANGED <<config, vector, vocabLock, trigger, counted, uses, undone>>

\* upsert_sparse_vectors rewrites every scrolled point that is still there.
WriteVectors(r) ==
  LET terms == proc[r].terms IN
  /\ proc[r].pc = "vectors" /\ Range(terms) \subseteq Points
  /\ vector' = [c \in Chunks |-> IF c \in Range(terms) THEN IdIn(terms, c) ELSE vector[c]]
  /\ Move(r, "save")
  /\ UNCHANGED <<config, vocabLock, trigger, counted, uses, undone, mishaps>>

\* Mutation of FailVectors: a refused batch leaves without releasing the lock.
FailVectorsLocked(r) ==
  LET terms == proc[r].terms IN
  /\ proc[r].pc = "vectors"
  /\ \E written \in SUBSET (Range(terms) \intersect Points) :
       /\ vector' = [c \in Chunks |-> IF c \in written THEN IdIn(terms, c) ELSE vector[c]]
       /\ Note(IF written = {} THEN {} ELSE {"halfway"})
  /\ proc' = [proc EXCEPT ![r] = At("failed")]
  /\ UNCHANGED <<config, vocabLock, trigger, counted, uses, undone>>

\* It goes in batches: when Qdrant refuses one (a point that was deleted, no
\* connection) the earlier ones have been written.
FailVectors(r) ==
  LET terms == proc[r].terms IN
  /\ proc[r].pc = "vectors"
  /\ \E written \in SUBSET (Range(terms) \intersect Points) :
       /\ vector' = [c \in Chunks |-> IF c \in written THEN IdIn(terms, c) ELSE vector[c]]
       /\ Note(IF written = {} THEN {} ELSE {"halfway"})
  /\ proc' = [proc EXCEPT ![r] = At("abandon")]
  /\ UNCHANGED <<config, vocabLock, trigger, counted, uses, undone>>

\* encoder.save; the vocabulary lock of the storing threads is not taken.
SaveRebuilt(r) ==
  /\ proc[r].pc = "saveWrite"
  /\ WriteConfig(r, [vocab |-> proc[r].terms])
  /\ Move(r, "count")
  /\ UNCHANGED <<vector, vocabLock, trigger, counted, uses, mishaps>>

\* What a rebuild ends with: the changes up to its scroll are dealt with.
\* n chunks scrolled, but fewer changes counted: later ones are subtracted too.
Handled(r, n) ==
  /\ counted' = [counted EXCEPT !.handled = Max({@, proc[r].mark})]
  /\ Note(IF proc[r].had < n /\ counted.bumped > proc[r].mark THEN {"forgotten"} ELSE {})

\* Mutation of CountRebuilt: the counter goes to 0, changes made meanwhile included.
CountRebuiltToZero(r) ==
  /\ proc[r].pc = "countWrite"
  /\ WriteConfig(r, [counter |-> 0])
  /\ Handled(r, Len(proc[r].terms))
  /\ proc' = [proc EXCEPT ![r] = At("release")]
  /\ UNCHANGED <<vector, vocabLock, trigger, uses>>

\* The chunks handled are subtracted from what the counter is now.
CountRebuilt(r) ==
  LET n == Len(proc[r].terms)
      counter == proc[r].seen.counter IN
  /\ proc[r].pc = "countWrite"
  /\ WriteConfig(r, [counter |-> IF counter > n THEN counter - n ELSE 0])
  /\ Handled(r, n)
  /\ proc' = [proc EXCEPT ![r] = At("release")]
  /\ UNCHANGED <<vector, vocabLock, trigger, uses>>

\* An empty collection: the counter goes to 0, whatever it is by now.
ResetCount(r) ==
  /\ proc[r].pc = "resetWrite"
  /\ WriteConfig(r, [counter |-> 0])
  /\ Handled(r, proc[r].had + 1)
  /\ proc' = [proc EXCEPT ![r] = At("release")]
  /\ UNCHANGED <<vector, vocabLock, trigger, uses>>

\* An exception goes on past the finally, to the end of the task.
Released(r) == At(IF proc[r].pc = "abandonWrite" THEN "failed" ELSE "recheck")

\* _release_lock, in the finally; whoever has the lock by now loses it.
ReleaseLock(r) ==
  /\ proc[r].pc \in {"releaseWrite", "abandonWrite"}
  /\ WriteConfig(r, [lock |-> "free"])
  /\ proc' = [proc EXCEPT ![r] = Released(r)]
  /\ UNCHANGED <<vector, vocabLock, trigger, counted, uses, mishaps>>

\* sparse_recalc_handler looks at the counter once more and would schedule the
\* next pass; has_active_task still answers with this very task.
Recheck(r) ==
  /\ proc[r].pc = "recheck"
  /\ proc' = [proc EXCEPT ![r] = At("unused")]
  /\ Note(IF config.counter >= Threshold THEN {"selfBlocked"} ELSE {})
  /\ UNCHANGED <<config, vector, vocabLock, trigger, counted, uses, undone>>

\* The task is FAILED.
Fail(r) ==
  /\ proc[r].pc = "failed"
  /\ proc' = [proc EXCEPT ![r] = At("unused")]
  /\ Note({"gaveUp"})
  /\ UNCHANGED <<config, vector, vocabLock, trigger, counted, uses, undone>>

----------------------------------------------------------------------------
(* Calls of Qdrant that fail.  Bounded with the other uses.                *)

Failing == uses < MaxUses /\ uses' = uses + 1

\* Where an update reads the config, and where it writes it.
Updates == {<<"encoded", "saveVocab">>, <<"bump", "bumpWrite">>, <<"acquire", "takeWrite">>,
            <<"save", "saveWrite">>, <<"count", "countWrite">>, <<"reset", "resetWrite">>,
            <<"release", "releaseWrite">>, <<"abandon", "abandonWrite">>}

\* get_collection_config swallows every exception and answers with the defaults:
\* a rebuild takes the lock for free (and then updates a config it can read), an
\* update writes the defaults back.
MisreadConfig(p) ==
  /\ Failing
  /\ \E update \in Updates :
       /\ proc[p].pc = update[1]
       /\ proc' = [proc EXCEPT ![p].pc = update[2],
                              ![p].seen = IF update[1] = "acquire"
                                          THEN [config EXCEPT !.lock = "free"] ELSE EmptyConfig]
  /\ Note(IF proc[p].pc = "acquire" /\ config.lock # "free" THEN {"misread"} ELSE {})
  /\ UNCHANGED <<config, vector, vocabLock, trigger, counted, undone>>

\* encoder.load takes a config it cannot read for one without vocabulary.
EncodeBlank(c) ==
  /\ proc[c].pc \in {"new", "again"} /\ vocabLock = NoChunk
  /\ Failing
  /\ vocabLock' = c
  /\ proc' = [proc EXCEPT ![c].pc = "encoded", ![c].terms = <<c>>]
  /\ Note({"blank"})
  /\ UNCHANGED <<config, vector, trigger, counted, undone>>

\* encoder.save and _release_lock log a write that fails and go on.
LoseWrite(p) ==
  /\ proc[p].pc \in {"saveVocab", "saveWrite", "releaseWrite", "abandonWrite"}
  /\ Failing
  /\ vocabLock' = IF vocabLock = p THEN NoChunk ELSE vocabLock
  /\ proc' = [proc EXCEPT ![p] = IF proc[p].pc = "saveVocab"
                                 THEN [At("store") EXCEPT !.terms = proc[p].terms]
                                 ELSE IF proc[p].pc = "saveWrite"
                                 THEN [proc[p] EXCEPT !.pc = "count"]
                                 ELSE Released(p)]
  /\ Note({IF proc[p].pc \in {"saveVocab", "saveWrite"} THEN "unsaved" ELSE "kept"})
  /\ UNCHANGED <<config, vector, trigger, counted, undone>>

\* All others raise: a thread's change stays uncounted, a rebuild ends.
FailCall(p) ==
  /\ proc[p].pc \in {"bumpWrite", "takeWrite", "scroll", "countWrite", "resetWrite"}
  /\ Failing
  /\ proc' = [proc EXCEPT ![p] = IF p \in Chunks THEN Settled(p)
                                 ELSE At(IF Holding(p) THEN "abandon" ELSE "failed")]
  /\ UNCHANGED <<config, vector, vocabLock, trigger, counted, undone, mishaps>>

----------------------------------------------------------------------------
(* Updates of other fields: the coverage line, the tags, the counter of    *)
(* summary changes, the settings.                                          *)

\* They write back what they read of these fields, the defaults if they cannot.
BeginUpdate(w) ==
  /\ proc[w].pc = "idle" /\ Failing
  /\ \E seen \in {config, EmptyConfig} :
       proc' = [proc EXCEPT ![w].pc = "write", ![w].seen = seen]
  /\ UNCHANGED <<config, vector, vocabLock, trigger, counted, undone, mishaps>>

EndUpdate(w) ==
  /\ proc[w].pc = "write"
  /\ WriteConfig(w, <<>>)
  /\ proc' = [proc EXCEPT ![w] = At("idle")]
  /\ UNCHANGED <<vector, vocabLock, trigger, counted, uses, mishaps>>

----------------------------------------------------------------------------
(* A crash and the next start: the tasks of the general queue are gone,    *)
(* clear_sparse_locks frees the lock, interrupted uploads run again.       *)

Restarted(p) ==
  IF p \in Writers THEN At("idle")
  ELSE IF p \in Rebuilds THEN At("unused")
  ELSE IF proc[p].pc \in {"new", "stored", "deleted"} THEN proc[p]
  ELSE IF p \in Points \/ Encoding(p) THEN At("again")
  ELSE At("deleted")

\* What clear_sparse_locks leaves: a lock that is set stays so when the config
\* cannot be read or written, which is logged at most; when only the read of its
\* update fails, the defaults are written back.
AtStart == {[config EXCEPT !.lock = "free"]}
          \union IF config.lock = "free" THEN {} ELSE {config, EmptyConfig}

IndexCrash ==
  /\ Failing
  /\ config' \in AtStart
  /\ undone' = undone \union {f \in Fields \ {"lock"} : config'[f] # config[f]}
  /\ proc' = [p \in DOMAIN proc |-> Restarted(p)]
  /\ vocabLock' = NoChunk /\ trigger' = "none"
  /\ Note((IF \E r \in Rebuilds : proc[r].pc \in {"save", "saveWrite"} THEN {"halfway"} ELSE {})
          \union (IF Active \/ config.counter >= Threshold THEN {"lostTask"} ELSE {})
          \union IF config'.lock = "free" THEN {} ELSE {"kept"})
  /\ UNCHANGED <<vector, counted>>

----------------------------------------------------------------------------
Store(c) ==
  \/ Encode(c) \/ ReadConfig(c, "encoded", "saveVocab") \/ SaveVocab(c) \/ StoreChunk(c)
  \/ ReadConfig(c, "bump", "bumpWrite") \/ BumpCounter(c)
  \/ Schedule(c) \/ \E r \in Rebuilds : CreateTask(c, r)

Rebuild(r) ==
  \/ Acquire(r) \/ AcquireTimesOut(r) \/ TakeLock(r)
  \/ Scroll(r) \/ WriteVectors(r) \/ FailVectors(r)
  \/ ReadConfig(r, "save", "saveWrite") \/ SaveRebuilt(r)
  \/ ReadConfig(r, "count", "countWrite") \/ CountRebuilt(r)
  \/ ReadConfig(r, "reset", "resetWrite") \/ ResetCount(r)
  \/ ReadConfig(r, "release", "releaseWrite") \/ ReadConfig(r, "abandon", "abandonWrite")
  \/ ReleaseLock(r)
  \/ Recheck(r) \/ Fail(r)

IndexNext ==
  \/ \E c \in Chunks : Store(c) \/ DeleteChunk(c)
  \/ \E r \in Rebuilds : Rebuild(r) \/ UserCreatesTask(r)
  \/ \E c \in Chunks : EncodeBlank(c)
  \/ \E p \in Chunks \union Rebuilds : MisreadConfig(p) \/ LoseWrite(p) \/ FailCall(p)
  \/ \E w \in Writers : BeginUpdate(w) \/ EndUpdate(w)
  \/ UserSchedules \/ LockAges \/ IndexCrash

IndexSpec == IndexInit /\ [][IndexNext]_indexState

----------------------------------------------------------------------------
(* Properties.                                                             *)

\* The lock in the config point keeps rebuilds apart (sparse_recalc.py
\* "Another rebuild holds the sparse_lock; this run did not start") but for
\* four ways: both read it before either took it, one could not read it, a slow
\* one is taken for dead, or an update of another field puts the lock back to
\* what it was.
OneRebuild ==
  \/ \A q, r \in Rebuilds : Holding(q) /\ Holding(r) => q = r
  \/ {"raced", "misread", "overtaken"} \intersect mishaps # {}
  \/ "lock" \in undone

\* A lock that is set has a rebuild behind it: none ends, fails or dies with
\* the process and leaves it set, unless an update of another field set it or
\* it could be neither released nor cleared at the next start.
LockHasHolder ==
  \/ config.lock # "free" => \E r \in Rebuilds : Holding(r)
  \/ "kept" \in mishaps
  \/ "lock" \in undone

\* The term id in a chunk's vector means the chunk's term (the comment on
\* _sparse_vocab_locks fears "BM25 encodings that do not match the vectors
\* stored"), between rebuilds and but for the ways named.
VectorsFitVocabulary ==
  \/ \A c \in Points : vector[c] \in DOMAIN config.vocab /\ config.vocab[vector[c]] = c
  \/ \E r \in Rebuilds : proc[r].pc \in {"save", "saveWrite"}
  \/ {"raced", "misread", "overtaken", "crossed", "halfway", "blank", "unsaved"} \intersect mishaps # {}
  \/ {"vocab", "lock"} \intersect undone # {}

\* No counted change is forgotten before a rebuild has dealt with it: the
\* counter is at least the changes since the last rebuild's scroll.
CounterCoversChanges ==
  \/ config.counter + counted.handled >= counted.bumped
  \/ {"forgotten", "raced", "misread", "overtaken"} \intersect mishaps # {}
  \/ {"counter", "lock"} \intersect undone # {}

\* However often it reaches the threshold, the counter gets below it again: a
\* rebuild follows ("the counter still triggers a later retry"), but for the
\* ways named.
DriftIsRebuilt ==
  []<>(\/ config.counter < Threshold
       \/ undone # {}
       \/ {"gaveUp", "selfBlocked", "lostTask"} \intersect mishaps # {})
=============================================================================
