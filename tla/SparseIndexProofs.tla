------------------------- MODULE SparseIndexProofs -------------------------
(***************************************************************************)
(* Proofs about SparseIndex, for any number of chunks and rebuilds.  The   *)
(* config point is read and written whole; the invariants say what holds   *)
(* of it as long as no write has undone another one.                       *)
(***************************************************************************)
EXTENDS SparseIndex, FiniteSetTheorems, TLAPS

Workers == Chunks \union Rebuilds
Procs == Chunks \union Rebuilds \union Writers
ProcStates == [pc : StorePcs \union RebuildPcs \union WriterPcs, terms : Vocabularies, seen : Configs,
               had : Nat, mark : Nat]

EncodingPcs == {"encoded", "saveVocab", "store"}

\* What a thread or a task can be doing; who has encoded a text has its term.
Sound(p, o) ==
  /\ p \in Chunks => /\ o.pc \in StorePcs
                     /\ o.pc \in EncodingPcs => p \in Range(o.terms)
  /\ p \in Rebuilds => o.pc \in RebuildPcs
  /\ p \in Writers => o.pc \in WriterPcs

\* The state, function by function.
Typed ==
  /\ config \in Configs
  /\ vector \in [Chunks -> 0..Cardinality(Chunks)]
  /\ proc \in [Procs -> ProcStates]
  /\ \A p \in Procs : Sound(p, proc[p])
  /\ vocabLock \in Chunks \union {NoChunk}
  /\ trigger \in {"none", "create"}
  /\ counted \in [{"bumped", "handled"} -> Nat]
  /\ uses \in Nat
  /\ undone \subseteq Fields /\ mishaps \subseteq Mishaps

\* Who is in _sparse_vocab_lock.
VocabLockHeld == \A c \in Chunks : vocabLock = c <=> proc[c].pc \in {"encoded", "saveVocab"}

----------------------------------------------------------------------------
\* Lemmas about vocabularies, and about the config point.

\* The number of chunks is a number.
LEMMA ChunksFinite == IsFiniteSet(Chunks) /\ Cardinality(Chunks) \in Nat
  BY ChunksAssumption, FS_Subset, FS_CardinalityType

\* A vocabulary gives different ids to different terms.
LEMMA VocabularyShape ==
  ASSUME NEW v \in Vocabularies
  PROVE  /\ v \in Seq(Chunks)
         /\ Len(v) \in Nat /\ Len(v) <= Cardinality(Chunks)
         /\ DOMAIN v = 1..Len(v)
         /\ \A i, j \in 1..Len(v) : v[i] = v[j] => i = j
         /\ Range(v) \subseteq Chunks
         /\ \A c \in Range(v) : IdIn(v, c) \in 1..Len(v) /\ v[IdIn(v, c)] = c
  <1>1. PICK m \in 0..Cardinality(Chunks) : v \in [1..m -> Chunks]
    BY DEF Vocabularies, SeqOf
  <1>2. m \in Nat /\ v \in Seq(Chunks) /\ Len(v) = m /\ DOMAIN v = 1..m
    BY <1>1, ChunksFinite
  <1>3. \A i, j \in 1..m : v[i] = v[j] => i = j
    BY <1>2 DEF Vocabularies, IsInjective
  <1>4. \A c \in Range(v) : IdIn(v, c) \in 1..m /\ v[IdIn(v, c)] = c
    BY <1>2 DEF Range, IdIn
  <1> QED
    BY <1>1, <1>2, <1>3, <1>4 DEF Range

\* The id is the place of the term.
LEMMA IdOfTerm ==
  ASSUME NEW v \in Vocabularies, NEW i \in DOMAIN v
  PROVE  v[i] \in Range(v) /\ IdIn(v, v[i]) = i
  BY VocabularyShape DEF Range

\* A sequence without repetition is a vocabulary.
LEMMA VocabularyMade ==
  ASSUME NEW m \in Nat, NEW v \in [1..m -> Chunks], \A i, j \in 1..m : v[i] = v[j] => i = j
  PROVE  v \in Vocabularies
  <1>1. v \in Injection(1..m, Chunks)
    BY DEF Injection, IsInjective
  <1>2. IsFiniteSet(1..m) /\ Cardinality(1..m) = m
    BY FS_Interval
  <1>3. m <= Cardinality(Chunks)
    BY <1>1, <1>2, FS_Injection, ChunksFinite
  <1> QED
    BY <1>3, ChunksFinite DEF Vocabularies, SeqOf, IsInjective

\* An encoded text finds its term, or adds it at the end.
LEMMA TermAdded ==
  ASSUME NEW v \in Vocabularies, NEW c \in Chunks
  PROVE  /\ WithTerm(v, c) \in Vocabularies
         /\ c \in Range(WithTerm(v, c))
         /\ Range(v) \subseteq Range(WithTerm(v, c))
         /\ \A d \in Range(v) : IdIn(WithTerm(v, c), d) = IdIn(v, d)
  <1>1. CASE c \in Range(v)
    BY <1>1 DEF WithTerm
  <1>2. CASE c \notin Range(v)
    <2> DEFINE w == Append(v, c)
    <2>1. WithTerm(v, c) = w
      BY <1>2 DEF WithTerm
    <2>2. /\ w \in [1..(Len(v) + 1) -> Chunks]
          /\ w[Len(v) + 1] = c /\ \A i \in 1..Len(v) : w[i] = v[i]
      <3>1. v \in Seq(Chunks)
        BY VocabularyShape
      <3>2. w \in Seq(Chunks) /\ Len(w) = Len(v) + 1
        BY <3>1
      <3>3. w[Len(v) + 1] = c /\ \A i \in 1..Len(v) : w[i] = v[i]
        BY <3>1
      <3> HIDE DEF w
      <3> QED
        BY <3>2, <3>3
    <2>3. Len(v) + 1 \in Nat
      BY VocabularyShape
    <2> HIDE DEF w
    <2>4. \A i \in 1..Len(v) : v[i] # c
      BY <1>2, VocabularyShape DEF Range
    <2>5. \A i, j \in 1..(Len(v) + 1) : w[i] = w[j] => i = j
      BY <2>2, <2>4, VocabularyShape
    <2>6. w \in Vocabularies
      BY <2>2, <2>3, <2>5, VocabularyMade
    <2>7. \A i \in 1..Len(v) : IdIn(w, v[i]) = i /\ v[i] \in Range(w)
      BY <2>2, <2>6, IdOfTerm, VocabularyShape
    <2> QED
      BY <2>1, <2>2, <2>6, <2>7, IdOfTerm, VocabularyShape
  <1> QED
    BY <1>1, <1>2

\* The config of a collection that has nothing yet.
LEMMA EmptyTyped ==
  /\ Fields = {"lock", "vocab", "counter"}
  /\ <<>> \in Vocabularies /\ EmptyConfig \in Configs
  /\ EmptyConfig.lock = "free" /\ EmptyConfig.counter = 0 /\ EmptyConfig.vocab = <<>>
  <1>1. <<>> \in Vocabularies
    BY ChunksFinite DEF Vocabularies, SeqOf, IsInjective
  <1> QED
    BY <1>1 DEF Fields, EmptyConfig, Configs

\* A thread at the start of what it does.
LEMMA AtTyped ==
  ASSUME NEW pc \in StorePcs \union RebuildPcs \union WriterPcs
  PROVE  /\ At(pc) \in ProcStates
         /\ At(pc).pc = pc /\ At(pc).terms = <<>> /\ At(pc).seen = EmptyConfig
  BY EmptyTyped DEF At, ProcStates

\* An update of the vocabulary, of the lock and of the counter: what else it
\* changes is undone by it.
LEMMA WritesVocab ==
  ASSUME Typed, NEW p \in Procs, NEW v \in Vocabularies, WriteConfig(p, [vocab |-> v])
  PROVE  /\ config' \in Configs /\ config'.vocab = v
         /\ undone \subseteq undone' /\ undone' \subseteq Fields
         /\ "lock" \notin undone' => config'.lock = config.lock
         /\ "counter" \notin undone' => config'.counter = config.counter
  <1>1. proc[p].seen \in Configs
    BY DEF Typed, ProcStates
  <1> QED
    BY <1>1, EmptyTyped DEF WriteConfig, Typed, Configs

\* The same of the lock.
LEMMA WritesLock ==
  ASSUME Typed, NEW p \in Procs, NEW l \in {"free", "held"}, WriteConfig(p, [lock |-> l])
  PROVE  /\ config' \in Configs /\ config'.lock = l
         /\ undone \subseteq undone' /\ undone' \subseteq Fields
         /\ "vocab" \notin undone' => config'.vocab = config.vocab
         /\ "counter" \notin undone' => config'.counter = config.counter
  <1>1. proc[p].seen \in Configs
    BY DEF Typed, ProcStates
  <1> QED
    BY <1>1, EmptyTyped DEF WriteConfig, Typed, Configs

\* The same of the counter, which is computed from the one read.
LEMMA WritesCounter ==
  ASSUME Typed, NEW p \in Procs, NEW n \in Nat, WriteConfig(p, [counter |-> n])
  PROVE  /\ config' \in Configs /\ config'.counter = n
         /\ undone \subseteq undone' /\ undone' \subseteq Fields
         /\ "lock" \notin undone' => config'.lock = config.lock
         /\ "vocab" \notin undone' => config'.vocab = config.vocab
         /\ "counter" \notin undone' => proc[p].seen.counter = config.counter
  <1>1. proc[p].seen \in Configs
    BY DEF Typed, ProcStates
  <1> QED
    BY <1>1, EmptyTyped DEF WriteConfig, Typed, Configs

\* An update of another field writes these back as it read them.
LEMMA WritesOther ==
  ASSUME Typed, NEW p \in Procs, WriteConfig(p, <<>>)
  PROVE  /\ config' \in Configs
         /\ undone \subseteq undone' /\ undone' \subseteq Fields
         /\ "lock" \notin undone' => config'.lock = config.lock
         /\ "vocab" \notin undone' => config'.vocab = config.vocab
         /\ "counter" \notin undone' => config'.counter = config.counter
  <1>1. proc[p].seen \in Configs
    BY DEF Typed, ProcStates
  <1>2. DOMAIN <<>> = {}
    OBVIOUS
  <1>3. /\ config' = [f \in Fields |-> proc[p].seen[f]]
        /\ undone' = undone \union {f \in Fields : proc[p].seen[f] # config[f]}
    BY <1>2 DEF WriteConfig
  <1> QED
    BY <1>1, <1>3, EmptyTyped DEF Typed, Configs

----------------------------------------------------------------------------
\* Lemmas about the steps of threads and tasks.

\* One of them gets on.
LEMMA Placed ==
  ASSUME Typed, NEW p \in Procs, NEW o \in ProcStates, Sound(p, o), proc' = [proc EXCEPT ![p] = o]
  PROVE  /\ proc' \in [Procs -> ProcStates] /\ \A q \in Procs : Sound(q, proc'[q])
         /\ proc'[p] = o /\ \A q \in Procs \ {p} : proc'[q] = proc[q]
  BY DEF Typed

\* It keeps what it has.
LEMMA Moved ==
  ASSUME Typed, NEW p \in Procs, NEW pc \in StorePcs \union RebuildPcs, Move(p, pc),
         Sound(p, [proc[p] EXCEPT !.pc = pc])
  PROVE  /\ proc' \in [Procs -> ProcStates] /\ \A q \in Procs : Sound(q, proc'[q])
         /\ proc'[p].pc = pc /\ proc'[p].terms = proc[p].terms /\ proc'[p].seen = proc[p].seen
         /\ proc'[p].had = proc[p].had /\ proc'[p].mark = proc[p].mark
         /\ \A q \in Procs \ {p} : proc'[q] = proc[q]
  <1> DEFINE o == [proc[p] EXCEPT !.pc = pc]
  <1>1. proc' = [proc EXCEPT ![p] = o]
    BY DEF Move, Typed
  <1>2. proc[p] \in ProcStates
    BY DEF Typed
  <1>3. /\ o \in ProcStates
        /\ o.pc = pc /\ o.terms = proc[p].terms /\ o.seen = proc[p].seen
        /\ o.had = proc[p].had /\ o.mark = proc[p].mark
    BY <1>2 DEF ProcStates
  <1> HIDE DEF o
  <1> QED
    BY <1>1, <1>3, Placed DEF o

\* It reads the config, rightly or not.
LEMMA Reads ==
  ASSUME Typed, NEW p \in Procs, NEW pc \in StorePcs \union RebuildPcs \union WriterPcs, NEW seen \in Configs,
         proc' = [proc EXCEPT ![p].pc = pc, ![p].seen = seen],
         p \in Chunks => /\ pc \in StorePcs
                         /\ pc \in EncodingPcs => proc[p].pc \in EncodingPcs,
         p \in Rebuilds => pc \in RebuildPcs, p \in Writers => pc \in WriterPcs
  PROVE  /\ proc' \in [Procs -> ProcStates] /\ \A q \in Procs : Sound(q, proc'[q])
         /\ proc'[p].pc = pc /\ proc'[p].terms = proc[p].terms /\ proc'[p].seen = seen
         /\ proc'[p].had = proc[p].had /\ proc'[p].mark = proc[p].mark
         /\ \A q \in Procs \ {p} : proc'[q] = proc[q]
  <1> DEFINE o == [proc[p] EXCEPT !.pc = pc, !.seen = seen]
  <1>1. proc[p] \in ProcStates
    BY DEF Typed
  <1>2. proc' = [proc EXCEPT ![p] = o]
    BY DEF Typed, ProcStates
  <1>3. /\ o \in ProcStates
        /\ o.pc = pc /\ o.terms = proc[p].terms /\ o.seen = seen
        /\ o.had = proc[p].had /\ o.mark = proc[p].mark
    BY <1>1 DEF ProcStates
  <1> HIDE DEF o
  <1>4. Sound(p, o)
    BY <1>3 DEF Sound, Typed
  <1> QED
    BY <1>2, <1>3, <1>4, Placed

\* The read of an update.
LEMMA ConfigRead ==
  ASSUME Typed, NEW p \in Procs, NEW from, NEW to \in StorePcs \union RebuildPcs,
         ReadConfig(p, from, to),
         p \in Chunks => /\ to \in StorePcs
                         /\ to \in EncodingPcs => from \in EncodingPcs,
         p \in Rebuilds => to \in RebuildPcs, p \notin Writers
  PROVE  /\ Typed'
         /\ proc[p].pc = from
         /\ proc'[p].pc = to /\ proc'[p].terms = proc[p].terms /\ proc'[p].seen = config
         /\ proc'[p].had = proc[p].had /\ proc'[p].mark = proc[p].mark
         /\ \A q \in Procs \ {p} : proc'[q] = proc[q]
         /\ UNCHANGED <<config, vector, vocabLock, trigger, counted, uses, undone, mishaps>>
  <1>1. /\ proc[p].pc = from /\ proc' = [proc EXCEPT ![p].pc = to, ![p].seen = config]
        /\ UNCHANGED <<config, vector, vocabLock, trigger, counted, uses, undone, mishaps>>
    BY DEF ReadConfig
  <1>2. config \in Configs
    BY DEF Typed
  <1>3. /\ proc' \in [Procs -> ProcStates] /\ \A q \in Procs : Sound(q, proc'[q])
        /\ proc'[p].pc = to /\ proc'[p].terms = proc[p].terms /\ proc'[p].seen = config
        /\ proc'[p].had = proc[p].had /\ proc'[p].mark = proc[p].mark
        /\ \A q \in Procs \ {p} : proc'[q] = proc[q]
    BY <1>1, <1>2, Reads
  <1> QED
    BY <1>1, <1>3 DEF Typed

\* It encodes a text with some vocabulary.
LEMMA Encodes ==
  ASSUME Typed, NEW c \in Chunks, NEW terms \in Vocabularies, c \in Range(terms),
         proc' = [proc EXCEPT ![c].pc = "encoded", ![c].terms = terms]
  PROVE  /\ proc' \in [Procs -> ProcStates] /\ \A q \in Procs : Sound(q, proc'[q])
         /\ proc'[c].pc = "encoded" /\ proc'[c].terms = terms
         /\ \A q \in Procs \ {c} : proc'[q] = proc[q]
  <1> DEFINE o == [proc[c] EXCEPT !.pc = "encoded", !.terms = terms]
  <1>1. proc[c] \in ProcStates /\ c \in Procs
    BY DEF Typed, Procs
  <1>2. proc' = [proc EXCEPT ![c] = o]
    BY <1>1 DEF Typed, ProcStates
  <1>3. o \in ProcStates /\ o.pc = "encoded" /\ o.terms = terms
    BY <1>1 DEF ProcStates, StorePcs
  <1> HIDE DEF o
  <1>4. Sound(c, o)
    BY <1>3, ChunksAssumption DEF Sound, StorePcs
  <1> QED
    BY <1>1, <1>2, <1>3, <1>4, Placed

\* It starts at a new place, with the vocabulary it has or with none.
LEMMA Starts ==
  ASSUME Typed, NEW p \in Procs, NEW pc \in StorePcs \union RebuildPcs, NEW terms \in Vocabularies,
         proc' = [proc EXCEPT ![p] = [At(pc) EXCEPT !.terms = terms]],
         p \in Chunks => pc \in StorePcs /\ (pc \in EncodingPcs => p \in Range(terms)),
         p \in Rebuilds => pc \in RebuildPcs, p \in Writers => pc \in WriterPcs
  PROVE  /\ proc' \in [Procs -> ProcStates] /\ \A q \in Procs : Sound(q, proc'[q])
         /\ proc'[p].pc = pc /\ proc'[p].terms = terms
         /\ \A q \in Procs \ {p} : proc'[q] = proc[q]
  <1> DEFINE o == [At(pc) EXCEPT !.terms = terms]
  <1>1. o \in ProcStates /\ o.pc = pc /\ o.terms = terms
    BY AtTyped DEF ProcStates
  <1> HIDE DEF o
  <1>2. Sound(p, o)
    BY <1>1 DEF Sound
  <1> QED
    BY <1>1, <1>2, Placed DEF o

\* The same, with nothing.
LEMMA StartsBare ==
  ASSUME Typed, NEW p \in Procs, NEW pc \in StorePcs \union RebuildPcs,
         proc' = [proc EXCEPT ![p] = At(pc)],
         p \in Chunks => pc \in StorePcs \ EncodingPcs, p \in Rebuilds => pc \in RebuildPcs,
         p \notin Writers
  PROVE  /\ proc' \in [Procs -> ProcStates] /\ \A q \in Procs : Sound(q, proc'[q])
         /\ proc'[p] = At(pc) /\ proc'[p].pc = pc
         /\ \A q \in Procs \ {p} : proc'[q] = proc[q]
  <1>1. Sound(p, At(pc))
    BY AtTyped DEF Sound
  <1> QED
    BY <1>1, AtTyped, Placed

----------------------------------------------------------------------------
\* What the steps of a thread that stores or deletes a chunk do.

\* Everybody else stays; what has gone wrong is not forgotten.
Others(p) == \A q \in Procs \ {p} : proc'[q] = proc[q]
Grows == mishaps \subseteq mishaps' /\ undone \subseteq undone'


\* The text is encoded with the stored vocabulary, or with none.
LEMMA EncodeDoes ==
  ASSUME Typed, NEW c \in Chunks, Encode(c) \/ EncodeBlank(c)
  PROVE  /\ Typed' /\ Grows /\ Others(c)
         /\ proc[c].pc \in {"new", "again"} /\ proc'[c].pc = "encoded"
         /\ vocabLock = NoChunk /\ vocabLock' = c
         /\ UNCHANGED <<config, vector, trigger, counted, undone>>
         /\ \/ "blank" \in mishaps'
            \/ /\ proc'[c].terms = WithTerm(config.vocab, c)
               /\ "crossed" \notin mishaps' => \A r \in Rebuilds : ~ Rebuilding(r)
  <1>1. PICK t \in Vocabularies :
          /\ c \in Range(t)
          /\ proc' = [proc EXCEPT ![c].pc = "encoded", ![c].terms = t]
          /\ \/ "blank" \in mishaps'
             \/ /\ t = WithTerm(config.vocab, c)
                /\ "crossed" \notin mishaps' => \A r \in Rebuilds : ~ Rebuilding(r)
    <2>1. CASE Encode(c)
      <3>1. "crossed" \notin mishaps' => \A r \in Rebuilds : ~ Rebuilding(r)
        BY <2>1 DEF Encode, Note
      <3>2. WithTerm(config.vocab, c) \in Vocabularies /\ c \in Range(WithTerm(config.vocab, c))
        BY TermAdded DEF Typed, Configs
      <3> QED
        BY <2>1, <3>1, <3>2 DEF Encode
    <2>2. CASE EncodeBlank(c)
      <3>1. <<c>> = WithTerm(<<>>, c)
        BY DEF WithTerm, Range
      <3>2. <<c>> \in Vocabularies /\ c \in Range(<<c>>)
        BY <3>1, TermAdded, EmptyTyped
      <3> QED
        BY <2>2, <3>2 DEF EncodeBlank, Note
    <2> QED
      BY <2>1, <2>2
  <1>2. /\ proc' \in [Procs -> ProcStates] /\ \A q \in Procs : Sound(q, proc'[q])
        /\ proc'[c].pc = "encoded" /\ proc'[c].terms = t /\ \A q \in Procs \ {c} : proc'[q] = proc[q]
    BY <1>1, Encodes
  <1>3. uses' \in Nat /\ mishaps' \subseteq Mishaps /\ mishaps \subseteq mishaps'
    BY DEF Encode, EncodeBlank, Failing, Note, Typed, Mishaps
  <1>4. Typed'
    BY <1>2, <1>3 DEF Encode, EncodeBlank, Typed
  <1> QED
    BY <1>1, <1>2, <1>3, <1>4 DEF Encode, EncodeBlank, Others, Grows

\* The vocabulary that the thread encoded with is the collection's.
LEMMA SaveVocabDoes ==
  ASSUME Typed, VocabLockHeld, NEW c \in Chunks, SaveVocab(c)
  PROVE  /\ Typed' /\ Grows /\ Others(c)
         /\ proc[c].pc = "saveVocab" /\ proc'[c].pc = "store" /\ proc'[c].terms = proc[c].terms
         /\ config'.vocab = proc[c].terms
         /\ "lock" \notin undone' => config'.lock = config.lock
         /\ "counter" \notin undone' => config'.counter = config.counter
         /\ vocabLock = c /\ vocabLock' = NoChunk
         /\ UNCHANGED <<vector, trigger, counted, uses, mishaps>>
  <1>1. c \in Procs /\ c \notin Rebuilds /\ c \notin Writers /\ proc[c].pc = "saveVocab"
    BY ChunksAssumption DEF Procs, SaveVocab
  <1>2. proc[c].terms \in Vocabularies /\ c \in Range(proc[c].terms)
    BY <1>1 DEF Typed, Sound, EncodingPcs, ProcStates
  <1>3. /\ config' \in Configs /\ config'.vocab = proc[c].terms
        /\ undone \subseteq undone' /\ undone' \subseteq Fields
        /\ "lock" \notin undone' => config'.lock = config.lock
        /\ "counter" \notin undone' => config'.counter = config.counter
    BY <1>1, <1>2, WritesVocab DEF SaveVocab
  <1>4. /\ proc' \in [Procs -> ProcStates] /\ \A q \in Procs : Sound(q, proc'[q])
        /\ proc'[c].pc = "store" /\ proc'[c].terms = proc[c].terms
        /\ \A q \in Procs \ {c} : proc'[q] = proc[q]
    <2>1. "store" \in StorePcs
      BY DEF StorePcs
    <2> QED
      BY <1>1, <1>2, <2>1, Starts DEF SaveVocab
  <1>5. vocabLock = c /\ vocabLock' = NoChunk /\ UNCHANGED <<vector, trigger, counted, uses, mishaps>>
    BY <1>1 DEF SaveVocab, VocabLockHeld
  <1>6. Typed'
    BY <1>3, <1>4, <1>5 DEF Typed
  <1> QED
    BY <1>1, <1>3, <1>4, <1>5, <1>6 DEF Others, Grows

\* The chunk has its vector.
LEMMA StoreChunkDoes ==
  ASSUME Typed, NEW c \in Chunks, StoreChunk(c)
  PROVE  /\ Typed' /\ Grows /\ Others(c)
         /\ proc[c].pc = "store" /\ proc'[c].pc = "bump"
         /\ vector' = [vector EXCEPT ![c] = IdIn(proc[c].terms, c)]
         /\ UNCHANGED <<config, vocabLock, trigger, counted, uses, undone, mishaps>>
  <1>1. /\ c \in Procs /\ c \notin Rebuilds /\ c \notin Writers /\ proc[c].pc = "store"
        /\ proc[c].terms \in Vocabularies /\ c \in Range(proc[c].terms)
    BY ChunksAssumption DEF Procs, StoreChunk, Typed, Sound, EncodingPcs, ProcStates
  <1>2. vector' \in [Chunks -> 0..Cardinality(Chunks)]
    <2>1. IdIn(proc[c].terms, c) \in 0..Cardinality(Chunks)
      BY <1>1, VocabularyShape, ChunksFinite
    <2> QED
      BY <2>1 DEF StoreChunk, Typed
  <1>3. /\ proc' \in [Procs -> ProcStates] /\ \A q \in Procs : Sound(q, proc'[q])
        /\ proc'[c].pc = "bump" /\ \A q \in Procs \ {c} : proc'[q] = proc[q]
    <2>1. "bump" \in StorePcs \ EncodingPcs
      BY DEF StorePcs, EncodingPcs
    <2> QED
      BY <1>1, <2>1, StartsBare DEF StoreChunk
  <1> QED
    BY <1>1, <1>2, <1>3 DEF StoreChunk, Typed, Others, Grows

\* The chunk is gone.
LEMMA DeleteChunkDoes ==
  ASSUME Typed, NEW c \in Chunks, DeleteChunk(c)
  PROVE  /\ Typed' /\ Grows /\ Others(c)
         /\ proc[c].pc = "stored" /\ proc'[c].pc = "bump"
         /\ vector' = [vector EXCEPT ![c] = 0]
         /\ UNCHANGED <<config, vocabLock, trigger, counted, undone, mishaps>>
  <1>1. c \in Procs /\ c \notin Rebuilds /\ c \notin Writers /\ proc[c] \in ProcStates
    BY ChunksAssumption DEF Procs, Typed
  <1>2. /\ proc' \in [Procs -> ProcStates] /\ \A q \in Procs : Sound(q, proc'[q])
        /\ proc'[c].pc = "bump" /\ \A q \in Procs \ {c} : proc'[q] = proc[q]
    <2>1. "bump" \in StorePcs /\ Sound(c, [proc[c] EXCEPT !.pc = "bump"])
      BY <1>1 DEF Sound, ProcStates, StorePcs, EncodingPcs
    <2> QED
      BY <1>1, <2>1, Moved DEF DeleteChunk
  <1>3. vector' \in [Chunks -> 0..Cardinality(Chunks)] /\ uses' \in Nat
    BY ChunksFinite DEF DeleteChunk, Typed
  <1> QED
    BY <1>2, <1>3 DEF DeleteChunk, Typed, Others, Grows

\* The change is counted.
LEMMA BumpDoes ==
  ASSUME Typed, NEW c \in Chunks, BumpCounter(c)
  PROVE  /\ Typed' /\ Grows /\ Others(c)
         /\ proc[c].pc = "bumpWrite" /\ proc'[c].pc \notin EncodingPcs
         /\ "lock" \notin undone' => config'.lock = config.lock
         /\ "vocab" \notin undone' => config'.vocab = config.vocab
         /\ "counter" \notin undone' => config'.counter = config.counter + 1
         /\ counted'["bumped"] = counted["bumped"] + 1 /\ counted'["handled"] = counted["handled"]
         /\ UNCHANGED <<vector, vocabLock, trigger, uses, mishaps>>
  <1>1. c \in Procs /\ c \notin Rebuilds /\ c \notin Writers /\ proc[c].pc = "bumpWrite" /\ proc[c].seen.counter + 1 \in Nat
    BY ChunksAssumption DEF Procs, BumpCounter, Typed, ProcStates, Configs
  <1>2. /\ config' \in Configs /\ config'.counter = proc[c].seen.counter + 1
        /\ undone \subseteq undone' /\ undone' \subseteq Fields
        /\ "lock" \notin undone' => config'.lock = config.lock
        /\ "vocab" \notin undone' => config'.vocab = config.vocab
        /\ "counter" \notin undone' => proc[c].seen.counter = config.counter
    BY <1>1, WritesCounter DEF BumpCounter
  <1>3. PICK pc \in StorePcs \ EncodingPcs : proc' = [proc EXCEPT ![c] = At(pc)]
    BY DEF BumpCounter, Settled, StorePcs, EncodingPcs
  <1>4. /\ proc' \in [Procs -> ProcStates] /\ \A q \in Procs : Sound(q, proc'[q])
        /\ proc'[c].pc = pc /\ \A q \in Procs \ {c} : proc'[q] = proc[q]
    BY <1>1, <1>3, StartsBare
  <1>5. /\ counted' \in [{"bumped", "handled"} -> Nat]
        /\ counted'["bumped"] = counted["bumped"] + 1 /\ counted'["handled"] = counted["handled"]
    BY DEF BumpCounter, Typed
  <1>6. UNCHANGED <<vector, vocabLock, trigger, uses, mishaps>>
    BY DEF BumpCounter
  <1>7. Typed'
    BY <1>2, <1>4, <1>5, <1>6 DEF Typed
  <1> QED
    BY <1>1, <1>2, <1>3, <1>4, <1>5, <1>6, <1>7 DEF Others, Grows

\* A rebuild is due, or not.
LEMMA ScheduleDoes ==
  ASSUME Typed, NEW c \in Chunks, Schedule(c)
  PROVE  /\ Typed' /\ Grows /\ Others(c)
         /\ proc[c].pc = "check" /\ proc'[c].pc \notin EncodingPcs
         /\ UNCHANGED <<config, vector, vocabLock, trigger, counted, uses, undone, mishaps>>
  <1>1. c \in Procs /\ c \notin Rebuilds /\ c \notin Writers
    BY ChunksAssumption DEF Procs
  <1>2. PICK pc \in StorePcs \ EncodingPcs : proc' = [proc EXCEPT ![c] = At(pc)]
    BY DEF Schedule, Settled, StorePcs, EncodingPcs
  <1>3. /\ proc' \in [Procs -> ProcStates] /\ \A q \in Procs : Sound(q, proc'[q])
        /\ proc'[c].pc = pc /\ \A q \in Procs \ {c} : proc'[q] = proc[q]
    BY <1>1, <1>2, StartsBare
  <1> QED
    BY <1>2, <1>3 DEF Schedule, Typed, Others, Grows

\* A rebuild is created.
LEMMA CreateTaskDoes ==
  ASSUME Typed, NEW c \in Chunks, NEW r \in Rebuilds, CreateTask(c, r)
  PROVE  /\ Typed' /\ Grows
         /\ \A q \in Procs \ {c, r} : proc'[q] = proc[q]
         /\ proc[c].pc = "create" /\ proc'[c].pc \notin EncodingPcs
         /\ proc[r].pc = "unused" /\ proc'[r].pc = "acquire"
         /\ UNCHANGED <<config, vector, vocabLock, trigger, counted, uses, undone, mishaps>>
  <1>1. PICK pc \in {"stored", "deleted"} : proc' = [proc EXCEPT ![c] = At(pc), ![r] = At("acquire")]
    BY DEF CreateTask, Settled
  <1>2. c \in Procs /\ r \in Procs /\ c \notin Rebuilds /\ r \notin Chunks /\ c # r
    BY ChunksAssumption DEF Procs
  <1>3. At(pc) \in ProcStates /\ Sound(c, At(pc)) /\ At(pc).pc = pc
    BY <1>2, AtTyped, ChunksAssumption DEF Sound, StorePcs, EncodingPcs
  <1>4. At("acquire") \in ProcStates /\ Sound(r, At("acquire")) /\ At("acquire").pc = "acquire"
    BY <1>2, AtTyped, ChunksAssumption DEF Sound, RebuildPcs
  <1>5. /\ proc' \in [Procs -> ProcStates] /\ proc'[c] = At(pc) /\ proc'[r] = At("acquire")
        /\ \A q \in Procs \ {c, r} : proc'[q] = proc[q]
    BY <1>1, <1>2, <1>3, <1>4 DEF Typed
  <1>6. \A q \in Procs : Sound(q, proc'[q])
    BY <1>3, <1>4, <1>5 DEF Typed
  <1>7. /\ proc[c].pc = "create" /\ proc[r].pc = "unused"
        /\ UNCHANGED <<config, vector, vocabLock, trigger, counted, uses, undone, mishaps>>
    BY DEF CreateTask
  <1>8. Typed'
    BY <1>5, <1>6, <1>7 DEF Typed
  <1> QED
    BY <1>3, <1>4, <1>5, <1>7, <1>8 DEF Grows, EncodingPcs

\* What these steps leave alone: a rebuild that has begun, its lock, and how
\* far the counter is from the changes counted.
LEMMA ThreadSteps ==
  ASSUME Typed, VocabLockHeld, NEW c \in Chunks, Store(c) \/ DeleteChunk(c) \/ EncodeBlank(c)
  PROVE  /\ Typed' /\ VocabLockHeld' /\ Grows
         /\ \A r \in Rebuilds : \/ proc'[r] = proc[r]
                                \/ proc[r].pc = "unused" /\ proc'[r].pc = "acquire"
         /\ "lock" \notin undone' => config'.lock = config.lock
         /\ "counter" \notin undone' =>
              config'.counter + counted["bumped"] = config.counter + counted'["bumped"]
         /\ counted'["handled"] = counted["handled"]
  <1>0. c \in Procs /\ c \notin Rebuilds /\ c \notin Writers /\ Chunks \subseteq Procs /\ Rebuilds \subseteq Procs \ {c}
    BY ChunksAssumption DEF Procs
  <1>1. CASE Encode(c) \/ EncodeBlank(c)
    BY <1>0, <1>1, EncodeDoes, ChunksAssumption DEF Others, VocabLockHeld
  <1>2. ASSUME NEW from, NEW to, ReadConfig(c, from, to),
               <<from, to>> \in {<<"encoded", "saveVocab">>, <<"bump", "bumpWrite">>}
        PROVE  /\ Typed' /\ VocabLockHeld' /\ Others(c) /\ UNCHANGED <<config, counted, undone, mishaps>>
    <2>1. to \in StorePcs /\ (to \in EncodingPcs => from \in EncodingPcs)
      BY <1>2 DEF StorePcs, EncodingPcs
    <2>2. /\ Typed' /\ proc[c].pc = from /\ proc'[c].pc = to
          /\ \A q \in Procs \ {c} : proc'[q] = proc[q]
          /\ UNCHANGED <<config, vector, vocabLock, trigger, counted, uses, undone, mishaps>>
      BY <1>0, <1>2, <2>1, ConfigRead
    <2> QED
      BY <1>0, <1>2, <2>2 DEF VocabLockHeld, Others
  <1>3. CASE ReadConfig(c, "encoded", "saveVocab") \/ ReadConfig(c, "bump", "bumpWrite")
    <2>1. /\ Typed' /\ VocabLockHeld' /\ Others(c) /\ UNCHANGED <<config, counted, undone, mishaps>>
      BY <1>2, <1>3
    <2> QED
      BY <1>0, <2>1 DEF Others, Grows
  <1>4. CASE SaveVocab(c)
    BY <1>0, <1>4, SaveVocabDoes, ChunksAssumption DEF Others, VocabLockHeld
  <1>5. CASE StoreChunk(c)
    BY <1>0, <1>5, StoreChunkDoes DEF Others, VocabLockHeld
  <1>6. CASE DeleteChunk(c)
    BY <1>0, <1>6, DeleteChunkDoes DEF Others, VocabLockHeld
  <1>7. CASE BumpCounter(c)
    <2>1. config.counter \in Nat /\ counted["bumped"] \in Nat
      BY DEF Typed, Configs
    <2> QED
      BY <1>0, <1>7, <2>1, BumpDoes DEF Others, VocabLockHeld, EncodingPcs
  <1>8. CASE Schedule(c)
    BY <1>0, <1>8, ScheduleDoes DEF Others, VocabLockHeld, EncodingPcs
  <1>9. ASSUME NEW r \in Rebuilds, CreateTask(c, r)
        PROVE  /\ Typed' /\ VocabLockHeld' /\ Grows
               /\ \A q \in Rebuilds : \/ proc'[q] = proc[q]
                                      \/ proc[q].pc = "unused" /\ proc'[q].pc = "acquire"
               /\ UNCHANGED <<config, counted>>
    <2>1. /\ Typed' /\ Grows
          /\ \A q \in Procs \ {c, r} : proc'[q] = proc[q]
          /\ proc[c].pc = "create" /\ proc'[c].pc \notin EncodingPcs
          /\ proc[r].pc = "unused" /\ proc'[r].pc = "acquire"
          /\ UNCHANGED <<config, vector, vocabLock, trigger, counted, uses, undone, mishaps>>
      BY <1>9, CreateTaskDoes
    <2> QED
      BY <1>0, <2>1, ChunksAssumption DEF VocabLockHeld, EncodingPcs
  <1> QED
    BY <1>1, <1>3, <1>4, <1>5, <1>6, <1>7, <1>8, <1>9 DEF Store

----------------------------------------------------------------------------
\* What the steps of a rebuild do.

\* What a rebuild's end notes is a number.
LEMMA HandledTyped ==
  ASSUME Typed, NEW r \in Rebuilds, NEW n \in Nat, Handled(r, n)
  PROVE  /\ counted' \in [{"bumped", "handled"} -> Nat]
         /\ counted'["bumped"] = counted["bumped"]
         /\ counted'["handled"] >= proc[r].mark /\ counted'["handled"] >= counted["handled"]
         /\ mishaps \subseteq mishaps' /\ mishaps' \subseteq Mishaps
         /\ "forgotten" \notin mishaps' => proc[r].had >= n \/ counted.bumped <= proc[r].mark
  <1> DEFINE most == Max({counted["handled"], proc[r].mark})
  <1>1. counted["handled"] \in Nat /\ proc[r].mark \in Nat /\ proc[r].had \in Nat
    BY DEF Typed, ProcStates, Procs
  <1>2. most \in Nat /\ most >= counted["handled"] /\ most >= proc[r].mark
    BY <1>1 DEF Max
  <1>3. counted' = [counted EXCEPT !["handled"] = most]
    BY DEF Handled
  <1> HIDE DEF most
  <1>4. mishaps \subseteq mishaps' /\ mishaps' \subseteq Mishaps
    BY DEF Handled, Note, Mishaps, Typed
  <1>5. "forgotten" \notin mishaps' => proc[r].had >= n \/ counted.bumped <= proc[r].mark
    BY <1>1 DEF Handled, Note, Typed
  <1> QED
    BY <1>2, <1>3, <1>4, <1>5 DEF Typed

\* A rebuild goes on to a place that asks nothing of its vocabulary.
LEMMA RebuildGoesTo ==
  ASSUME Typed, NEW r \in Rebuilds, NEW pc \in RebuildPcs, proc' = [proc EXCEPT ![r] = At(pc)]
  PROVE  /\ proc' \in [Procs -> ProcStates] /\ \A q \in Procs : Sound(q, proc'[q])
         /\ proc'[r].pc = pc /\ Others(r)
  <1>1. r \in Procs /\ r \notin Chunks /\ r \notin Writers
    BY ChunksAssumption DEF Procs
  <1> QED
    BY <1>1, StartsBare DEF Others

\* The same, keeping what it has.
LEMMA RebuildMoves ==
  ASSUME Typed, NEW r \in Rebuilds, NEW pc \in RebuildPcs, Move(r, pc)
  PROVE  /\ proc' \in [Procs -> ProcStates] /\ \A q \in Procs : Sound(q, proc'[q])
         /\ proc'[r].pc = pc /\ proc'[r].terms = proc[r].terms
         /\ proc'[r].had = proc[r].had /\ proc'[r].mark = proc[r].mark /\ Others(r)
  <1>1. r \in Procs /\ r \notin Chunks /\ r \notin Writers /\ proc[r] \in ProcStates
    BY ChunksAssumption DEF Procs, Typed
  <1>2. Sound(r, [proc[r] EXCEPT !.pc = pc])
    BY <1>1 DEF Sound, ProcStates
  <1> QED
    BY <1>1, <1>2, Moved DEF Others

\* It is about to take the lock, which was free: or it is named how that was not so.
LEMMA AcquireDoes ==
  ASSUME Typed, NEW r \in Rebuilds, Acquire(r)
  PROVE  /\ Typed' /\ Grows /\ Others(r)
         /\ proc[r].pc = "acquire" /\ proc'[r].pc = "takeWrite"
         /\ \/ config.lock = "free"
            \/ "overtaken" \in mishaps'
            \/ \A q \in Rebuilds : ~ Holding(q)
         /\ UNCHANGED <<config, vector, vocabLock, trigger, counted, uses, undone>>
  <1>1. r \in Procs /\ r \notin Chunks /\ r \notin Writers /\ config \in Configs /\ "takeWrite" \in RebuildPcs
    BY ChunksAssumption DEF Procs, Typed, RebuildPcs
  <1>2. /\ proc' \in [Procs -> ProcStates] /\ \A q \in Procs : Sound(q, proc'[q])
        /\ proc'[r].pc = "takeWrite" /\ \A q \in Procs \ {r} : proc'[q] = proc[q]
    BY <1>1, Reads DEF Acquire
  <1>3. mishaps \subseteq mishaps' /\ mishaps' \subseteq Mishaps
    BY DEF Acquire, Note, Typed, Mishaps
  <1>4. config.lock = "free" \/ "overtaken" \in mishaps' \/ \A q \in Rebuilds : ~ Holding(q)
    BY DEF Acquire, Note
  <1> QED
    BY <1>2, <1>3, <1>4 DEF Acquire, Typed, Others, Grows

\* It could not have the lock.
LEMMA TimesOutDoes ==
  ASSUME Typed, NEW r \in Rebuilds, AcquireTimesOut(r)
  PROVE  /\ Typed' /\ Grows /\ Others(r)
         /\ proc[r].pc = "acquire" /\ proc'[r].pc = "failed"
         /\ UNCHANGED <<config, vector, vocabLock, trigger, counted, uses, undone, mishaps>>
  <1>1. "failed" \in RebuildPcs
    BY DEF RebuildPcs
  <1> QED
    BY <1>1, RebuildMoves DEF AcquireTimesOut, Typed, Grows

\* It has the lock; whoever else was about to take it is named.
LEMMA TakeLockDoes ==
  ASSUME Typed, NEW r \in Rebuilds, TakeLock(r)
  PROVE  /\ Typed' /\ Grows /\ Others(r)
         /\ proc[r].pc = "takeWrite" /\ proc'[r].pc = "scroll"
         /\ config'.lock = "held"
         /\ "vocab" \notin undone' => config'.vocab = config.vocab
         /\ "counter" \notin undone' => config'.counter = config.counter
         /\ "raced" \notin mishaps' => \A q \in Rebuilds \ {r} : proc[q].pc # "takeWrite"
         /\ UNCHANGED <<vector, vocabLock, trigger, counted, uses>>
  <1>1. /\ config' \in Configs /\ config'.lock = "held"
        /\ undone \subseteq undone' /\ undone' \subseteq Fields
        /\ "vocab" \notin undone' => config'.vocab = config.vocab
        /\ "counter" \notin undone' => config'.counter = config.counter
    BY WritesLock DEF TakeLock, Procs
  <1>2. /\ proc' \in [Procs -> ProcStates] /\ \A q \in Procs : Sound(q, proc'[q])
        /\ proc'[r].pc = "scroll" /\ Others(r)
    <2>1. "scroll" \in RebuildPcs
      BY DEF RebuildPcs, HoldingPcs
    <2> QED
      BY <2>1, RebuildGoesTo DEF TakeLock
  <1>3. /\ mishaps \subseteq mishaps' /\ mishaps' \subseteq Mishaps
        /\ "raced" \notin mishaps' => \A q \in Rebuilds \ {r} : proc[q].pc # "takeWrite"
    BY DEF TakeLock, Note, Typed, Mishaps
  <1> QED
    BY <1>1, <1>2, <1>3 DEF TakeLock, Typed, Grows

\* Its vocabulary has the terms of all chunks there are.
LEMMA ScrollDoes ==
  ASSUME Typed, NEW r \in Rebuilds, Scroll(r)
  PROVE  /\ Typed' /\ Grows /\ Others(r)
         /\ proc[r].pc = "scroll" /\ proc'[r].pc \in {"vectors", "reset"}
         /\ Points \subseteq Range(proc'[r].terms)
         /\ proc'[r].had = config.counter /\ proc'[r].mark = counted["bumped"]
         /\ "crossed" \notin mishaps' => \A c \in Chunks : ~ Encoding(c)
         /\ UNCHANGED <<config, vector, vocabLock, trigger, counted, uses, undone>>
  <1>1. PICK terms \in SetToSeqs(Points) :
          proc' = [proc EXCEPT ![r] = [At(IF terms = <<>> THEN "reset" ELSE "vectors") EXCEPT
                                         !.terms = terms, !.had = config.counter, !.mark = counted.bumped]]
    BY DEF Scroll
  <1> DEFINE pc == IF terms = <<>> THEN "reset" ELSE "vectors"
             o == [At(pc) EXCEPT !.terms = terms, !.had = config.counter, !.mark = counted.bumped]
  <1>2. terms \in Vocabularies /\ Range(terms) = Points
    <2>1. IsFiniteSet(Points) /\ Cardinality(Points) \in Nat
      BY ChunksFinite, FS_Subset, FS_CardinalityType DEF Points
    <2>2. terms \in [1..Cardinality(Points) -> Points]
      BY Zenon DEF SetToSeqs
    <2>3. terms \in [1..Cardinality(Points) -> Chunks]
      BY <2>2 DEF Points
    <2>4. \A i, j \in 1..Cardinality(Points) : terms[i] = terms[j] => i = j
      BY Zenon DEF SetToSeqs
    <2>5. terms \in Vocabularies
      BY <2>1, <2>3, <2>4, VocabularyMade
    <2>6. Points \subseteq Range(terms)
      <3>1. terms \in Injection(1..Cardinality(Points), Points)
        BY <2>2, <2>4 DEF Injection, IsInjective
      <3>2. Cardinality(1..Cardinality(Points)) = Cardinality(Points)
        BY <2>1, FS_Interval
      <3>3. terms \in Surjection(1..Cardinality(Points), Points)
        BY <2>1, <3>1, <3>2, FS_Injection
      <3> QED
        BY <2>2, <3>3 DEF Surjection, Range
    <2> QED
      BY <2>2, <2>5, <2>6 DEF Range
  <1>3. /\ o \in ProcStates /\ o.pc = pc /\ o.terms = terms
        /\ o.had = config.counter /\ o.mark = counted["bumped"]
    <2>1. config.counter \in Nat /\ counted["bumped"] \in Nat
      BY DEF Typed, Configs
    <2>2. pc \in {"vectors", "reset"} /\ pc \in RebuildPcs
      BY DEF RebuildPcs, HoldingPcs
    <2> HIDE DEF pc
    <2>3. At(pc) \in ProcStates /\ At(pc).pc = pc
      BY <2>2, AtTyped
    <2> QED
      BY <1>2, <2>1, <2>3 DEF ProcStates
  <1>4. pc \in {"vectors", "reset"}
    OBVIOUS
  <1>5. r \in Procs /\ r \notin Chunks /\ r \notin Writers
    BY ChunksAssumption DEF Procs
  <1>6. proc' = [proc EXCEPT ![r] = o]
    BY <1>1
  <1> HIDE DEF o, pc
  <1>7. Sound(r, o)
    BY <1>3, <1>4, <1>5 DEF Sound, RebuildPcs, HoldingPcs
  <1>8. /\ proc' \in [Procs -> ProcStates] /\ \A q \in Procs : Sound(q, proc'[q])
        /\ proc'[r] = o /\ \A q \in Procs \ {r} : proc'[q] = proc[q]
    BY <1>3, <1>5, <1>6, <1>7, Placed
  <1>9. /\ mishaps \subseteq mishaps' /\ mishaps' \subseteq Mishaps
        /\ "crossed" \notin mishaps' => \A c \in Chunks : ~ Encoding(c)
    BY DEF Scroll, Note, Typed, Mishaps
  <1>10. proc[r].pc = "scroll" /\ UNCHANGED <<config, vector, vocabLock, trigger, counted, uses, undone>>
    BY DEF Scroll
  <1>11. Typed'
    BY <1>8, <1>9, <1>10 DEF Typed
  <1> QED
    BY <1>2, <1>3, <1>4, <1>8, <1>9, <1>10, <1>11 DEF Others, Grows

\* All chunks it has read get the id of its vocabulary.
LEMMA WriteVectorsDoes ==
  ASSUME Typed, NEW r \in Rebuilds, WriteVectors(r)
  PROVE  /\ Typed' /\ Grows /\ Others(r)
         /\ proc[r].pc = "vectors" /\ proc'[r].pc = "save" /\ proc'[r].terms = proc[r].terms
         /\ proc'[r].had = proc[r].had /\ proc'[r].mark = proc[r].mark
         /\ Range(proc[r].terms) \subseteq Points
         /\ vector' = [c \in Chunks |-> IF c \in Range(proc[r].terms)
                                        THEN IdIn(proc[r].terms, c) ELSE vector[c]]
         /\ UNCHANGED <<config, vocabLock, trigger, counted, uses, undone, mishaps>>
  <1>1. /\ proc' \in [Procs -> ProcStates] /\ \A q \in Procs : Sound(q, proc'[q])
        /\ proc'[r].pc = "save" /\ proc'[r].terms = proc[r].terms
        /\ proc'[r].had = proc[r].had /\ proc'[r].mark = proc[r].mark /\ Others(r)
    <2>1. "save" \in RebuildPcs
      BY DEF RebuildPcs, HoldingPcs
    <2> QED
      BY <2>1, RebuildMoves DEF WriteVectors
  <1>2. vector' \in [Chunks -> 0..Cardinality(Chunks)]
    <2>1. proc[r].terms \in Vocabularies
      BY DEF Typed, ProcStates, Procs
    <2>2. \A c \in Range(proc[r].terms) : IdIn(proc[r].terms, c) \in 0..Cardinality(Chunks)
      BY <2>1, VocabularyShape, ChunksFinite
    <2> QED
      BY <2>2 DEF WriteVectors, Typed
  <1>3. /\ proc[r].pc = "vectors" /\ Range(proc[r].terms) \subseteq Points
        /\ vector' = [c \in Chunks |-> IF c \in Range(proc[r].terms)
                                       THEN IdIn(proc[r].terms, c) ELSE vector[c]]
        /\ UNCHANGED <<config, vocabLock, trigger, counted, uses, undone, mishaps>>
    BY DEF WriteVectors
  <1>4. Typed'
    BY <1>1, <1>2, <1>3 DEF Typed
  <1> QED
    BY <1>1, <1>3, <1>4 DEF Grows

\* Some do, and then it fails.
LEMMA FailVectorsDoes ==
  ASSUME Typed, NEW r \in Rebuilds, FailVectors(r)
  PROVE  /\ Typed' /\ Grows /\ Others(r)
         /\ proc[r].pc = "vectors" /\ proc'[r].pc = "abandon"
         /\ "halfway" \in mishaps' \/ vector' = vector
         /\ UNCHANGED <<config, vocabLock, trigger, counted, uses, undone>>
  <1>1. /\ proc' \in [Procs -> ProcStates] /\ \A q \in Procs : Sound(q, proc'[q])
        /\ proc'[r].pc = "abandon" /\ Others(r)
    <2>1. "abandon" \in RebuildPcs
      BY DEF RebuildPcs, HoldingPcs
    <2> QED
      BY <2>1, RebuildGoesTo DEF FailVectors
  <1>2. PICK written \in SUBSET (Range(proc[r].terms) \intersect Points) :
          /\ vector' = [c \in Chunks |-> IF c \in written THEN IdIn(proc[r].terms, c) ELSE vector[c]]
          /\ mishaps' = mishaps \union (IF written = {} THEN {} ELSE {"halfway"})
    BY DEF FailVectors, Note
  <1>3. vector' \in [Chunks -> 0..Cardinality(Chunks)]
    <2>1. proc[r].terms \in Vocabularies
      BY DEF Typed, ProcStates, Procs
    <2>2. \A c \in written : IdIn(proc[r].terms, c) \in 0..Cardinality(Chunks)
      BY <2>1, VocabularyShape, ChunksFinite
    <2> QED
      BY <1>2, <2>2 DEF Typed
  <1>4. "halfway" \in mishaps' \/ vector' = vector
    BY <1>2 DEF Typed
  <1>5. mishaps \subseteq mishaps' /\ mishaps' \subseteq Mishaps
    BY <1>2 DEF Typed, Mishaps
  <1>6. proc[r].pc = "vectors" /\ UNCHANGED <<config, vocabLock, trigger, counted, uses, undone>>
    BY DEF FailVectors
  <1>7. Typed'
    BY <1>1, <1>3, <1>5, <1>6 DEF Typed
  <1> QED
    BY <1>1, <1>4, <1>5, <1>6, <1>7 DEF Grows

\* The vocabulary it has made is the collection's.
LEMMA SaveRebuiltDoes ==
  ASSUME Typed, NEW r \in Rebuilds, SaveRebuilt(r)
  PROVE  /\ Typed' /\ Grows /\ Others(r)
         /\ proc[r].pc = "saveWrite" /\ proc'[r].pc = "count"
         /\ proc'[r].had = proc[r].had /\ proc'[r].mark = proc[r].mark
         /\ config'.vocab = proc[r].terms
         /\ "lock" \notin undone' => config'.lock = config.lock
         /\ "counter" \notin undone' => config'.counter = config.counter
         /\ UNCHANGED <<vector, vocabLock, trigger, counted, uses, mishaps>>
  <1>1. r \in Procs /\ proc[r].terms \in Vocabularies
    BY DEF Typed, ProcStates, Procs
  <1>2. /\ config' \in Configs /\ config'.vocab = proc[r].terms
        /\ undone \subseteq undone' /\ undone' \subseteq Fields
        /\ "lock" \notin undone' => config'.lock = config.lock
        /\ "counter" \notin undone' => config'.counter = config.counter
    BY <1>1, WritesVocab DEF SaveRebuilt
  <1>3. /\ proc' \in [Procs -> ProcStates] /\ \A q \in Procs : Sound(q, proc'[q])
        /\ proc'[r].pc = "count" /\ Others(r)
        /\ proc'[r].had = proc[r].had /\ proc'[r].mark = proc[r].mark
    <2>1. "count" \in RebuildPcs
      BY DEF RebuildPcs, HoldingPcs
    <2> QED
      BY <2>1, RebuildMoves DEF SaveRebuilt
  <1>4. proc[r].pc = "saveWrite" /\ UNCHANGED <<vector, vocabLock, trigger, counted, uses, mishaps>>
    BY DEF SaveRebuilt
  <1>5. Typed'
    BY <1>2, <1>3, <1>4 DEF Typed
  <1> QED
    BY <1>2, <1>3, <1>4, <1>5 DEF Grows

\* The changes it has dealt with are off the counter; when that takes more off
\* than it should, it is named.
LEMMA CountDoes ==
  ASSUME Typed, NEW r \in Rebuilds, CountRebuilt(r) \/ ResetCount(r)
  PROVE  /\ Typed' /\ Grows /\ Others(r)
         /\ proc[r].pc \in {"countWrite", "resetWrite"} /\ proc'[r].pc = "release"
         /\ "lock" \notin undone' => config'.lock = config.lock
         /\ "vocab" \notin undone' => config'.vocab = config.vocab
         /\ counted'["bumped"] = counted["bumped"]
         /\ counted'["handled"] >= proc[r].mark
         /\ \/ "forgotten" \in mishaps' \/ "counter" \in undone'
            \/ counted["bumped"] <= proc[r].mark
            \/ config'.counter + proc[r].had >= config.counter
         /\ UNCHANGED <<vector, vocabLock, trigger, uses>>
  <1>1. /\ r \in Procs /\ proc[r].seen.counter \in Nat /\ Len(proc[r].terms) \in Nat
        /\ proc[r].had \in Nat /\ config.counter \in Nat
    BY VocabularyShape DEF Typed, ProcStates, Procs, Configs
  <1>2. PICK n \in Nat, m \in Nat :
          /\ WriteConfig(r, [counter |-> m]) /\ Handled(r, n)
          /\ m + n >= proc[r].seen.counter \/ n = proc[r].had + 1
          /\ proc[r].pc \in {"countWrite", "resetWrite"}
    <2>1. CASE CountRebuilt(r)
      <3> DEFINE n == Len(proc[r].terms)
                 counter == proc[r].seen.counter
                 m == IF counter > n THEN counter - n ELSE 0
      <3>1. m \in Nat /\ m + n >= counter
        BY <1>1
      <3>2. WriteConfig(r, [counter |-> m]) /\ Handled(r, n) /\ proc[r].pc = "countWrite"
        BY <2>1 DEF CountRebuilt
      <3> HIDE DEF m
      <3> QED
        BY <1>1, <3>1, <3>2
    <2>2. CASE ResetCount(r)
      BY <1>1, <2>2 DEF ResetCount
    <2> QED
      BY <2>1, <2>2
  <1>3. /\ config' \in Configs /\ config'.counter = m
        /\ undone \subseteq undone' /\ undone' \subseteq Fields
        /\ "lock" \notin undone' => config'.lock = config.lock
        /\ "vocab" \notin undone' => config'.vocab = config.vocab
        /\ "counter" \notin undone' => proc[r].seen.counter = config.counter
    BY <1>1, <1>2, WritesCounter
  <1>4. /\ counted' \in [{"bumped", "handled"} -> Nat]
        /\ counted'["bumped"] = counted["bumped"] /\ counted'["handled"] >= proc[r].mark
        /\ mishaps \subseteq mishaps' /\ mishaps' \subseteq Mishaps
        /\ "forgotten" \notin mishaps' => proc[r].had >= n \/ counted["bumped"] <= proc[r].mark
    BY <1>2, HandledTyped
  <1>5. /\ proc' \in [Procs -> ProcStates] /\ \A q \in Procs : Sound(q, proc'[q])
        /\ proc'[r].pc = "release" /\ Others(r)
    <2>1. "release" \in RebuildPcs
      BY DEF RebuildPcs, HoldingPcs
    <2> QED
      BY <2>1, RebuildGoesTo DEF CountRebuilt, ResetCount
  <1>6. UNCHANGED <<vector, vocabLock, trigger, uses>>
    BY DEF CountRebuilt, ResetCount
  <1>7. \/ "forgotten" \in mishaps' \/ "counter" \in undone'
        \/ counted["bumped"] <= proc[r].mark
        \/ config'.counter + proc[r].had >= config.counter
    BY <1>1, <1>2, <1>3, <1>4
  <1>8. Typed'
    BY <1>3, <1>4, <1>5, <1>6 DEF Typed
  <1> QED
    BY <1>2, <1>3, <1>4, <1>5, <1>6, <1>7, <1>8 DEF Grows

\* The lock is free.
LEMMA ReleaseLockDoes ==
  ASSUME Typed, NEW r \in Rebuilds, ReleaseLock(r)
  PROVE  /\ Typed' /\ Grows /\ Others(r)
         /\ proc[r].pc \in {"releaseWrite", "abandonWrite"} /\ proc'[r].pc \in {"failed", "recheck"}
         /\ config'.lock = "free"
         /\ "vocab" \notin undone' => config'.vocab = config.vocab
         /\ "counter" \notin undone' => config'.counter = config.counter
         /\ UNCHANGED <<vector, vocabLock, trigger, counted, uses, mishaps>>
  <1>1. /\ config' \in Configs /\ config'.lock = "free"
        /\ undone \subseteq undone' /\ undone' \subseteq Fields
        /\ "vocab" \notin undone' => config'.vocab = config.vocab
        /\ "counter" \notin undone' => config'.counter = config.counter
    BY WritesLock DEF ReleaseLock, Procs
  <1>2. PICK pc \in {"failed", "recheck"} : proc' = [proc EXCEPT ![r] = At(pc)]
    BY DEF ReleaseLock, Released
  <1>3. /\ proc' \in [Procs -> ProcStates] /\ \A q \in Procs : Sound(q, proc'[q])
        /\ proc'[r].pc = pc /\ Others(r)
    <2>1. pc \in RebuildPcs
      BY DEF RebuildPcs
    <2> QED
      BY <1>2, <2>1, RebuildGoesTo
  <1> QED
    BY <1>1, <1>3 DEF ReleaseLock, Typed, Grows

\* The task is over.
LEMMA EndDoes ==
  ASSUME Typed, NEW r \in Rebuilds, Recheck(r) \/ Fail(r)
  PROVE  /\ Typed' /\ Grows /\ Others(r)
         /\ proc[r].pc \in {"recheck", "failed"} /\ proc'[r].pc = "unused"
         /\ UNCHANGED <<config, vector, vocabLock, trigger, counted, uses, undone>>
  <1>1. "unused" \in RebuildPcs
    BY DEF RebuildPcs
  <1>2. /\ proc' \in [Procs -> ProcStates] /\ \A q \in Procs : Sound(q, proc'[q])
        /\ proc'[r].pc = "unused" /\ Others(r)
    BY <1>1, RebuildGoesTo DEF Recheck, Fail
  <1>3. mishaps \subseteq mishaps' /\ mishaps' \subseteq Mishaps
    BY DEF Recheck, Fail, Note, Typed, Mishaps
  <1> QED
    BY <1>2, <1>3 DEF Recheck, Fail, Typed, Grows

\* Its updates read the config.
LEMMA RebuildReads ==
  ASSUME Typed, NEW r \in Rebuilds, NEW from, NEW to, ReadConfig(r, from, to),
         <<from, to>> \in {<<"save", "saveWrite">>, <<"count", "countWrite">>, <<"reset", "resetWrite">>,
                           <<"release", "releaseWrite">>, <<"abandon", "abandonWrite">>}
  PROVE  /\ Typed' /\ Grows /\ Others(r)
         /\ proc[r].pc = from /\ proc'[r].pc = to /\ proc'[r].terms = proc[r].terms
         /\ proc'[r].had = proc[r].had /\ proc'[r].mark = proc[r].mark
         /\ UNCHANGED <<config, vector, vocabLock, trigger, counted, uses, undone, mishaps>>
  <1>1. r \in Procs /\ r \notin Chunks /\ r \notin Writers /\ to \in RebuildPcs
    BY ChunksAssumption DEF Procs, RebuildPcs, HoldingPcs
  <1> QED
    BY <1>1, ConfigRead DEF Others, Grows

\* A user asks for a rebuild, and the task is created.
LEMMA UserDoes ==
  ASSUME Typed, UserSchedules \/ \E r \in Rebuilds : UserCreatesTask(r)
  PROVE  /\ Typed' /\ Grows
         /\ \A q \in Procs : \/ proc'[q] = proc[q]
                             \/ q \in Rebuilds /\ proc[q].pc = "unused" /\ proc'[q].pc = "acquire"
         /\ UNCHANGED <<config, vector, vocabLock, counted, undone, mishaps>>
  <1>1. CASE UserSchedules
    BY <1>1 DEF UserSchedules, Typed, Grows
  <1>2. ASSUME NEW r \in Rebuilds, UserCreatesTask(r)
        PROVE  /\ proc' \in [Procs -> ProcStates] /\ \A q \in Procs : Sound(q, proc'[q])
               /\ proc[r].pc = "unused" /\ proc'[r].pc = "acquire" /\ Others(r)
               /\ trigger' = "none" /\ UNCHANGED <<config, vector, vocabLock, counted, uses, undone, mishaps>>
    <2>1. "acquire" \in RebuildPcs
      BY DEF RebuildPcs
    <2> QED
      BY <1>2, <2>1, RebuildGoesTo DEF UserCreatesTask
  <1>3. CASE \E r \in Rebuilds : UserCreatesTask(r)
    <2>1. PICK r \in Rebuilds : UserCreatesTask(r)
      BY <1>3
    <2> QED
      BY <1>2, <2>1 DEF Typed, Others, Grows
  <1> QED
    BY <1>1, <1>3

\* A lock that is held becomes old.
LEMMA AgesDoes ==
  ASSUME Typed, LockAges
  PROVE  /\ Typed' /\ Grows
         /\ config.lock = "held" /\ config'.lock = "stale"
         /\ config'.vocab = config.vocab /\ config'.counter = config.counter
         /\ UNCHANGED <<vector, proc, vocabLock, trigger, counted, uses, undone, mishaps>>
  BY DEF LockAges, Typed, Configs, Grows

\* An update of another field: what it changes of these is undone by it.
LEMMA UpdateDoes ==
  ASSUME Typed, VocabLockHeld, NEW w \in Writers, BeginUpdate(w) \/ EndUpdate(w)
  PROVE  /\ Typed' /\ VocabLockHeld' /\ Grows
         /\ \A p \in Workers : proc'[p] = proc[p]
         /\ "lock" \notin undone' => config'.lock = config.lock
         /\ "vocab" \notin undone' => config'.vocab = config.vocab
         /\ "counter" \notin undone' => config'.counter = config.counter
         /\ UNCHANGED <<vector, vocabLock, trigger, counted, mishaps>>
  <1>1. /\ w \in Procs /\ w \notin Chunks /\ w \notin Rebuilds /\ Workers \subseteq Procs \ {w}
        /\ Chunks \subseteq Workers
    BY ChunksAssumption DEF Workers, Procs
  <1>2. /\ proc' \in [Procs -> ProcStates] /\ \A q \in Procs : Sound(q, proc'[q])
        /\ \A q \in Procs \ {w} : proc'[q] = proc[q]
    <2>1. CASE BeginUpdate(w)
      <3>1. PICK seen \in {config, EmptyConfig} :
              proc' = [proc EXCEPT ![w].pc = "write", ![w].seen = seen]
        BY <2>1 DEF BeginUpdate
      <3>2. seen \in Configs /\ "write" \in WriterPcs
        BY EmptyTyped DEF Typed, WriterPcs
      <3> QED
        BY <1>1, <3>1, <3>2, Reads
    <2>2. CASE EndUpdate(w)
      <3>1. At("idle") \in ProcStates /\ At("idle").pc = "idle" /\ "idle" \in WriterPcs
        BY AtTyped DEF WriterPcs
      <3>2. Sound(w, At("idle"))
        BY <1>1, <3>1 DEF Sound
      <3> QED
        BY <1>1, <2>2, <3>1, <3>2, Placed DEF EndUpdate
    <2> QED
      BY <2>1, <2>2
  <1>3. /\ config' \in Configs /\ uses' \in Nat
        /\ undone \subseteq undone' /\ undone' \subseteq Fields
        /\ "lock" \notin undone' => config'.lock = config.lock
        /\ "vocab" \notin undone' => config'.vocab = config.vocab
        /\ "counter" \notin undone' => config'.counter = config.counter
        /\ UNCHANGED <<vector, vocabLock, trigger, counted, mishaps>>
    <2>1. CASE BeginUpdate(w)
      BY <2>1 DEF BeginUpdate, Failing, Typed
    <2>2. CASE EndUpdate(w)
      BY <1>1, <2>2, WritesOther DEF EndUpdate, Typed
    <2> QED
      BY <2>1, <2>2
  <1>4. Typed'
    BY <1>2, <1>3 DEF Typed
  <1>5. VocabLockHeld'
    BY <1>1, <1>2, <1>3 DEF VocabLockHeld
  <1> QED
    BY <1>1, <1>2, <1>3, <1>4, <1>5 DEF Grows

----------------------------------------------------------------------------
\* What a call of Qdrant that fails does, and a crash.

\* An update that misreads the config goes on with the defaults; a rebuild takes
\* a lock for free that is not, and then it is named.
LEMMA MisreadDoes ==
  ASSUME Typed, VocabLockHeld, NEW p \in Workers, MisreadConfig(p)
  PROVE  /\ Typed' /\ VocabLockHeld' /\ Grows /\ Others(p)
         /\ <<proc[p].pc, proc'[p].pc>> \in Updates
         /\ proc'[p].terms = proc[p].terms
         /\ proc'[p].had = proc[p].had /\ proc'[p].mark = proc[p].mark
         /\ proc[p].pc = "acquire" => config.lock = "free" \/ "misread" \in mishaps'
         /\ UNCHANGED <<config, vector, vocabLock, trigger, counted, undone>>
  <1>a. p \in Procs /\ p \notin Writers
    BY ChunksAssumption DEF Workers, Procs
  <1>1. PICK update \in Updates :
          /\ proc[p].pc = update[1]
          /\ proc' = [proc EXCEPT ![p].pc = update[2],
                                  ![p].seen = IF update[1] = "acquire"
                                              THEN [config EXCEPT !.lock = "free"] ELSE EmptyConfig]
    BY DEF MisreadConfig
  <1> DEFINE to == update[2]
             seen == IF update[1] = "acquire" THEN [config EXCEPT !.lock = "free"] ELSE EmptyConfig
  <1>2. seen \in Configs
    BY EmptyTyped DEF Typed, Configs
  <1>3. /\ to \in StorePcs \union RebuildPcs
        /\ p \in Chunks => to \in StorePcs /\ (to \in EncodingPcs => proc[p].pc \in EncodingPcs)
        /\ p \in Rebuilds => to \in RebuildPcs
        /\ <<proc[p].pc, to>> = update
    <2>1. Sound(p, proc[p])
      BY <1>a DEF Typed
    <2> QED
      BY <1>1, <2>1 DEF Sound, Updates, StorePcs, RebuildPcs, HoldingPcs, EncodingPcs
  <1>4. proc' = [proc EXCEPT ![p].pc = to, ![p].seen = seen]
    BY <1>1
  <1> HIDE DEF to, seen
  <1>5. /\ proc' \in [Procs -> ProcStates] /\ \A q \in Procs : Sound(q, proc'[q])
        /\ proc'[p].pc = to /\ proc'[p].terms = proc[p].terms
        /\ proc'[p].had = proc[p].had /\ proc'[p].mark = proc[p].mark
        /\ \A q \in Procs \ {p} : proc'[q] = proc[q]
    BY <1>a, <1>2, <1>3, <1>4, Reads
  <1>6. /\ UNCHANGED <<config, vector, vocabLock, trigger, counted, undone>> /\ uses' \in Nat
        /\ mishaps \subseteq mishaps' /\ mishaps' \subseteq Mishaps
        /\ proc[p].pc = "acquire" => config.lock = "free" \/ "misread" \in mishaps'
    BY DEF MisreadConfig, Failing, Note, Typed, Mishaps
  <1>7. Typed'
    BY <1>5, <1>6 DEF Typed
  <1>8. <<proc[p].pc, proc'[p].pc>> \in Updates
    BY <1>3, <1>5
  <1>9. VocabLockHeld'
    <2>1. proc'[p].pc \in {"encoded", "saveVocab"} <=> proc[p].pc \in {"encoded", "saveVocab"}
      BY <1>8 DEF Updates
    <2> QED
      BY <1>a, <1>5, <1>6, <2>1 DEF VocabLockHeld, Procs
  <1> QED
    BY <1>5, <1>6, <1>7, <1>8, <1>9 DEF Others, Grows

\* A vocabulary is not saved, a lock not released, and what it did goes on.
LEMMA LoseDoes ==
  ASSUME Typed, VocabLockHeld, NEW p \in Workers, LoseWrite(p)
  PROVE  /\ Typed' /\ VocabLockHeld' /\ Grows /\ Others(p)
         /\ \/ /\ p \in Chunks /\ proc[p].pc = "saveVocab" /\ proc'[p].pc = "store"
               /\ "unsaved" \in mishaps'
            \/ /\ p \in Rebuilds /\ proc[p].pc = "saveWrite" /\ proc'[p].pc = "count"
               /\ proc'[p].had = proc[p].had /\ proc'[p].mark = proc[p].mark
               /\ "unsaved" \in mishaps'
            \/ /\ p \in Rebuilds /\ proc[p].pc \in {"releaseWrite", "abandonWrite"}
               /\ proc'[p].pc \in {"failed", "recheck"}
               /\ "kept" \in mishaps'
         /\ UNCHANGED <<config, vector, trigger, counted, undone>>
  <1>a. p \in Procs /\ p \notin Writers
    BY ChunksAssumption DEF Workers, Procs
  <1>0. Sound(p, proc[p]) /\ proc[p] \in ProcStates
    BY <1>a DEF Typed
  <1>1. /\ UNCHANGED <<config, vector, trigger, counted, undone>> /\ uses' \in Nat
        /\ vocabLock' = IF vocabLock = p THEN NoChunk ELSE vocabLock
        /\ mishaps \subseteq mishaps' /\ mishaps' \subseteq Mishaps
    BY DEF LoseWrite, Failing, Note, Typed, Mishaps
  <1>2. CASE proc[p].pc = "saveVocab"
    <2>1. p \in Chunks /\ p \notin Rebuilds /\ p \in Range(proc[p].terms) /\ proc[p].terms \in Vocabularies
      BY <1>0, <1>2, ChunksAssumption DEF Sound, RebuildPcs, HoldingPcs, EncodingPcs, Workers, ProcStates
    <2>2. proc' = [proc EXCEPT ![p] = [At("store") EXCEPT !.terms = proc[p].terms]]
      BY <1>2 DEF LoseWrite
    <2>3. /\ proc' \in [Procs -> ProcStates] /\ \A q \in Procs : Sound(q, proc'[q])
          /\ proc'[p].pc = "store" /\ \A q \in Procs \ {p} : proc'[q] = proc[q]
      <3>1. "store" \in StorePcs
        BY DEF StorePcs
      <3> QED
        BY <1>a, <2>1, <2>2, <3>1, Starts
    <2>4. "unsaved" \in mishaps'
      BY <1>2 DEF LoseWrite, Note
    <2>5. vocabLock = p /\ vocabLock' = NoChunk
      BY <1>1, <1>2, <2>1 DEF VocabLockHeld
    <2>6. Typed'
      BY <1>1, <2>3, <2>5 DEF Typed
    <2>7. VocabLockHeld'
      BY <2>1, <2>3, <2>5, ChunksAssumption DEF VocabLockHeld, Procs
    <2> QED
      BY <1>1, <1>2, <2>1, <2>3, <2>4, <2>6, <2>7 DEF Others, Grows
  <1>3. CASE proc[p].pc # "saveVocab"
    <2>1. p \in Rebuilds /\ p \notin Chunks /\ proc[p].pc \in {"saveWrite", "releaseWrite", "abandonWrite"}
      BY <1>0, <1>3, ChunksAssumption DEF Sound, StorePcs, LoseWrite, Workers
    <2>2. vocabLock' = vocabLock
      BY <1>1, <2>1 DEF Typed
    <2>3. /\ proc' \in [Procs -> ProcStates] /\ \A q \in Procs : Sound(q, proc'[q]) /\ Others(p)
          /\ \/ /\ proc[p].pc = "saveWrite" /\ proc'[p].pc = "count"
                /\ proc'[p].had = proc[p].had /\ proc'[p].mark = proc[p].mark
                /\ "unsaved" \in mishaps'
             \/ /\ proc[p].pc \in {"releaseWrite", "abandonWrite"}
                /\ proc'[p].pc \in {"failed", "recheck"}
                /\ "kept" \in mishaps'
      <3>1. CASE proc[p].pc = "saveWrite"
        <4>1. "count" \in RebuildPcs /\ "unsaved" \in mishaps'
          BY <3>1 DEF RebuildPcs, HoldingPcs, LoseWrite, Note
        <4>2. Move(p, "count")
          <5>1. proc' = [proc EXCEPT ![p] = [proc[p] EXCEPT !.pc = "count"]]
            BY <3>1 DEF LoseWrite
          <5> QED
            BY <5>1 DEF Move, Typed
        <4> QED
          BY <2>1, <3>1, <4>1, <4>2, RebuildMoves
      <3>2. CASE proc[p].pc # "saveWrite"
        <4>1. PICK pc \in {"failed", "recheck"} : proc' = [proc EXCEPT ![p] = At(pc)]
          BY <1>3, <3>2 DEF LoseWrite, Released
        <4>2. pc \in RebuildPcs /\ "kept" \in mishaps'
          BY <1>3, <3>2 DEF RebuildPcs, LoseWrite, Note
        <4> QED
          BY <2>1, <3>2, <4>1, <4>2, RebuildGoesTo
      <3> QED
        BY <3>1, <3>2
    <2>4. Typed'
      BY <1>1, <2>2, <2>3 DEF Typed
    <2>5. VocabLockHeld'
      BY <2>1, <2>2, <2>3 DEF VocabLockHeld, Others, Procs
    <2> QED
      BY <1>1, <2>1, <2>3, <2>4, <2>5 DEF Others, Grows
  <1> QED
    BY <1>2, <1>3

\* A thread's change is not counted, or a rebuild ends.
LEMMA FailCallDoes ==
  ASSUME Typed, VocabLockHeld, NEW p \in Workers, FailCall(p)
  PROVE  /\ Typed' /\ VocabLockHeld' /\ Grows /\ Others(p)
         /\ \/ p \in Chunks /\ proc[p].pc = "bumpWrite" /\ proc'[p].pc \notin EncodingPcs
            \/ p \in Rebuilds /\ proc[p].pc = "takeWrite" /\ proc'[p].pc = "failed"
            \/ /\ p \in Rebuilds /\ proc[p].pc \in {"scroll", "countWrite", "resetWrite"}
               /\ proc'[p].pc = "abandon"
         /\ UNCHANGED <<config, vector, vocabLock, trigger, counted, undone, mishaps>>
  <1>a. p \in Procs /\ p \notin Writers
    BY ChunksAssumption DEF Workers, Procs
  <1>0. Sound(p, proc[p]) /\ proc[p] \in ProcStates
    BY <1>a DEF Typed
  <1>1. /\ UNCHANGED <<config, vector, vocabLock, trigger, counted, undone, mishaps>> /\ uses' \in Nat
        /\ proc[p].pc \in {"bumpWrite", "takeWrite", "scroll", "countWrite", "resetWrite"}
    BY DEF FailCall, Failing, Typed
  <1>2. CASE p \in Chunks
    <2>1. PICK pc \in {"stored", "deleted"} : proc' = [proc EXCEPT ![p] = At(pc)]
      BY <1>2 DEF FailCall, Settled
    <2>2. p \notin Rebuilds /\ proc[p].pc = "bumpWrite" /\ pc \in StorePcs \ EncodingPcs
      BY <1>0, <1>1, <1>2, ChunksAssumption DEF Sound, StorePcs, EncodingPcs
    <2>3. /\ proc' \in [Procs -> ProcStates] /\ \A q \in Procs : Sound(q, proc'[q])
          /\ proc'[p].pc = pc /\ \A q \in Procs \ {p} : proc'[q] = proc[q]
      BY <1>a, <1>2, <2>1, <2>2, StartsBare
    <2>4. Typed'
      BY <1>1, <2>3 DEF Typed
    <2>5. VocabLockHeld'
      BY <1>1, <2>2, <2>3 DEF VocabLockHeld, Procs
    <2> QED
      BY <1>1, <1>2, <2>2, <2>3, <2>4, <2>5 DEF Others, Grows
  <1>3. CASE p \notin Chunks
    <2>1. p \in Rebuilds
      BY <1>3 DEF Workers
    <2>2. PICK pc \in {"abandon", "failed"} :
            /\ proc' = [proc EXCEPT ![p] = At(pc)]
            /\ pc = IF Holding(p) THEN "abandon" ELSE "failed"
      BY <1>3 DEF FailCall
    <2>3. pc \in RebuildPcs
      BY DEF RebuildPcs, HoldingPcs
    <2>4. /\ proc' \in [Procs -> ProcStates] /\ \A q \in Procs : Sound(q, proc'[q])
          /\ proc'[p].pc = pc /\ Others(p)
      BY <2>1, <2>2, <2>3, RebuildGoesTo
    <2>5. \/ proc[p].pc = "takeWrite" /\ pc = "failed"
          \/ proc[p].pc \in {"scroll", "countWrite", "resetWrite"} /\ pc = "abandon"
      BY <1>0, <1>1, <2>1, <2>2 DEF Sound, Holding, RebuildPcs, HoldingPcs
    <2>6. Typed'
      BY <1>1, <2>4 DEF Typed
    <2>7. VocabLockHeld'
      BY <1>1, <1>3, <2>4 DEF VocabLockHeld, Others, Procs
    <2> QED
      BY <1>1, <2>1, <2>4, <2>5, <2>6, <2>7 DEF Grows
  <1> QED
    BY <1>2, <1>3

\* All tasks are gone, no text is half encoded; the lock is free, or its clearing
\* has failed, and the other fields are as they were, or undone.
LEMMA CrashDoes ==
  ASSUME Typed, VocabLockHeld, IndexCrash
  PROVE  /\ Typed' /\ VocabLockHeld' /\ Grows
         /\ \A r \in Rebuilds : proc'[r].pc = "unused"
         /\ \A c \in Chunks : proc'[c].pc \notin EncodingPcs
         /\ config'.lock = "free" \/ "kept" \in mishaps'
         /\ "vocab" \notin undone' => config'.vocab = config.vocab
         /\ "counter" \notin undone' => config'.counter = config.counter
         /\ (\E r \in Rebuilds : proc[r].pc \in {"save", "saveWrite"}) => "halfway" \in mishaps'
         /\ UNCHANGED <<vector, counted>>
  <1>1. /\ proc' = [p \in Procs |-> Restarted(p)]
        /\ vocabLock' = NoChunk /\ trigger' = "none" /\ uses' \in Nat
        /\ UNCHANGED <<vector, counted>>
    BY DEF IndexCrash, Failing, Typed
  <1>2. /\ config' \in Configs
        /\ undone \subseteq undone' /\ undone' \subseteq Fields
        /\ "vocab" \notin undone' => config'.vocab = config.vocab
        /\ "counter" \notin undone' => config'.counter = config.counter
    <2>1. config' \in {[config EXCEPT !.lock = "free"], config, EmptyConfig}
      BY DEF IndexCrash, AtStart
    <2>2. config' \in Configs
      BY <2>1, EmptyTyped DEF Typed, Configs
    <2>3. undone' = undone \union {f \in Fields \ {"lock"} : config'[f] # config[f]}
      BY DEF IndexCrash
    <2> QED
      BY <2>2, <2>3, EmptyTyped DEF Typed, Configs
  <1>3. /\ mishaps \subseteq mishaps' /\ mishaps' \subseteq Mishaps
        /\ config'.lock = "free" \/ "kept" \in mishaps'
        /\ (\E r \in Rebuilds : proc[r].pc \in {"save", "saveWrite"}) => "halfway" \in mishaps'
    BY DEF IndexCrash, Note, Typed, Mishaps
  <1>4. \A r \in Rebuilds : Restarted(r) = At("unused")
    BY ChunksAssumption DEF Restarted
  <1>5. \A c \in Chunks : \/ Restarted(c) = proc[c] /\ proc[c].pc \in {"new", "stored", "deleted"}
                          \/ Restarted(c) \in {At("again"), At("deleted")}
    BY ChunksAssumption DEF Restarted
  <1>6. ASSUME NEW p \in Procs
        PROVE  /\ Restarted(p) \in ProcStates /\ Sound(p, Restarted(p))
               /\ p \in Rebuilds => Restarted(p).pc = "unused"
               /\ p \in Chunks => Restarted(p).pc \notin EncodingPcs
    <2>1. CASE p \in Rebuilds
      <3>1. At("unused") \in ProcStates /\ At("unused").pc = "unused"
        BY AtTyped DEF RebuildPcs
      <3> QED
        BY <1>4, <2>1, <3>1, ChunksAssumption DEF Sound, RebuildPcs
    <2>2. CASE p \in Chunks
      <3>1. \A pc \in {"again", "deleted"} : At(pc) \in ProcStates /\ At(pc).pc = pc
        BY AtTyped DEF StorePcs
      <3>2. proc[p] \in ProcStates /\ Sound(p, proc[p])
        BY DEF Typed
      <3> QED
        BY <1>5, <2>2, <3>1, <3>2, ChunksAssumption DEF Sound, StorePcs, EncodingPcs
    <2>3. CASE p \in Writers
      <3>1. At("idle") \in ProcStates /\ At("idle").pc = "idle" /\ "idle" \in WriterPcs
        BY AtTyped DEF WriterPcs
      <3>2. p \notin Chunks /\ p \notin Rebuilds /\ Restarted(p) = At("idle")
        BY <2>3, ChunksAssumption DEF Restarted
      <3> QED
        BY <3>1, <3>2 DEF Sound
    <2> QED
      BY <2>1, <2>2, <2>3 DEF Procs
  <1>7. /\ proc' \in [Procs -> ProcStates] /\ \A p \in Procs : Sound(p, proc'[p])
        /\ \A r \in Rebuilds : proc'[r].pc = "unused"
        /\ \A c \in Chunks : proc'[c].pc \notin EncodingPcs
    BY <1>1, <1>6 DEF Procs
  <1>8. Typed'
    BY <1>1, <1>2, <1>3, <1>7 DEF Typed
  <1>9. VocabLockHeld'
    BY <1>1, <1>7, ChunksAssumption DEF VocabLockHeld, EncodingPcs
  <1> QED
    BY <1>1, <1>2, <1>3, <1>7, <1>8, <1>9 DEF Grows

----------------------------------------------------------------------------
\* The lock keeps rebuilds apart.

\* No rebuild takes, gets or leaves the lock.
LockStays ==
  /\ \A r \in Rebuilds : /\ proc'[r].pc \in HoldingPcs <=> proc[r].pc \in HoldingPcs
                         /\ proc'[r].pc = "takeWrite" => proc[r].pc = "takeWrite"
  /\ "lock" \notin undone' => (config'.lock = "free" <=> config.lock = "free")

\* One has found it free, takes it, leaves it; the process is gone.
FindsFree(r) ==
  /\ Others(r) /\ proc[r].pc = "acquire" /\ proc'[r].pc = "takeWrite"
  /\ \/ config.lock = "free" \/ {"overtaken", "misread"} \intersect mishaps' # {}
     \/ \A q \in Rebuilds : ~ Holding(q)
  /\ config' = config

Takes(r) ==
  /\ Others(r) /\ proc[r].pc = "takeWrite" /\ proc'[r].pc = "scroll"
  /\ "raced" \notin mishaps' => \A q \in Rebuilds \ {r} : proc[q].pc # "takeWrite"
  /\ config'.lock = "held"

Leaves(r) ==
  /\ Others(r) /\ Holding(r) /\ proc'[r].pc \in {"failed", "recheck"}
  /\ config'.lock = "free" \/ ("kept" \in mishaps' /\ config' = config)

AllGone == /\ \A r \in Rebuilds : proc'[r].pc = "unused"
           /\ config'.lock = "free" \/ "kept" \in mishaps'

\* Every step is one of these for the lock, and keeps the types.
LEMMA LockSteps ==
  ASSUME Typed, VocabLockHeld, [IndexNext]_indexState
  PROVE  /\ Typed' /\ VocabLockHeld' /\ Grows
         /\ \/ LockStays \/ AllGone
            \/ \E r \in Rebuilds : FindsFree(r) \/ Takes(r) \/ Leaves(r)
  <1> DEFINE P == /\ Typed' /\ VocabLockHeld' /\ Grows
                  /\ \/ LockStays \/ AllGone
                     \/ \E r \in Rebuilds : FindsFree(r) \/ Takes(r) \/ Leaves(r)
  <1> SUFFICES P
    OBVIOUS
  <1>0. Chunks \subseteq Procs /\ Rebuilds \subseteq Procs /\ Workers \subseteq Procs
        /\ Chunks \intersect Rebuilds = {} /\ Writers \intersect Workers = {}
    BY ChunksAssumption DEF Procs, Workers
  \* A step of rebuild r with these effects.
  <1>1. ASSUME NEW r \in Rebuilds, Typed', Grows, Others(r), vocabLock' = vocabLock,
               \/ /\ proc[r].pc \in HoldingPcs /\ proc'[r].pc \in HoldingPcs
                  /\ "lock" \notin undone' => config'.lock = config.lock
               \/ /\ proc[r].pc \notin HoldingPcs /\ proc'[r].pc \notin HoldingPcs \union {"takeWrite"}
                  /\ config' = config
               \/ FindsFree(r) \/ Takes(r) \/ Leaves(r)
        PROVE  P
    <2>1. VocabLockHeld'
      BY <1>0, <1>1 DEF VocabLockHeld, Others
    <2>2. CASE /\ proc[r].pc \in HoldingPcs /\ proc'[r].pc \in HoldingPcs
               /\ "lock" \notin undone' => config'.lock = config.lock
      <3>1. LockStays
        BY <1>0, <1>1, <2>2 DEF LockStays, Others, HoldingPcs
      <3> QED
        BY <1>1, <2>1, <3>1
    <2>3. CASE /\ proc[r].pc \notin HoldingPcs /\ proc'[r].pc \notin HoldingPcs \union {"takeWrite"}
               /\ config' = config
      <3>1. LockStays
        BY <1>0, <1>1, <2>3 DEF LockStays, Others
      <3> QED
        BY <1>1, <2>1, <3>1
    <2> QED
      BY <1>1, <2>1, <2>2, <2>3
  <1>2. ASSUME NEW c \in Chunks, Store(c) \/ DeleteChunk(c) \/ EncodeBlank(c)
        PROVE  P
    <2>1. /\ Typed' /\ VocabLockHeld' /\ Grows
          /\ \A r \in Rebuilds : \/ proc'[r] = proc[r]
                                 \/ proc[r].pc = "unused" /\ proc'[r].pc = "acquire"
          /\ "lock" \notin undone' => config'.lock = config.lock
      BY <1>2, ThreadSteps
    <2>2. LockStays
      BY <2>1 DEF LockStays, HoldingPcs
    <2> QED
      BY <2>1, <2>2
  <1>3. ASSUME NEW r \in Rebuilds, Rebuild(r)
        PROVE  P
    <2> USE <1>0, <1>3
    <2>1. CASE Acquire(r)
      <3>1. Typed' /\ Grows /\ FindsFree(r) /\ vocabLock' = vocabLock
        BY <2>1, AcquireDoes DEF FindsFree
      <3> QED
        BY <1>1, <3>1 DEF FindsFree
    <2>2. CASE AcquireTimesOut(r)
      BY <1>1, <2>2, TimesOutDoes DEF HoldingPcs
    <2>3. CASE TakeLock(r)
      <3>1. Typed' /\ Grows /\ Takes(r) /\ vocabLock' = vocabLock
        BY <2>3, TakeLockDoes DEF Takes
      <3> QED
        BY <1>1, <3>1 DEF Takes
    <2>4. CASE Scroll(r)
      BY <1>1, <2>4, ScrollDoes DEF HoldingPcs
    <2>5. CASE WriteVectors(r)
      BY <1>1, <2>5, WriteVectorsDoes DEF HoldingPcs
    <2>6. CASE FailVectors(r)
      BY <1>1, <2>6, FailVectorsDoes DEF HoldingPcs
    <2>7. CASE \/ ReadConfig(r, "save", "saveWrite") \/ ReadConfig(r, "count", "countWrite")
               \/ ReadConfig(r, "reset", "resetWrite") \/ ReadConfig(r, "release", "releaseWrite")
               \/ ReadConfig(r, "abandon", "abandonWrite")
      <3>1. PICK from, to : /\ ReadConfig(r, from, to)
                            /\ <<from, to>> \in {<<"save", "saveWrite">>, <<"count", "countWrite">>,
                                                 <<"reset", "resetWrite">>, <<"release", "releaseWrite">>,
                                                 <<"abandon", "abandonWrite">>}
        BY <2>7
      <3>2. from \in HoldingPcs /\ to \in HoldingPcs
        BY <3>1 DEF HoldingPcs
      <3> QED
        BY <1>1, <3>1, <3>2, RebuildReads
    <2>8. CASE SaveRebuilt(r)
      BY <1>1, <2>8, SaveRebuiltDoes DEF HoldingPcs
    <2>9. CASE CountRebuilt(r) \/ ResetCount(r)
      BY <1>1, <2>9, CountDoes DEF HoldingPcs
    <2>10. CASE ReleaseLock(r)
      <3>1. Typed' /\ Grows /\ Leaves(r) /\ vocabLock' = vocabLock
        BY <2>10, ReleaseLockDoes DEF Leaves, Holding, HoldingPcs
      <3> QED
        BY <1>1, <3>1 DEF Leaves
    <2>11. CASE Recheck(r) \/ Fail(r)
      BY <1>1, <2>11, EndDoes DEF HoldingPcs
    <2> QED
      BY <2>1, <2>2, <2>3, <2>4, <2>5, <2>6, <2>7, <2>8, <2>9, <2>10, <2>11 DEF Rebuild
  <1>4. CASE UserSchedules \/ \E r \in Rebuilds : UserCreatesTask(r)
    <2>1. /\ Typed' /\ Grows
          /\ \A q \in Procs : \/ proc'[q] = proc[q]
                              \/ q \in Rebuilds /\ proc[q].pc = "unused" /\ proc'[q].pc = "acquire"
          /\ UNCHANGED <<config, vector, vocabLock, counted, undone, mishaps>>
      BY <1>4, UserDoes
    <2>2. LockStays /\ VocabLockHeld'
      BY <1>0, <2>1 DEF LockStays, HoldingPcs, VocabLockHeld
    <2> QED
      BY <2>1, <2>2
  <1>5. ASSUME NEW p \in Workers, MisreadConfig(p)
        PROVE  P
    <2>1. /\ Typed' /\ VocabLockHeld' /\ Grows /\ Others(p)
          /\ <<proc[p].pc, proc'[p].pc>> \in Updates
          /\ proc[p].pc = "acquire" => config.lock = "free" \/ "misread" \in mishaps'
          /\ UNCHANGED <<config, vector, vocabLock, trigger, counted, undone>>
      BY <1>5, MisreadDoes
    <2>2. CASE p \in Rebuilds /\ proc[p].pc = "acquire"
      <3>1. FindsFree(p)
        BY <2>1, <2>2 DEF FindsFree, Updates
      <3> QED
        BY <2>1, <2>2, <3>1
    <2>3. CASE p \in Rebuilds /\ proc[p].pc # "acquire"
      <3>1. LockStays
        BY <1>0, <2>1, <2>3 DEF LockStays, Updates, HoldingPcs, Others
      <3> QED
        BY <2>1, <3>1
    <2>4. CASE p \notin Rebuilds
      <3>1. LockStays
        BY <1>0, <2>1, <2>4 DEF LockStays, Others
      <3> QED
        BY <2>1, <3>1
    <2> QED
      BY <2>2, <2>3, <2>4
  <1>6. ASSUME NEW p \in Workers, LoseWrite(p)
        PROVE  P
    <2>1. /\ Typed' /\ VocabLockHeld' /\ Grows /\ Others(p) /\ config' = config
          /\ \/ p \in Chunks
             \/ p \in Rebuilds /\ proc[p].pc = "saveWrite" /\ proc'[p].pc = "count"
             \/ /\ p \in Rebuilds /\ proc[p].pc \in {"releaseWrite", "abandonWrite"}
                /\ proc'[p].pc \in {"failed", "recheck"} /\ "kept" \in mishaps'
      BY <1>6, LoseDoes
    <2>2. CASE p \in Chunks
      <3>1. LockStays
        BY <1>0, <2>1, <2>2 DEF LockStays, Others
      <3> QED
        BY <2>1, <3>1
    <2>3. CASE p \in Rebuilds /\ proc[p].pc = "saveWrite" /\ proc'[p].pc = "count"
      <3>1. LockStays
        BY <1>0, <2>1, <2>3 DEF LockStays, Others, HoldingPcs
      <3> QED
        BY <2>1, <3>1
    <2>4. CASE /\ p \in Rebuilds /\ proc[p].pc \in {"releaseWrite", "abandonWrite"}
               /\ proc'[p].pc \in {"failed", "recheck"} /\ "kept" \in mishaps'
      <3>1. Leaves(p)
        BY <2>1, <2>4 DEF Leaves, Holding, HoldingPcs
      <3> QED
        BY <2>1, <2>4, <3>1
    <2> QED
      BY <2>1, <2>2, <2>3, <2>4
  <1>7. ASSUME NEW p \in Workers, FailCall(p)
        PROVE  P
    <2>1. /\ Typed' /\ VocabLockHeld' /\ Grows /\ Others(p) /\ config' = config
          /\ \/ p \in Chunks
             \/ p \in Rebuilds /\ proc[p].pc = "takeWrite" /\ proc'[p].pc = "failed"
             \/ /\ p \in Rebuilds /\ proc[p].pc \in {"scroll", "countWrite", "resetWrite"}
                /\ proc'[p].pc = "abandon"
      BY <1>7, FailCallDoes
    <2>2. LockStays
      BY <1>0, <2>1 DEF LockStays, Others, HoldingPcs
    <2> QED
      BY <2>1, <2>2
  <1>8. CASE LockAges
    <2>1. /\ Typed' /\ Grows /\ config.lock = "held" /\ config'.lock = "stale"
          /\ UNCHANGED <<vector, proc, vocabLock, trigger, counted, uses, undone, mishaps>>
      BY <1>8, AgesDoes
    <2> QED
      BY <2>1 DEF LockStays, VocabLockHeld
  <1>9. CASE IndexCrash
    BY <1>9, CrashDoes DEF AllGone
  <1>10. CASE UNCHANGED indexState
    <2>1. UNCHANGED <<config, vector, proc, vocabLock, trigger, counted, uses, undone, mishaps>>
      BY <1>10 DEF indexState
    <2> QED
      BY <2>1 DEF Typed, VocabLockHeld, Grows, LockStays
  <1>16. CASE \E w \in Writers : BeginUpdate(w) \/ EndUpdate(w)
    <2>1. PICK w \in Writers : BeginUpdate(w) \/ EndUpdate(w)
      BY <1>16
    <2> QED
      BY <1>0, <2>1, UpdateDoes DEF LockStays, Workers
  <1> HIDE DEF P
  <1>11. CASE \E p \in Workers : MisreadConfig(p) \/ LoseWrite(p) \/ FailCall(p)
    BY <1>5, <1>6, <1>7, <1>11
  <1>12. CASE \E r \in Rebuilds : Rebuild(r) \/ UserCreatesTask(r)
    BY <1>3, <1>4, <1>12
  <1>13. CASE \E c \in Chunks : Store(c) \/ DeleteChunk(c) \/ EncodeBlank(c)
    BY <1>2, <1>13
  <1> QED
    BY <1>4, <1>8, <1>9, <1>10, <1>11, <1>12, <1>13, <1>16, Zenon DEF IndexNext, Workers

\* Nothing has happened that lets two rebuilds run.
Apart == {"raced", "misread", "overtaken"} \intersect mishaps = {} /\ "lock" \notin undone

\* Who has the lock is alone, and is not about to be joined; and it is not free.
RebuildAlone ==
  Apart => /\ \A q, r \in Rebuilds : Holding(q) /\ (Holding(r) \/ proc[r].pc = "takeWrite") => q = r
           /\ \A q \in Rebuilds : Holding(q) => config.lock # "free"

\* No step makes a second rebuild hold the lock, or frees it under the one that does.
LEMMA StepRebuildAlone ==
  ASSUME Typed, VocabLockHeld, RebuildAlone, [IndexNext]_indexState
  PROVE  RebuildAlone'
  <1>1. /\ Grows
        /\ \/ LockStays \/ AllGone
           \/ \E r \in Rebuilds : FindsFree(r) \/ Takes(r) \/ Leaves(r)
    BY LockSteps
  <1>2. SUFFICES ASSUME Apart'
                 PROVE  /\ \A q, r \in Rebuilds : Holding(q)' /\ (Holding(r)' \/ proc'[r].pc = "takeWrite") => q = r
                        /\ \A q \in Rebuilds : Holding(q)' => config'.lock # "free"
    BY DEF RebuildAlone
  <1>3. Apart
    BY <1>1, <1>2 DEF Apart, Grows
  <1>4. /\ \A q, r \in Rebuilds : Holding(q) /\ (Holding(r) \/ proc[r].pc = "takeWrite") => q = r
        /\ \A q \in Rebuilds : Holding(q) => config.lock # "free"
    BY <1>3 DEF RebuildAlone
  <1>5. CASE LockStays
    BY <1>2, <1>4, <1>5 DEF LockStays, Holding, Apart
  <1>6. CASE AllGone
    BY <1>6 DEF AllGone, Holding, HoldingPcs
  <1>7. ASSUME NEW r \in Rebuilds, FindsFree(r)
        PROVE  \A q \in Rebuilds : ~ Holding(q)'
    <2>1. \A q \in Rebuilds : ~ Holding(q)
      BY <1>2, <1>4, <1>7 DEF FindsFree, Apart
    <2> QED
      BY <1>7, <2>1 DEF FindsFree, Others, Procs, Holding, HoldingPcs
  <1>8. ASSUME NEW r \in Rebuilds, Takes(r)
        PROVE  /\ \A q \in Rebuilds \ {r} : ~ Holding(q)' /\ proc'[q].pc # "takeWrite"
               /\ config'.lock # "free"
    <2>1. \A q \in Rebuilds \ {r} : ~ Holding(q) /\ proc[q].pc # "takeWrite"
      BY <1>2, <1>4, <1>8 DEF Takes, Apart
    <2> QED
      BY <1>8, <2>1 DEF Takes, Others, Procs, Holding
  <1>9. ASSUME NEW r \in Rebuilds, Leaves(r)
        PROVE  \A q \in Rebuilds : ~ Holding(q)'
    <2>1. \A q \in Rebuilds \ {r} : ~ Holding(q)
      BY <1>4, <1>9 DEF Leaves
    <2> QED
      BY <1>9, <2>1 DEF Leaves, Others, Procs, Holding, HoldingPcs
  <1> QED
    BY <1>1, <1>5, <1>6, <1>7, <1>8, <1>9

\* No step leaves the lock set with nobody behind it.
LEMMA StepLockHasHolder ==
  ASSUME Typed, VocabLockHeld, LockHasHolder, [IndexNext]_indexState
  PROVE  LockHasHolder'
  <1>1. /\ Grows
        /\ \/ LockStays \/ AllGone
           \/ \E r \in Rebuilds : FindsFree(r) \/ Takes(r) \/ Leaves(r)
    BY LockSteps
  <1>2. SUFFICES ASSUME "kept" \notin mishaps', "lock" \notin undone', config'.lock # "free"
                 PROVE  \E r \in Rebuilds : Holding(r)'
    BY DEF LockHasHolder
  <1>3. "kept" \notin mishaps /\ "lock" \notin undone
    BY <1>1, <1>2 DEF Grows
  <1>4. config.lock # "free" => \E r \in Rebuilds : Holding(r)
    BY <1>3 DEF LockHasHolder
  <1>5. CASE LockStays
    BY <1>2, <1>4, <1>5 DEF LockStays, Holding
  <1>6. CASE AllGone
    BY <1>2, <1>6 DEF AllGone
  <1>7. ASSUME NEW r \in Rebuilds, FindsFree(r)
        PROVE  \E q \in Rebuilds : Holding(q)'
    <2>1. PICK q \in Rebuilds : Holding(q)
      BY <1>2, <1>4, <1>7 DEF FindsFree
    <2>2. q # r
      BY <1>7, <2>1 DEF FindsFree, Holding, HoldingPcs
    <2> QED
      BY <1>7, <2>1, <2>2 DEF FindsFree, Others, Procs, Holding
  <1>8. ASSUME NEW r \in Rebuilds, Takes(r)
        PROVE  Holding(r)'
    BY <1>8 DEF Takes, Holding, HoldingPcs
  <1>9. ASSUME NEW r \in Rebuilds, Leaves(r)
        PROVE  FALSE
    BY <1>2, <1>9 DEF Leaves
  <1> QED
    BY <1>1, <1>5, <1>6, <1>7, <1>8, <1>9

----------------------------------------------------------------------------
\* The counter and the changes counted.

\* Where a rebuild has scrolled and not yet updated the counter.
CountPcs == {"vectors", "save", "saveWrite", "count", "countWrite", "reset", "resetWrite"}

\* What the counter has gained since the scroll is what has been counted since.
Counting ==
  Apart /\ "counter" \notin undone =>
    \A r \in Rebuilds : proc[r].pc \in CountPcs =>
      config.counter + proc[r].mark = counted["bumped"] + proc[r].had

\* No rebuild scrolls, none updates the counter.
CountStays ==
  /\ \A r \in Rebuilds : proc'[r].pc \in CountPcs =>
       proc[r].pc \in CountPcs /\ proc'[r].had = proc[r].had /\ proc'[r].mark = proc[r].mark
  /\ "counter" \notin undone' =>
       config'.counter + counted["bumped"] = config.counter + counted'["bumped"]
  /\ counted'["handled"] = counted["handled"]

\* One scrolls; one takes off the counter what it has dealt with.
Marks(r) ==
  /\ Others(r) /\ proc'[r].had = config.counter /\ proc'[r].mark = counted["bumped"]
  /\ UNCHANGED <<config, counted>>

TakesOff(r) ==
  /\ Others(r) /\ proc[r].pc \in {"countWrite", "resetWrite"} /\ proc'[r].pc = "release"
  /\ counted'["bumped"] = counted["bumped"] /\ counted'["handled"] >= proc[r].mark
  /\ \/ "forgotten" \in mishaps' \/ "counter" \in undone'
     \/ counted["bumped"] <= proc[r].mark
     \/ config'.counter + proc[r].had >= config.counter

\* Every step is one of these for the counter.
LEMMA CountSteps ==
  ASSUME Typed, VocabLockHeld, [IndexNext]_indexState
  PROVE  CountStays \/ \E r \in Rebuilds : Marks(r) \/ TakesOff(r)
  <1> DEFINE P == CountStays \/ \E r \in Rebuilds : Marks(r) \/ TakesOff(r)
  <1> SUFFICES P
    OBVIOUS
  <1>0. /\ Chunks \subseteq Procs /\ Rebuilds \subseteq Procs /\ Workers \subseteq Procs
        /\ Chunks \intersect Rebuilds = {} /\ Writers \intersect Workers = {}
        /\ config.counter \in Nat /\ counted["bumped"] \in Nat
    BY ChunksAssumption DEF Procs, Workers, Typed, Configs
  \* A step of rebuild r with these effects.
  <1>1. ASSUME NEW r \in Rebuilds, Others(r), counted' = counted,
               "counter" \notin undone' => config'.counter = config.counter,
               \/ proc'[r].pc \notin CountPcs
               \/ proc[r].pc \in CountPcs /\ proc'[r].had = proc[r].had /\ proc'[r].mark = proc[r].mark
        PROVE  CountStays
    BY <1>0, <1>1 DEF CountStays, Others
  <1>2. ASSUME NEW c \in Chunks, Store(c) \/ DeleteChunk(c) \/ EncodeBlank(c)
        PROVE  CountStays
    <2>1. /\ \A r \in Rebuilds : \/ proc'[r] = proc[r]
                                 \/ proc[r].pc = "unused" /\ proc'[r].pc = "acquire"
          /\ "counter" \notin undone' =>
               config'.counter + counted["bumped"] = config.counter + counted'["bumped"]
          /\ counted'["handled"] = counted["handled"]
      BY <1>2, ThreadSteps
    <2> QED
      BY <2>1 DEF CountStays, CountPcs
  <1>3. ASSUME NEW r \in Rebuilds, Rebuild(r)
        PROVE  P
    <2> USE <1>0, <1>3
    <2>1. CASE Acquire(r)
      BY <1>1, <2>1, AcquireDoes DEF CountPcs
    <2>2. CASE AcquireTimesOut(r)
      BY <1>1, <2>2, TimesOutDoes DEF CountPcs
    <2>3. CASE TakeLock(r)
      BY <1>1, <2>3, TakeLockDoes DEF CountPcs
    <2>4. CASE Scroll(r)
      BY <2>4, ScrollDoes DEF Marks
    <2>5. CASE WriteVectors(r)
      BY <1>1, <2>5, WriteVectorsDoes DEF CountPcs
    <2>6. CASE FailVectors(r)
      BY <1>1, <2>6, FailVectorsDoes DEF CountPcs
    <2>7. CASE \/ ReadConfig(r, "save", "saveWrite") \/ ReadConfig(r, "count", "countWrite")
               \/ ReadConfig(r, "reset", "resetWrite") \/ ReadConfig(r, "release", "releaseWrite")
               \/ ReadConfig(r, "abandon", "abandonWrite")
      <3>1. PICK from, to : /\ ReadConfig(r, from, to)
                            /\ <<from, to>> \in {<<"save", "saveWrite">>, <<"count", "countWrite">>,
                                                 <<"reset", "resetWrite">>, <<"release", "releaseWrite">>,
                                                 <<"abandon", "abandonWrite">>}
        BY <2>7
      <3>2. from \in CountPcs \/ to \notin CountPcs
        BY <3>1 DEF CountPcs
      <3> QED
        BY <1>1, <3>1, <3>2, RebuildReads
    <2>8. CASE SaveRebuilt(r)
      BY <1>1, <2>8, SaveRebuiltDoes DEF CountPcs
    <2>9. CASE CountRebuilt(r) \/ ResetCount(r)
      BY <2>9, CountDoes DEF TakesOff
    <2>10. CASE ReleaseLock(r)
      BY <1>1, <2>10, ReleaseLockDoes DEF CountPcs
    <2>11. CASE Recheck(r) \/ Fail(r)
      BY <1>1, <2>11, EndDoes DEF CountPcs
    <2> QED
      BY <2>1, <2>2, <2>3, <2>4, <2>5, <2>6, <2>7, <2>8, <2>9, <2>10, <2>11 DEF Rebuild
  <1>4. CASE UserSchedules \/ \E r \in Rebuilds : UserCreatesTask(r)
    BY <1>0, <1>4, UserDoes DEF CountStays, CountPcs
  <1>5. ASSUME NEW p \in Workers, MisreadConfig(p)
        PROVE  CountStays
    <2>1. /\ Others(p) /\ <<proc[p].pc, proc'[p].pc>> \in Updates
          /\ proc'[p].had = proc[p].had /\ proc'[p].mark = proc[p].mark
          /\ UNCHANGED <<config, vector, vocabLock, trigger, counted, undone>>
      BY <1>5, MisreadDoes
    <2>2. proc'[p].pc \in CountPcs => proc[p].pc \in CountPcs
      BY <2>1 DEF Updates, CountPcs
    <2> QED
      BY <1>0, <2>1, <2>2 DEF CountStays, Others
  <1>6. ASSUME NEW p \in Workers, LoseWrite(p)
        PROVE  CountStays
    <2>1. /\ Others(p) /\ UNCHANGED <<config, vector, trigger, counted, undone>>
          /\ \/ p \in Chunks
             \/ /\ p \in Rebuilds /\ proc[p].pc = "saveWrite" /\ proc'[p].pc = "count"
                /\ proc'[p].had = proc[p].had /\ proc'[p].mark = proc[p].mark
             \/ p \in Rebuilds /\ proc'[p].pc \in {"failed", "recheck"}
      BY <1>6, LoseDoes
    <2> QED
      BY <1>0, <2>1 DEF CountStays, Others, CountPcs
  <1>7. ASSUME NEW p \in Workers, FailCall(p)
        PROVE  CountStays
    <2>1. /\ Others(p) /\ UNCHANGED <<config, vector, vocabLock, trigger, counted, undone, mishaps>>
          /\ \/ p \in Chunks
             \/ p \in Rebuilds /\ proc'[p].pc \in {"failed", "abandon"}
      BY <1>7, FailCallDoes
    <2> QED
      BY <1>0, <2>1 DEF CountStays, Others, CountPcs
  <1>8. CASE LockAges
    BY <1>0, <1>8, AgesDoes DEF CountStays
  <1>9. CASE IndexCrash
    BY <1>0, <1>9, CrashDoes DEF CountStays, CountPcs
  <1>10. CASE UNCHANGED indexState
    BY <1>10 DEF indexState, CountStays
  <1>15. CASE \E w \in Writers : BeginUpdate(w) \/ EndUpdate(w)
    <2>1. PICK w \in Writers : BeginUpdate(w) \/ EndUpdate(w)
      BY <1>15
    <2> QED
      BY <1>0, <2>1, UpdateDoes DEF CountStays, Workers
  <1> HIDE DEF P
  <1>11. CASE \E p \in Workers : MisreadConfig(p) \/ LoseWrite(p) \/ FailCall(p)
    BY <1>5, <1>6, <1>7, <1>11 DEF P
  <1>12. CASE \E c \in Chunks : Store(c) \/ DeleteChunk(c) \/ EncodeBlank(c)
    BY <1>2, <1>12 DEF P
  <1>13. CASE UserSchedules \/ LockAges \/ IndexCrash \/ UNCHANGED indexState
    BY <1>4, <1>8, <1>9, <1>10, <1>13 DEF P
  <1>14. CASE \E r \in Rebuilds : Rebuild(r) \/ UserCreatesTask(r)
    <2>1. CASE \E r \in Rebuilds : UserCreatesTask(r)
      BY <1>4, <2>1 DEF P
    <2> QED
      BY <1>3, <1>14, <2>1
  <1> QED
    BY <1>11, <1>12, <1>13, <1>14, <1>15, Zenon DEF IndexNext, Workers

\* No step but the end of a rebuild changes how far the counter is from its scroll.
LEMMA StepCounting ==
  ASSUME Typed, VocabLockHeld, RebuildAlone, Counting, [IndexNext]_indexState
  PROVE  Counting'
  <1>1. /\ Grows /\ Typed'
        /\ CountStays \/ \E r \in Rebuilds : Marks(r) \/ TakesOff(r)
    BY LockSteps, CountSteps
  <1>2. SUFFICES ASSUME Apart', "counter" \notin undone', NEW r \in Rebuilds, proc'[r].pc \in CountPcs
                 PROVE  config'.counter + proc'[r].mark = counted'["bumped"] + proc'[r].had
    BY DEF Counting
  <1>3. Apart /\ "counter" \notin undone
    BY <1>1, <1>2 DEF Apart, Grows
  <1>4. proc[r].pc \in CountPcs => config.counter + proc[r].mark = counted["bumped"] + proc[r].had
    BY <1>3 DEF Counting
  <1>5. /\ config.counter \in Nat /\ counted["bumped"] \in Nat /\ config'.counter \in Nat
        /\ counted'["bumped"] \in Nat /\ proc[r].had \in Nat /\ proc[r].mark \in Nat
        /\ r \in Procs
    BY <1>1 DEF Typed, Configs, ProcStates, Procs
  <1>6. CASE CountStays
    <2>1. /\ proc[r].pc \in CountPcs /\ proc'[r].had = proc[r].had /\ proc'[r].mark = proc[r].mark
          /\ config'.counter + counted["bumped"] = config.counter + counted'["bumped"]
      BY <1>2, <1>6 DEF CountStays
    <2> QED
      BY <1>4, <1>5, <2>1
  <1>7. ASSUME NEW q \in Rebuilds, Marks(q)
        PROVE  config'.counter + proc'[r].mark = counted'["bumped"] + proc'[r].had
    <2>1. CASE q = r
      BY <1>5, <1>7, <2>1 DEF Marks
    <2>2. CASE q # r
      <3>1. proc'[r] = proc[r] /\ config' = config /\ counted' = counted
        BY <1>5, <1>7, <2>2 DEF Marks, Others
      <3> QED
        BY <1>2, <1>4, <3>1
    <2> QED
      BY <2>1, <2>2
  <1>8. ASSUME NEW q \in Rebuilds, TakesOff(q)
        PROVE  FALSE
    <2>1. q # r
      BY <1>2, <1>8 DEF TakesOff, CountPcs
    <2>2. proc[r].pc \in CountPcs
      BY <1>2, <1>5, <1>8, <2>1 DEF TakesOff, Others
    <2>3. Holding(q) /\ Holding(r)
      BY <1>8, <2>2 DEF TakesOff, Holding, HoldingPcs, CountPcs
    <2> QED
      BY <1>3, <2>1, <2>3 DEF RebuildAlone
  <1> QED
    BY <1>1, <1>6, <1>7, <1>8

\* No step takes more off the counter than a rebuild has dealt with.
LEMMA StepCounterCovers ==
  ASSUME Typed, VocabLockHeld, Counting, CounterCoversChanges, [IndexNext]_indexState
  PROVE  CounterCoversChanges'
  <1>1. /\ Grows /\ Typed'
        /\ CountStays \/ \E r \in Rebuilds : Marks(r) \/ TakesOff(r)
    BY LockSteps, CountSteps
  <1>2. SUFFICES ASSUME {"forgotten", "raced", "misread", "overtaken"} \intersect mishaps' = {},
                        {"counter", "lock"} \intersect undone' = {}
                 PROVE  config'.counter + counted'["handled"] >= counted'["bumped"]
    BY DEF CounterCoversChanges
  <1>3. /\ Apart /\ "counter" \notin undone'
        /\ {"forgotten", "raced", "misread", "overtaken"} \intersect mishaps = {}
        /\ {"counter", "lock"} \intersect undone = {}
    BY <1>1, <1>2 DEF Apart, Grows
  <1>4. config.counter + counted["handled"] >= counted["bumped"]
    BY <1>3 DEF CounterCoversChanges
  <1>5. /\ config.counter \in Nat /\ counted["bumped"] \in Nat /\ counted["handled"] \in Nat
        /\ config'.counter \in Nat /\ counted'["bumped"] \in Nat /\ counted'["handled"] \in Nat
    BY <1>1 DEF Typed, Configs
  <1>6. CASE CountStays
    BY <1>3, <1>4, <1>5, <1>6 DEF CountStays
  <1>7. ASSUME NEW r \in Rebuilds, Marks(r)
        PROVE  config'.counter + counted'["handled"] >= counted'["bumped"]
    BY <1>4, <1>7 DEF Marks
  <1>8. ASSUME NEW r \in Rebuilds, TakesOff(r)
        PROVE  config'.counter + counted'["handled"] >= counted'["bumped"]
    <2>1. config.counter + proc[r].mark = counted["bumped"] + proc[r].had
      BY <1>3, <1>8 DEF Counting, TakesOff, CountPcs
    <2>2. \/ counted["bumped"] <= proc[r].mark
          \/ config'.counter + proc[r].had >= config.counter
      BY <1>2, <1>3, <1>8 DEF TakesOff
    <2>3. proc[r].mark \in Nat /\ proc[r].had \in Nat
      BY DEF Typed, ProcStates, Procs
    <2>4. counted'["bumped"] = counted["bumped"] /\ counted'["handled"] >= proc[r].mark
      BY <1>8 DEF TakesOff
    <2> QED
      BY <1>5, <2>1, <2>2, <2>3, <2>4
  <1> QED
    BY <1>1, <1>6, <1>7, <1>8

----------------------------------------------------------------------------
\* The vectors and the vocabulary.

\* Nothing has happened that lets a vector miss the vocabulary.
Matching ==
  Apart /\ "vocab" \notin undone /\ {"crossed", "halfway", "blank", "unsaved"} \intersect mishaps = {}

\* No text is encoded across a rebuild.
NoneCrosses == \A c \in Chunks, r \in Rebuilds : ~ (Encoding(c) /\ Rebuilding(r))

\* Who is in the vocabulary lock has what the collection has, and its own term.
EncodesCurrent ==
  \A c \in Chunks : proc[c].pc \in {"encoded", "saveVocab"} =>
    proc[c].terms = WithTerm(config.vocab, c)

\* Who has left it finds its term in the collection's vocabulary, by the same id.
StoresCurrent ==
  \A c \in Chunks : proc[c].pc = "store" =>
    c \in Range(config.vocab) /\ IdIn(proc[c].terms, c) = IdIn(config.vocab, c)

\* A rebuild has the terms of all chunks; once it has written, all have its ids.
ScrolledAll == \A r \in Rebuilds : Rebuilding(r) => Points \subseteq Range(proc[r].terms)

Rewritten ==
  \A r \in Rebuilds : proc[r].pc \in {"save", "saveWrite"} =>
    \A c \in Points : vector[c] = IdIn(proc[r].terms, c)

\* The vectors fit, or a rebuild is about to save what they fit.
Fits ==
  \/ \A c \in Points : c \in Range(config.vocab) /\ vector[c] = IdIn(config.vocab, c)
  \/ \E r \in Rebuilds : proc[r].pc \in {"save", "saveWrite"}

Fitting ==
  Matching => /\ NoneCrosses /\ EncodesCurrent /\ StoresCurrent
              /\ ScrolledAll /\ Rewritten /\ Fits

\* No text is encoded or stored, no rebuild scrolls, writes or saves.
FitStays ==
  /\ vector' = vector
  /\ "vocab" \notin undone' => config'.vocab = config.vocab
  /\ \A c \in Chunks :
       /\ proc'[c].pc \in {"encoded", "saveVocab"} =>
            proc[c].pc \in {"encoded", "saveVocab"} /\ proc'[c].terms = proc[c].terms
       /\ proc'[c].pc = "store" => proc[c].pc = "store" /\ proc'[c].terms = proc[c].terms
  /\ \A r \in Rebuilds :
       /\ proc'[r].pc = "vectors" => proc[r].pc = "vectors" /\ proc'[r].terms = proc[r].terms
       /\ proc'[r].pc \in {"save", "saveWrite"} =>
            proc[r].pc \in {"save", "saveWrite"} /\ proc'[r].terms = proc[r].terms
       /\ proc[r].pc \in {"save", "saveWrite"} => proc'[r].pc \in {"save", "saveWrite"}

\* Every step but these leaves vectors and vocabulary alone, or is named.
LEMMA FitSteps ==
  ASSUME Typed, VocabLockHeld, [IndexNext]_indexState
  PROVE  \/ FitStays \/ ~ Matching' \/ IndexCrash
         \/ \E c \in Chunks : Encode(c) \/ SaveVocab(c) \/ StoreChunk(c) \/ DeleteChunk(c)
         \/ \E r \in Rebuilds : Scroll(r) \/ WriteVectors(r) \/ SaveRebuilt(r)
  <1> DEFINE P == \/ FitStays \/ ~ Matching' \/ IndexCrash
                  \/ \E c \in Chunks : Encode(c) \/ SaveVocab(c) \/ StoreChunk(c) \/ DeleteChunk(c)
                  \/ \E r \in Rebuilds : Scroll(r) \/ WriteVectors(r) \/ SaveRebuilt(r)
  <1> SUFFICES P
    OBVIOUS
  <1>0. Chunks \subseteq Procs /\ Rebuilds \subseteq Procs /\ Workers \subseteq Procs
        /\ Chunks \intersect Rebuilds = {} /\ Writers \intersect Workers = {}
    BY ChunksAssumption DEF Procs, Workers
  \* A step of thread or task p with these effects.
  <1>1. ASSUME NEW p \in Procs, Others(p), vector' = vector,
               "vocab" \notin undone' => config'.vocab = config.vocab,
               \/ p \in Chunks /\ proc'[p].pc \notin EncodingPcs
               \/ /\ p \in Rebuilds
                  /\ {proc[p].pc, proc'[p].pc} \intersect {"vectors", "save", "saveWrite"} = {}
               \/ /\ proc'[p].terms = proc[p].terms
                  /\ <<proc[p].pc, proc'[p].pc>> \in {<<"encoded", "saveVocab">>, <<"save", "saveWrite">>}
        PROVE  FitStays
    BY <1>0, <1>1 DEF FitStays, Others, EncodingPcs
  <1>2. ASSUME NEW c \in Chunks, EncodeBlank(c)
        PROVE  P
    <2>1. "blank" \in mishaps'
      BY <1>2 DEF EncodeBlank, Note
    <2> QED
      BY <2>1 DEF Matching
  <1>3. ASSUME NEW c \in Chunks, Store(c)
        PROVE  P
    <2>1. CASE ReadConfig(c, "encoded", "saveVocab") \/ ReadConfig(c, "bump", "bumpWrite")
      <3>1. PICK from, to : /\ ReadConfig(c, from, to)
                            /\ <<from, to>> \in {<<"encoded", "saveVocab">>, <<"bump", "bumpWrite">>}
        BY <2>1
      <3>2. /\ to \in StorePcs \union RebuildPcs
            /\ c \in Chunks => to \in StorePcs /\ (to \in EncodingPcs => from \in EncodingPcs)
        BY <3>1 DEF StorePcs, EncodingPcs
      <3>3. /\ proc[c].pc = from /\ proc'[c].pc = to /\ proc'[c].terms = proc[c].terms
            /\ \A q \in Procs \ {c} : proc'[q] = proc[q]
            /\ UNCHANGED <<config, vector>>
        BY <1>0, ChunksAssumption, <3>1, <3>2, ConfigRead
      <3>4. FitStays
        BY <1>0, <1>1, <3>1, <3>3 DEF Others, EncodingPcs
      <3> QED
        BY <3>4
    <2>2. CASE BumpCounter(c)
      BY <1>0, <1>1, <2>2, BumpDoes
    <2>3. CASE Schedule(c)
      BY <1>0, <1>1, <2>3, ScheduleDoes
    <2>4. ASSUME NEW r \in Rebuilds, CreateTask(c, r)
          PROVE  FitStays
      <3>1. /\ \A q \in Procs \ {c, r} : proc'[q] = proc[q]
            /\ proc'[c].pc \notin EncodingPcs
            /\ proc[r].pc = "unused" /\ proc'[r].pc = "acquire"
            /\ UNCHANGED <<config, vector, vocabLock, trigger, counted, uses, undone, mishaps>>
        BY <2>4, CreateTaskDoes
      <3> QED
        BY <1>0, <3>1 DEF FitStays, EncodingPcs
    <2> QED
      BY <1>3, <2>1, <2>2, <2>3, <2>4 DEF Store
  <1>4. ASSUME NEW r \in Rebuilds, Rebuild(r)
        PROVE  P
    <2> USE <1>0, <1>4
    <2>1. CASE Acquire(r)
      BY <1>1, <2>1, AcquireDoes
    <2>2. CASE AcquireTimesOut(r)
      BY <1>1, <2>2, TimesOutDoes
    <2>3. CASE TakeLock(r)
      BY <1>1, <2>3, TakeLockDoes
    <2>4. CASE FailVectors(r)
      <3>1. /\ Others(r) /\ proc[r].pc = "vectors" /\ proc'[r].pc = "abandon"
            /\ "halfway" \in mishaps' \/ vector' = vector
            /\ UNCHANGED <<config, vocabLock, trigger, counted, uses, undone>>
        BY <2>4, FailVectorsDoes
      <3>2. CASE "halfway" \in mishaps'
        BY <3>2 DEF Matching
      <3>3. CASE vector' = vector
        BY <3>1, <3>3 DEF FitStays, Others
      <3> QED
        BY <3>1, <3>2, <3>3
    <2>5. CASE \/ ReadConfig(r, "save", "saveWrite") \/ ReadConfig(r, "count", "countWrite")
               \/ ReadConfig(r, "reset", "resetWrite") \/ ReadConfig(r, "release", "releaseWrite")
               \/ ReadConfig(r, "abandon", "abandonWrite")
      <3>1. PICK from, to : /\ ReadConfig(r, from, to)
                            /\ <<from, to>> \in {<<"save", "saveWrite">>, <<"count", "countWrite">>,
                                                 <<"reset", "resetWrite">>, <<"release", "releaseWrite">>,
                                                 <<"abandon", "abandonWrite">>}
        BY <2>5
      <3>2. /\ Others(r) /\ proc[r].pc = from /\ proc'[r].pc = to /\ proc'[r].terms = proc[r].terms
            /\ UNCHANGED <<config, vector, vocabLock, trigger, counted, uses, undone, mishaps>>
        BY <3>1, RebuildReads
      <3> QED
        BY <1>1, <3>1, <3>2
    <2>6. CASE CountRebuilt(r) \/ ResetCount(r)
      BY <1>1, <2>6, CountDoes
    <2>7. CASE ReleaseLock(r)
      BY <1>1, <2>7, ReleaseLockDoes
    <2>8. CASE Recheck(r) \/ Fail(r)
      BY <1>1, <2>8, EndDoes
    <2> QED
      BY <2>1, <2>2, <2>3, <2>4, <2>5, <2>6, <2>7, <2>8 DEF Rebuild
  <1>5. CASE UserSchedules \/ \E r \in Rebuilds : UserCreatesTask(r)
    <2>1. FitStays
      BY <1>0, <1>5, UserDoes DEF FitStays
    <2> QED
      BY <2>1
  <1>6. ASSUME NEW p \in Workers, MisreadConfig(p)
        PROVE  FitStays
    <2>1. /\ Typed' /\ Others(p) /\ <<proc[p].pc, proc'[p].pc>> \in Updates
          /\ proc'[p].terms = proc[p].terms
          /\ UNCHANGED <<config, vector, vocabLock, trigger, counted, undone>>
      BY <1>6, MisreadDoes
    <2>2. \/ <<proc[p].pc, proc'[p].pc>> \in {<<"encoded", "saveVocab">>, <<"save", "saveWrite">>}
          \/ /\ {proc[p].pc, proc'[p].pc} \intersect {"vectors", "save", "saveWrite"} = {}
             /\ proc'[p].pc \notin EncodingPcs
      BY <2>1 DEF Updates, EncodingPcs
    <2> QED
      BY <1>0, <1>1, <2>1, <2>2 DEF Procs
  <1>7. ASSUME NEW p \in Workers, LoseWrite(p)
        PROVE  P
    <2>1. /\ Others(p) /\ UNCHANGED <<config, vector, trigger, counted, undone>>
          /\ \/ "unsaved" \in mishaps'
             \/ /\ p \in Rebuilds /\ proc[p].pc \in {"releaseWrite", "abandonWrite"}
                /\ proc'[p].pc \in {"failed", "recheck"}
      BY <1>7, LoseDoes
    <2>2. CASE "unsaved" \in mishaps'
      BY <2>2 DEF Matching
    <2>3. CASE "unsaved" \notin mishaps'
      BY <1>0, <1>1, <2>1, <2>3
    <2> QED
      BY <2>2, <2>3
  <1>8. ASSUME NEW p \in Workers, FailCall(p)
        PROVE  FitStays
    <2>1. /\ Others(p) /\ UNCHANGED <<config, vector, vocabLock, trigger, counted, undone, mishaps>>
          /\ \/ p \in Chunks /\ proc'[p].pc \notin EncodingPcs
             \/ /\ p \in Rebuilds /\ proc[p].pc \in {"takeWrite", "scroll", "countWrite", "resetWrite"}
                /\ proc'[p].pc \in {"failed", "abandon"}
      BY <1>8, FailCallDoes
    <2> QED
      BY <1>0, <1>1, <2>1
  <1>9. CASE LockAges
    <2>1. FitStays
      BY <1>9, AgesDoes DEF FitStays
    <2> QED
      BY <2>1
  <1>10. CASE UNCHANGED indexState
    <2>1. FitStays
      BY <1>10 DEF indexState, FitStays
    <2> QED
      BY <2>1
  <1>11. CASE \E c \in Chunks : DeleteChunk(c)
    BY <1>11
  <1>12. CASE IndexCrash
    BY <1>12
  <1>16. CASE \E w \in Writers : BeginUpdate(w) \/ EndUpdate(w)
    <2>1. PICK w \in Writers : BeginUpdate(w) \/ EndUpdate(w)
      BY <1>16
    <2>2. FitStays
      BY <1>0, <2>1, UpdateDoes DEF FitStays, Workers
    <2> QED
      BY <2>2
  <1> HIDE DEF P
  <1>13. CASE \E p \in Workers : MisreadConfig(p) \/ LoseWrite(p) \/ FailCall(p)
    BY <1>6, <1>7, <1>8, <1>13 DEF P
  <1>14. CASE \E c \in Chunks : Store(c) \/ DeleteChunk(c) \/ EncodeBlank(c)
    BY <1>2, <1>3, <1>11, <1>14
  <1>15. CASE \E r \in Rebuilds : Rebuild(r) \/ UserCreatesTask(r)
    BY <1>4, <1>5, <1>15
  <1> QED
    BY <1>5, <1>9, <1>10, <1>12, <1>13, <1>14, <1>15, <1>16, Zenon DEF IndexNext, Workers

\* No step makes a vector miss the vocabulary.
LEMMA StepFitting ==
  ASSUME Typed, VocabLockHeld, RebuildAlone, Fitting, [IndexNext]_indexState
  PROVE  Fitting'
  <1>1. Grows /\ Typed' /\ VocabLockHeld'
    BY LockSteps
  <1>2. SUFFICES ASSUME Matching'
                 PROVE  /\ NoneCrosses' /\ EncodesCurrent' /\ StoresCurrent'
                        /\ ScrolledAll' /\ Rewritten' /\ Fits'
    BY DEF Fitting
  <1>3. Matching /\ Apart /\ "vocab" \notin undone'
    BY <1>1, <1>2 DEF Matching, Apart, Grows
  <1>4. /\ NoneCrosses /\ EncodesCurrent /\ StoresCurrent
        /\ ScrolledAll /\ Rewritten /\ Fits
    BY <1>3 DEF Fitting
  <1>5. /\ Chunks \subseteq Procs /\ Rebuilds \subseteq Procs /\ Workers \subseteq Procs
        /\ Chunks \intersect Rebuilds = {} /\ Writers \intersect Workers = {}
        /\ config.vocab \in Vocabularies
        /\ vector \in [Chunks -> 0..Cardinality(Chunks)]
        /\ \A p \in Procs : proc[p].terms \in Vocabularies
        /\ \A c \in Chunks : proc[c].pc \in EncodingPcs => c \in Range(proc[c].terms)
    BY ChunksAssumption DEF Procs, Workers, Typed, Configs, ProcStates, Sound
  <1>6. \A q, r \in Rebuilds : Holding(q) /\ Holding(r) => q = r
    BY <1>3 DEF RebuildAlone
  <1>7. CASE FitStays
    <2>1. config'.vocab = config.vocab /\ vector' = vector /\ Points' = Points
      BY <1>3, <1>7 DEF FitStays, Points
    <2>2. NoneCrosses'
      BY <1>4, <1>7 DEF FitStays, NoneCrosses, Encoding, Rebuilding
    <2>3. EncodesCurrent' /\ StoresCurrent'
      BY <1>4, <1>7, <2>1 DEF FitStays, EncodesCurrent, StoresCurrent
    <2>4. ScrolledAll'
      BY <1>4, <1>7, <2>1 DEF FitStays, ScrolledAll, Rebuilding
    <2>5. Rewritten'
      BY <1>4, <1>7, <2>1 DEF FitStays, Rewritten
    <2>6. Fits'
      BY <1>4, <1>7, <2>1 DEF FitStays, Fits
    <2> QED
      BY <2>2, <2>3, <2>4, <2>5, <2>6
  <1>8. CASE IndexCrash
    <2>1. /\ \A r \in Rebuilds : proc'[r].pc = "unused"
          /\ \A c \in Chunks : proc'[c].pc \notin EncodingPcs
          /\ config'.vocab = config.vocab /\ vector' = vector
          /\ \A r \in Rebuilds : proc[r].pc \notin {"save", "saveWrite"}
      BY <1>2, <1>8, CrashDoes DEF Matching
    <2>2. NoneCrosses' /\ EncodesCurrent' /\ StoresCurrent' /\ ScrolledAll' /\ Rewritten'
      BY <2>1 DEF NoneCrosses, EncodesCurrent, StoresCurrent, ScrolledAll, Rewritten,
                  Rebuilding, EncodingPcs
    <2>3. Fits'
      BY <1>4, <2>1 DEF Fits, Points
    <2> QED
      BY <2>2, <2>3
  \* Steps of a thread: no rebuild is between its scroll and its save.
  <1>9. ASSUME NEW c \in Chunks, Encode(c)
        PROVE  /\ NoneCrosses' /\ EncodesCurrent' /\ StoresCurrent'
               /\ ScrolledAll' /\ Rewritten' /\ Fits'
    <2>1. /\ Others(c) /\ proc'[c].pc = "encoded" /\ vocabLock = NoChunk
          /\ proc'[c].terms = WithTerm(config.vocab, c)
          /\ \A r \in Rebuilds : ~ Rebuilding(r)
          /\ config' = config /\ vector' = vector
      BY <1>2, <1>9, EncodeDoes DEF Matching
    <2>2. /\ \A r \in Rebuilds : proc'[r] = proc[r]
          /\ \A d \in Chunks \ {c} : proc'[d] = proc[d]
      BY <1>5, <2>1 DEF Others
    <2>3. NoneCrosses' /\ ScrolledAll' /\ Rewritten'
      BY <2>1, <2>2 DEF NoneCrosses, ScrolledAll, Rewritten, Rebuilding
    <2>4. EncodesCurrent' /\ StoresCurrent'
      BY <1>4, <2>1, <2>2 DEF EncodesCurrent, StoresCurrent
    <2>5. Fits'
      BY <1>4, <2>1, <2>2 DEF Fits, Points
    <2> QED
      BY <2>3, <2>4, <2>5
  <1>10. ASSUME NEW c \in Chunks, SaveVocab(c)
         PROVE  /\ NoneCrosses' /\ EncodesCurrent' /\ StoresCurrent'
                /\ ScrolledAll' /\ Rewritten' /\ Fits'
    <2>1. /\ Others(c) /\ proc[c].pc = "saveVocab" /\ proc'[c].pc = "store"
          /\ proc'[c].terms = proc[c].terms /\ config'.vocab = proc[c].terms
          /\ vocabLock = c /\ vector' = vector
      BY <1>10, SaveVocabDoes
    <2>2. /\ \A r \in Rebuilds : proc'[r] = proc[r]
          /\ \A d \in Chunks \ {c} : proc'[d] = proc[d]
      BY <1>5, <2>1 DEF Others
    <2>3. \A r \in Rebuilds : ~ Rebuilding(r)
      BY <1>4, <2>1 DEF NoneCrosses, Encoding
    <2>4. /\ c \in Range(config'.vocab) /\ Range(config.vocab) \subseteq Range(config'.vocab)
          /\ \A d \in Range(config.vocab) : IdIn(config'.vocab, d) = IdIn(config.vocab, d)
      <3>1. config'.vocab = WithTerm(config.vocab, c)
        BY <1>4, <2>1 DEF EncodesCurrent
      <3> QED
        BY <1>5, <3>1, TermAdded
    <2>5. NoneCrosses' /\ ScrolledAll' /\ Rewritten'
      BY <2>1, <2>2, <2>3 DEF NoneCrosses, ScrolledAll, Rewritten, Rebuilding
    <2>6. EncodesCurrent'
      BY <2>1, <2>2 DEF EncodesCurrent, VocabLockHeld
    <2>7. StoresCurrent'
      <3>1. ASSUME NEW d \in Chunks, proc'[d].pc = "store"
            PROVE  d \in Range(config'.vocab) /\ IdIn(proc'[d].terms, d) = IdIn(config'.vocab, d)
        <4>1. CASE d = c
          BY <2>1, <2>4, <4>1
        <4>2. CASE d # c
          BY <1>4, <2>2, <2>4, <3>1, <4>2 DEF StoresCurrent
        <4> QED
          BY <4>1, <4>2
      <3> QED
        BY <3>1 DEF StoresCurrent
    <2>8. Fits'
      <3>1. \A d \in Points : d \in Range(config.vocab) /\ vector[d] = IdIn(config.vocab, d)
        BY <1>4, <2>3 DEF Fits, Rebuilding
      <3>2. Points' = Points
        BY <2>1 DEF Points
      <3> QED
        BY <2>1, <2>4, <3>1, <3>2 DEF Fits
    <2> QED
      BY <2>5, <2>6, <2>7, <2>8
  <1>11. ASSUME NEW c \in Chunks, StoreChunk(c)
         PROVE  /\ NoneCrosses' /\ EncodesCurrent' /\ StoresCurrent'
                /\ ScrolledAll' /\ Rewritten' /\ Fits'
    <2>1. /\ Others(c) /\ proc[c].pc = "store" /\ proc'[c].pc = "bump"
          /\ vector' = [vector EXCEPT ![c] = IdIn(proc[c].terms, c)] /\ config' = config
      BY <1>11, StoreChunkDoes
    <2>2. /\ \A r \in Rebuilds : proc'[r] = proc[r]
          /\ \A d \in Chunks \ {c} : proc'[d] = proc[d]
      BY <1>5, <2>1 DEF Others
    <2>3. \A r \in Rebuilds : ~ Rebuilding(r)
      BY <1>4, <2>1 DEF NoneCrosses, Encoding
    <2>4. NoneCrosses' /\ ScrolledAll' /\ Rewritten'
      BY <2>1, <2>2, <2>3 DEF NoneCrosses, ScrolledAll, Rewritten, Rebuilding
    <2>5. EncodesCurrent' /\ StoresCurrent'
      BY <1>4, <2>1, <2>2 DEF EncodesCurrent, StoresCurrent
    <2>6. Fits'
      <3>1. \A d \in Points : d \in Range(config.vocab) /\ vector[d] = IdIn(config.vocab, d)
        BY <1>4, <2>3 DEF Fits, Rebuilding
      <3>2. c \in Range(config.vocab) /\ vector'[c] = IdIn(config.vocab, c)
        BY <1>4, <1>5, <2>1 DEF StoresCurrent
      <3>3. \A d \in Chunks \ {c} : vector'[d] = vector[d]
        BY <1>5, <2>1
      <3> QED
        BY <2>1, <3>1, <3>2, <3>3 DEF Fits, Points
    <2> QED
      BY <2>4, <2>5, <2>6
  <1>12. ASSUME NEW c \in Chunks, DeleteChunk(c)
         PROVE  /\ NoneCrosses' /\ EncodesCurrent' /\ StoresCurrent'
                /\ ScrolledAll' /\ Rewritten' /\ Fits'
    <2>1. /\ Others(c) /\ proc[c].pc = "stored" /\ proc'[c].pc = "bump"
          /\ vector' = [vector EXCEPT ![c] = 0] /\ config' = config
      BY <1>12, DeleteChunkDoes
    <2>2. /\ \A r \in Rebuilds : proc'[r] = proc[r]
          /\ \A d \in Chunks \ {c} : proc'[d] = proc[d]
      BY <1>5, <2>1 DEF Others
    <2>3. Points' \subseteq Points /\ \A d \in Points' : vector'[d] = vector[d]
      BY <1>5, <2>1 DEF Points
    <2>4. NoneCrosses'
      BY <1>4, <2>1, <2>2 DEF NoneCrosses, Encoding, Rebuilding
    <2>5. ScrolledAll'
      BY <1>4, <2>2, <2>3 DEF ScrolledAll, Rebuilding
    <2>6. Rewritten'
      BY <1>4, <2>2, <2>3 DEF Rewritten
    <2>7. EncodesCurrent' /\ StoresCurrent'
      BY <1>4, <2>1, <2>2 DEF EncodesCurrent, StoresCurrent
    <2>8. Fits'
      BY <1>4, <2>1, <2>2, <2>3 DEF Fits
    <2> QED
      BY <2>4, <2>5, <2>6, <2>7, <2>8
  \* Steps of a rebuild: no text is being encoded, and no other rebuild runs.
  <1>13. ASSUME NEW r \in Rebuilds, Others(r)
         PROVE  /\ \A c \in Chunks : proc'[c] = proc[c]
                /\ \A q \in Rebuilds \ {r} : proc'[q] = proc[q]
    BY <1>5, <1>13 DEF Others
  <1>14. ASSUME NEW r \in Rebuilds, Scroll(r)
         PROVE  /\ NoneCrosses' /\ EncodesCurrent' /\ StoresCurrent'
                /\ ScrolledAll' /\ Rewritten' /\ Fits'
    <2>1. /\ Others(r) /\ proc[r].pc = "scroll" /\ proc'[r].pc \in {"vectors", "reset"}
          /\ Points \subseteq Range(proc'[r].terms)
          /\ \A c \in Chunks : ~ Encoding(c)
          /\ config' = config /\ vector' = vector
      BY <1>2, <1>14, ScrollDoes DEF Matching
    <2>2. Points' = Points
      BY <2>1 DEF Points
    <2>3. NoneCrosses' /\ EncodesCurrent' /\ StoresCurrent'
      BY <1>13, <2>1 DEF NoneCrosses, EncodesCurrent, StoresCurrent, Encoding
    <2>4. ScrolledAll' /\ Rewritten'
      BY <1>4, <1>13, <2>1, <2>2 DEF ScrolledAll, Rewritten, Rebuilding
    <2>5. Fits'
      BY <1>4, <1>13, <2>1, <2>2 DEF Fits
    <2> QED
      BY <2>3, <2>4, <2>5
  <1>15. ASSUME NEW r \in Rebuilds, Rebuilding(r), NEW q \in Rebuilds \ {r}
         PROVE  ~ Rebuilding(q)
    BY <1>6, <1>15 DEF Rebuilding, Holding, HoldingPcs
  <1>16. ASSUME NEW r \in Rebuilds, WriteVectors(r)
         PROVE  /\ NoneCrosses' /\ EncodesCurrent' /\ StoresCurrent'
                /\ ScrolledAll' /\ Rewritten' /\ Fits'
    <2>1. /\ Others(r) /\ proc[r].pc = "vectors" /\ proc'[r].pc = "save" /\ proc'[r].terms = proc[r].terms
          /\ Range(proc[r].terms) \subseteq Points
          /\ vector' = [c \in Chunks |-> IF c \in Range(proc[r].terms)
                                         THEN IdIn(proc[r].terms, c) ELSE vector[c]]
          /\ config' = config
      BY <1>16, WriteVectorsDoes
    <2>2. /\ Rebuilding(r)
          /\ \A c \in Chunks : ~ Encoding(c)
          /\ Range(proc[r].terms) = Points
      BY <1>4, <2>1 DEF Rebuilding, NoneCrosses, ScrolledAll
    <2>3. Points' = Points /\ \A c \in Points : vector'[c] = IdIn(proc[r].terms, c)
      <3>1. proc[r].terms \in Vocabularies
        BY <1>5
      <3>2. \A c \in Points : IdIn(proc[r].terms, c) \in 1..Len(proc[r].terms)
        BY <2>2, <3>1, VocabularyShape
      <3>3. \A c \in Points : IdIn(proc[r].terms, c) # 0
        BY <3>1, <3>2, VocabularyShape
      <3>4. \A c \in Chunks : vector'[c] = IF c \in Points THEN IdIn(proc[r].terms, c) ELSE vector[c]
        BY <2>1, <2>2
      <3> QED
        BY <3>3, <3>4 DEF Points
    <2>4. \A q \in Rebuilds \ {r} : proc'[q] = proc[q] /\ ~ Rebuilding(q)
      BY <1>13, <1>15, <2>1, <2>2
    <2>5. NoneCrosses' /\ EncodesCurrent' /\ StoresCurrent'
      BY <1>13, <2>1, <2>2 DEF NoneCrosses, EncodesCurrent, StoresCurrent, Encoding
    <2>6. ScrolledAll' /\ Rewritten'
      BY <2>1, <2>2, <2>3, <2>4 DEF ScrolledAll, Rewritten, Rebuilding
    <2>7. Fits'
      BY <2>1 DEF Fits
    <2> QED
      BY <2>5, <2>6, <2>7
  <1>17. ASSUME NEW r \in Rebuilds, SaveRebuilt(r)
         PROVE  /\ NoneCrosses' /\ EncodesCurrent' /\ StoresCurrent'
                /\ ScrolledAll' /\ Rewritten' /\ Fits'
    <2>1. /\ Others(r) /\ proc[r].pc = "saveWrite" /\ proc'[r].pc = "count"
          /\ config'.vocab = proc[r].terms /\ vector' = vector
      BY <1>17, SaveRebuiltDoes
    <2>2. /\ Rebuilding(r) /\ \A c \in Chunks : ~ Encoding(c)
          /\ Points' = Points
          /\ Points \subseteq Range(proc[r].terms) /\ \A c \in Points : vector[c] = IdIn(proc[r].terms, c)
      BY <1>4, <2>1 DEF Rebuilding, NoneCrosses, ScrolledAll, Rewritten, Points
    <2>3. \A q \in Rebuilds \ {r} : proc'[q] = proc[q] /\ ~ Rebuilding(q)
      BY <1>13, <1>15, <2>1, <2>2
    <2>4. NoneCrosses' /\ EncodesCurrent' /\ StoresCurrent'
      BY <1>13, <2>1, <2>2 DEF NoneCrosses, EncodesCurrent, StoresCurrent, Encoding
    <2>5. ScrolledAll' /\ Rewritten'
      BY <2>1, <2>3 DEF ScrolledAll, Rewritten, Rebuilding
    <2>6. Fits'
      BY <2>1, <2>2 DEF Fits
    <2> QED
      BY <2>4, <2>5, <2>6
  <1> QED
    BY <1>2, <1>7, <1>8, <1>9, <1>10, <1>11, <1>12, <1>14, <1>16, <1>17, FitSteps

----------------------------------------------------------------------------
\* The counter and the rebuild it calls for.

\* Somebody sees to a counter at the threshold.
Attended == Active \/ \E c \in Chunks : proc[c].pc \in {"check", "create"}

\* A counter at the threshold has a rebuild, or a thread about to create one: whoever
\* leaves it there knows of somebody else, but for an update that puts an older counter
\* back and the ways named.  (The safety part of DriftIsRebuilt.)
DriftIsSeen ==
  \/ config.counter < Threshold \/ Attended
  \/ "counter" \in undone
  \/ {"gaveUp", "selfBlocked", "lostTask"} \intersect mishaps # {}

\* Whoever no longer sees to the counter has left it to a rebuild, or is named.
LEMMA StepDriftIsSeen ==
  ASSUME Typed, VocabLockHeld, DriftIsSeen, [IndexNext]_indexState
  PROVE  DriftIsSeen'
  <1>1. Grows /\ Typed'
    BY LockSteps
  <1>2. SUFFICES ASSUME config'.counter >= Threshold, "counter" \notin undone',
                        {"gaveUp", "selfBlocked", "lostTask"} \intersect mishaps' = {}
                 PROVE  Attended'
    <2>1. config'.counter \in Nat /\ Threshold \in Nat
      BY <1>1, ThresholdAssumption DEF Typed, Configs
    <2> QED
      BY <2>1 DEF DriftIsSeen, Attended
  <1>3. config.counter >= Threshold => Attended
    <2>1. config.counter \in Nat /\ Threshold \in Nat
      BY ThresholdAssumption DEF Typed, Configs
    <2> QED
      BY <1>1, <1>2, <2>1 DEF DriftIsSeen, Attended, Grows
  <1>4. Chunks \subseteq Procs /\ Rebuilds \subseteq Procs /\ Workers \subseteq Procs
        /\ Chunks \intersect Rebuilds = {} /\ Writers \intersect Workers = {}
    BY ChunksAssumption DEF Procs, Workers
  \* A step of thread or task p with these effects.
  <1>5. ASSUME NEW p \in Procs, Others(p), config'.counter = config.counter,
               proc[p].pc \notin {"check", "create"},
               p \in Rebuilds => proc[p].pc = "unused" \/ proc'[p].pc # "unused"
        PROVE  Attended'
    BY <1>2, <1>3, <1>4, <1>5 DEF Attended, Active, Others
  <1>6. ASSUME NEW r \in Rebuilds, proc'[r].pc # "unused"
        PROVE  Attended'
    BY <1>6 DEF Attended, Active
  <1>7. ASSUME NEW c \in Chunks, Store(c)
        PROVE  Attended'
    <2>1. CASE Encode(c)
      BY <1>4, <1>5, <2>1, EncodeDoes
    <2>2. CASE ReadConfig(c, "encoded", "saveVocab") \/ ReadConfig(c, "bump", "bumpWrite")
      <3>1. PICK from, to : /\ ReadConfig(c, from, to)
                            /\ <<from, to>> \in {<<"encoded", "saveVocab">>, <<"bump", "bumpWrite">>}
        BY <2>2
      <3>2. /\ to \in StorePcs \union RebuildPcs
            /\ c \in Chunks => to \in StorePcs /\ (to \in EncodingPcs => from \in EncodingPcs)
        BY <3>1 DEF StorePcs, EncodingPcs
      <3>3. proc[c].pc = from /\ Others(c) /\ config' = config
        BY <1>4, ChunksAssumption, <3>1, <3>2, ConfigRead DEF Others
      <3> QED
        BY <1>4, <1>5, <3>1, <3>3
    <2>3. CASE SaveVocab(c)
      BY <1>2, <1>4, <1>5, <2>3, SaveVocabDoes
    <2>4. CASE StoreChunk(c)
      BY <1>4, <1>5, <2>4, StoreChunkDoes
    <2>5. CASE BumpCounter(c)
      <3>1. /\ proc[c].seen.counter + 1 \in Nat
            /\ WriteConfig(c, [counter |-> proc[c].seen.counter + 1])
        BY <1>4, <2>5 DEF BumpCounter, Typed, ProcStates, Configs
      <3>2. config'.counter = proc[c].seen.counter + 1
        BY <1>4, <3>1, WritesCounter
      <3>3. proc' = [proc EXCEPT ![c] = At("check")]
        BY <1>2, <2>5, <3>2 DEF BumpCounter
      <3>4. proc'[c].pc = "check"
        BY <1>4, <3>3 DEF Typed, At
      <3> QED
        BY <3>4 DEF Attended
    <2>6. CASE Schedule(c)
      <3>1. Others(c) /\ config' = config /\ proc[c].pc = "check"
        BY <2>6, ScheduleDoes
      <3>2. CASE Active
        BY <1>4, <3>1, <3>2 DEF Active, Others, Attended
      <3>3. CASE ~ Active
        <4>1. proc'[c].pc = "create"
          BY <1>4, <2>6, <3>3 DEF Schedule, Typed, At
        <4> QED
          BY <4>1 DEF Attended
      <3> QED
        BY <3>2, <3>3
    <2>7. CASE \E r \in Rebuilds : CreateTask(c, r)
      <3>1. PICK r \in Rebuilds : proc'[r].pc = "acquire"
        BY <2>7, CreateTaskDoes
      <3> QED
        BY <1>6, <3>1
    <2> QED
      BY <1>7, <2>1, <2>2, <2>3, <2>4, <2>5, <2>6, <2>7 DEF Store
  <1>8. ASSUME NEW c \in Chunks, DeleteChunk(c) \/ EncodeBlank(c)
        PROVE  Attended'
    BY <1>4, <1>5, <1>8, DeleteChunkDoes, EncodeDoes
  <1>9. ASSUME NEW r \in Rebuilds, Rebuild(r)
        PROVE  Attended'
    <2>1. CASE Recheck(r)
      <3>1. config' = config /\ ~ (config.counter >= Threshold)
        BY <1>2, <2>1 DEF Recheck, Note
      <3> QED
        BY <1>2, <3>1
    <2>2. CASE Fail(r)
      BY <1>2, <2>2 DEF Fail, Note
    <2>3. CASE \/ ReadConfig(r, "save", "saveWrite") \/ ReadConfig(r, "count", "countWrite")
               \/ ReadConfig(r, "reset", "resetWrite") \/ ReadConfig(r, "release", "releaseWrite")
               \/ ReadConfig(r, "abandon", "abandonWrite")
      <3>1. proc'[r].pc \in {"saveWrite", "countWrite", "resetWrite", "releaseWrite", "abandonWrite"}
        BY <1>4, <2>3 DEF ReadConfig, Typed, ProcStates
      <3> QED
        BY <1>6, <3>1
    <2>4. CASE \/ Acquire(r) \/ AcquireTimesOut(r) \/ TakeLock(r)
               \/ Scroll(r) \/ WriteVectors(r) \/ FailVectors(r)
      <3>1. proc'[r].pc \in {"takeWrite", "failed", "scroll", "vectors", "reset", "save", "abandon"}
        BY <2>4, AcquireDoes, TimesOutDoes, TakeLockDoes, ScrollDoes, WriteVectorsDoes, FailVectorsDoes
      <3> QED
        BY <1>6, <3>1
    <2>5. CASE SaveRebuilt(r) \/ CountRebuilt(r) \/ ResetCount(r) \/ ReleaseLock(r)
      <3>1. proc'[r].pc \in {"count", "release", "failed", "recheck"}
        BY <2>5, SaveRebuiltDoes, CountDoes, ReleaseLockDoes
      <3> QED
        BY <1>6, <3>1
    <2> QED
      BY <1>9, <2>1, <2>2, <2>3, <2>4, <2>5 DEF Rebuild
  <1>10. ASSUME NEW r \in Rebuilds, UserCreatesTask(r)
         PROVE  Attended'
    <2>1. proc'[r].pc = "acquire"
      BY <1>4, <1>10 DEF UserCreatesTask, Typed, At
    <2> QED
      BY <1>6, <2>1
  <1>11. CASE UserSchedules \/ LockAges \/ UNCHANGED indexState
    <2>1. proc' = proc /\ config'.counter = config.counter
      BY <1>11, AgesDoes DEF UserSchedules, indexState
    <2> QED
      BY <1>2, <1>3, <2>1 DEF Attended, Active
  <1>12. ASSUME NEW p \in Workers, MisreadConfig(p)
         PROVE  Attended'
    <2>1. /\ Others(p) /\ config' = config
          /\ <<proc[p].pc, proc'[p].pc>> \in Updates
      BY <1>12, MisreadDoes
    <2>2. proc[p].pc \notin {"check", "create"} /\ proc'[p].pc # "unused"
      BY <2>1 DEF Updates
    <2> QED
      BY <1>4, <1>5, <2>1, <2>2
  <1>13. ASSUME NEW p \in Workers, LoseWrite(p)
         PROVE  Attended'
    <2>1. /\ Others(p) /\ config' = config
          /\ proc[p].pc \notin {"check", "create"} /\ proc'[p].pc # "unused"
      BY <1>13, LoseDoes
    <2> QED
      BY <1>4, <1>5, <2>1
  <1>14. ASSUME NEW p \in Workers, FailCall(p)
         PROVE  Attended'
    <2>1. /\ Others(p) /\ config' = config
          /\ proc[p].pc \notin {"check", "create"}
          /\ p \in Rebuilds => proc'[p].pc # "unused"
      BY <1>4, <1>14, FailCallDoes
    <2> QED
      BY <1>4, <1>5, <2>1
  <1>16. ASSUME NEW w \in Writers, BeginUpdate(w) \/ EndUpdate(w)
         PROVE  Attended'
    <2>1. config'.counter = config.counter /\ \A p \in Workers : proc'[p] = proc[p]
      BY <1>2, <1>16, UpdateDoes
    <2> QED
      BY <1>2, <1>3, <2>1 DEF Attended, Active, Workers
  <1>15. CASE IndexCrash
    <2>1. config'.counter = config.counter /\ ~ (Active \/ config.counter >= Threshold)
      BY <1>2, <1>15, CrashDoes DEF IndexCrash, Note
    <2> QED
      BY <1>2, <2>1
  <1> QED
    BY <1>7, <1>8, <1>9, <1>10, <1>11, <1>12, <1>13, <1>14, <1>15, <1>16, Zenon DEF IndexNext, Workers

----------------------------------------------------------------------------
\* The invariant, and what it says.

IndexInv == /\ Typed /\ VocabLockHeld
            /\ RebuildAlone /\ LockHasHolder
            /\ Counting /\ CounterCoversChanges
            /\ Fitting /\ DriftIsSeen

\* Some chunks are stored, and nothing goes on.
LEMMA InitIndexInv == IndexInit => IndexInv
  <1> SUFFICES ASSUME IndexInit
               PROVE  IndexInv
    OBVIOUS
  <1>1. PICK v \in Vocabularies :
          LET n == IF Len(v) < Threshold THEN Len(v) ELSE 0 IN
          /\ config = [EmptyConfig EXCEPT !.vocab = v, !.counter = n]
          /\ vector = [c \in Chunks |-> IF c \in Range(v) THEN IdIn(v, c) ELSE 0]
          /\ proc = [p \in Procs |->
                       At(IF p \in Writers THEN "idle"
                          ELSE IF p \in Rebuilds THEN "unused"
                          ELSE IF p \in Range(v) THEN "stored" ELSE "new")]
          /\ counted = [bumped |-> n, handled |-> 0]
    BY DEF IndexInit, Procs
  <1>2. PICK n \in Nat :
          /\ config = [EmptyConfig EXCEPT !.vocab = v, !.counter = n]
          /\ counted = [bumped |-> n, handled |-> 0]
    <2>1. Len(v) \in Nat
      BY VocabularyShape
    <2>2. (IF Len(v) < Threshold THEN Len(v) ELSE 0) \in Nat
      BY <2>1
    <2> QED
      BY <1>1, <2>2
  <1>3. config \in Configs /\ config.lock = "free" /\ config.vocab = v /\ config.counter = n
    BY <1>2, EmptyTyped DEF Configs
  <1>4. counted \in [{"bumped", "handled"} -> Nat] /\ counted["bumped"] = n /\ counted["handled"] = 0
    BY <1>2
  <1>5. /\ proc \in [Procs -> ProcStates] /\ \A p \in Procs : Sound(p, proc[p])
        /\ \A r \in Rebuilds : proc[r].pc = "unused"
        /\ \A c \in Chunks : proc[c].pc \in {"stored", "new"}
    <2>1. \A pc \in {"unused", "stored", "new", "idle"} : At(pc) \in ProcStates /\ At(pc).pc = pc
      BY AtTyped DEF StorePcs, RebuildPcs, WriterPcs
    <2>2. /\ proc = [p \in Procs |-> proc[p]]
          /\ \A w \in Writers : proc[w] = At("idle")
          /\ \A r \in Rebuilds : proc[r] = At("unused")
          /\ \A c \in Chunks : proc[c] = At("stored") \/ proc[c] = At("new")
      BY <1>1, ChunksAssumption DEF Procs
    <2> QED
      BY <2>1, <2>2, ChunksAssumption DEF Procs, Sound, StorePcs, RebuildPcs, WriterPcs, EncodingPcs
  <1>6. /\ vector \in [Chunks -> 0..Cardinality(Chunks)]
        /\ \A c \in Points : c \in Range(v) /\ vector[c] = IdIn(v, c)
    <2>1. \A c \in Range(v) : IdIn(v, c) \in 0..Cardinality(Chunks)
      BY VocabularyShape, ChunksFinite
    <2> QED
      BY <1>1, <2>1, ChunksFinite DEF Points
  <1>7. vocabLock = NoChunk /\ trigger = "none" /\ uses = 0 /\ undone = {} /\ mishaps = {}
    BY DEF IndexInit
  <1>8. Typed
    BY <1>3, <1>4, <1>5, <1>6, <1>7 DEF Typed
  <1>9. VocabLockHeld
    BY <1>5, <1>7, ChunksAssumption DEF VocabLockHeld
  <1>10. RebuildAlone /\ LockHasHolder
    BY <1>3, <1>5 DEF RebuildAlone, LockHasHolder, Holding, HoldingPcs
  <1>11. Counting /\ CounterCoversChanges
    BY <1>3, <1>4, <1>5 DEF Counting, CounterCoversChanges, CountPcs
  <1>12. Fitting
    BY <1>3, <1>5, <1>6 DEF Fitting, NoneCrosses, EncodesCurrent, StoresCurrent, ScrolledAll,
                            Rewritten, Fits, Encoding, Rebuilding
  <1>13. DriftIsSeen
    <2>1. config.counter < Threshold
      BY <1>1, <1>3, VocabularyShape, ThresholdAssumption DEF EmptyConfig
    <2> QED
      BY <2>1 DEF DriftIsSeen
  <1> QED
    BY <1>8, <1>9, <1>10, <1>11, <1>12, <1>13 DEF IndexInv

\* Every step keeps all parts.
LEMMA StepIndexInv == IndexInv /\ [IndexNext]_indexState => IndexInv'
  BY LockSteps, StepRebuildAlone, StepLockHasHolder, StepCounting, StepCounterCovers, StepFitting,
     StepDriftIsSeen DEF IndexInv

\* The invariant holds from the start.
LEMMA IndexInvariance == IndexSpec => []IndexInv
  BY InitIndexInv, StepIndexInv, PTL DEF IndexSpec

\* The types the runs check.
LEMMA TypesOfIndex == IndexInv => IndexTypeOK
  <1> SUFFICES ASSUME IndexInv
               PROVE  IndexTypeOK
    OBVIOUS
  <1>1. Typed /\ VocabLockHeld
    BY DEF IndexInv
  <1>2. ASSUME NEW p \in Chunks \union Rebuilds \union Writers
        PROVE  /\ proc[p].pc \in PcsOf(p)
               /\ proc[p].terms \in Vocabularies /\ proc[p].seen \in Configs
               /\ proc[p].had \in Nat /\ proc[p].mark \in Nat
    BY <1>1, <1>2 DEF Typed, Procs, ProcStates, Sound, PcsOf
  <1> QED
    BY <1>1, <1>2 DEF IndexTypeOK, Typed, VocabLockHeld

\* Each variable keeps its type, whatever fails and whoever reads or writes the
\* config point in between; a vocabulary stays one without repetitions.
THEOREM IndexTypes == IndexSpec => []IndexTypeOK
  BY IndexInvariance, TypesOfIndex, PTL

\* The lock of sparse_recalc keeps rebuilds apart, but for the four ways named.
THEOREM RebuildsAreApart == IndexSpec => []OneRebuild
  <1>1. IndexInv => OneRebuild
    BY DEF IndexInv, RebuildAlone, Apart, OneRebuild
  <1> QED
    BY <1>1, IndexInvariance, PTL

\* A lock that is set has a rebuild behind it, but when an
\* update of another field set it, or it could be neither released nor cleared.
THEOREM LocksHaveHolders == IndexSpec => []LockHasHolder
  <1>1. IndexInv => LockHasHolder
    BY DEF IndexInv
  <1> QED
    BY <1>1, IndexInvariance, PTL

\* The term id in a chunk's vector means the chunk's term, between rebuilds and
\* but for the ways named.
THEOREM VectorsKeepTheirMeaning == IndexSpec => []VectorsFitVocabulary
  <1>1. IndexInv => VectorsFitVocabulary
    <2> SUFFICES ASSUME IndexInv, Matching, \A r \in Rebuilds : proc[r].pc \notin {"save", "saveWrite"}
                 PROVE  \A c \in Points : vector[c] \in DOMAIN config.vocab /\ config.vocab[vector[c]] = c
      BY DEF VectorsFitVocabulary, Matching, Apart
    <2>1. \A c \in Points : c \in Range(config.vocab) /\ vector[c] = IdIn(config.vocab, c)
      BY DEF IndexInv, Fitting, Fits
    <2>2. config.vocab \in Vocabularies
      BY DEF IndexInv, Typed, Configs
    <2> QED
      BY <2>1, <2>2, VocabularyShape
  <1> QED
    BY <1>1, IndexInvariance, PTL

\* No counted change is forgotten before a rebuild has dealt with it, but for
\* the ways named.
THEOREM NoChangeIsForgotten == IndexSpec => []CounterCoversChanges
  <1>1. IndexInv => CounterCoversChanges
    BY DEF IndexInv
  <1> QED
    BY <1>1, IndexInvariance, PTL

\* A counter at the threshold has a rebuild, or a thread about to create one, but
\* for the ways named.
THEOREM DriftHasItsRebuild == IndexSpec => []DriftIsSeen
  <1>1. IndexInv => DriftIsSeen
    BY DEF IndexInv
  <1> QED
    BY <1>1, IndexInvariance, PTL
=============================================================================
