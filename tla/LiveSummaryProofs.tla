------------------------- MODULE LiveSummaryProofs -------------------------
(***************************************************************************)
(* Proofs about LiveSummary, for any number of lines, messages, failed     *)
(* rounds and threads that run finalize.                                   *)
(***************************************************************************)
EXTENDS LiveSummary, FiniteSetTheorems, TLAPS

WorkerStates == [pc : LoopPcs \union FinalPcs, on : Nat, upto : 0..MaxLines, had : 0..MaxLines,
                 joins : Loops \union {NoLoop}]
Calls == [kind : Kinds \union {"none"},
          pc : {"idle", "thread", "join", "idling", "save", "unlink"},
          joins : Loops \union {NoLoop}]

\* What a thread can be doing.
Does(w, o) == /\ w \in Loops => o.pc \in LoopPcs
              /\ w \in Finals => o.pc \in FinalPcs

\* The state, function by function.
LiveTyped ==
  /\ state \in [engine : {"idle", "running"}, tail : 0..MaxLines]
  /\ copy \in [Copies -> {"none", "old", "new"}]
  /\ gen \in Nat /\ handle \in Loops \union {NoLoop}
  /\ event \in Nat /\ stopped \subseteq 0..event
  /\ worker \in [Workers -> WorkerStates]
  /\ \A w \in Workers : Does(w, worker[w])
  /\ asked \in Calls
  /\ inRound \in Workers \union {NoRound}
  /\ inFlight \in BOOLEAN /\ removed \in BOOLEAN /\ wanted \in BOOLEAN
  /\ heard \in 0..MaxLines
  /\ times \in [Lines -> Nat] /\ slid \subseteq Lines
  /\ asks \in 0..MaxAsks /\ misses \in Nat
  /\ surprises \subseteq Surprises

\* A round has the round lock, and nobody else.
RoundLockHeld == \A w \in Workers : inRound = w <=> worker[w].pc \in InRoundPcs

\* Loops are started one after the other, and each has cost a message.
Started ==
  /\ event <= asks /\ (asked.pc = "thread" => event < asks)
  /\ \A l \in Loops : l > event => worker[l].pc = "unused"

----------------------------------------------------------------------------
\* Lemmas about what steps are made of.

\* What the bounds and the threads are.
LEMMA LiveConstants ==
  /\ MaxLines \in Nat /\ MaxAsks \in Nat /\ Window \in Nat \ {0}
  /\ Loops \subseteq Nat \ {0} /\ NoLoop \notin Loops
  /\ Loops \subseteq Workers /\ Finals \subseteq Workers /\ Finals \intersect Loops = {}
  /\ NoRound \notin Workers /\ File \notin Workers /\ Call \notin Workers /\ File # Call
  /\ File \in Copies /\ Call \in Copies /\ Workers \subseteq Copies
  BY LiveSetsAssumption, LiveBoundsAssumption DEF Loops, NoLoop, Workers, Copies

\* The other threads stay where they are.
OtherWorkers(w) == \A v \in Workers \ {w} : worker'[v] = worker[v]

\* A thread gets on.
LEMMA WorkerPlaced ==
  ASSUME LiveTyped, NEW w \in Workers, NEW o \in WorkerStates, Does(w, o),
         worker' = [worker EXCEPT ![w] = o]
  PROVE  /\ worker' \in [Workers -> WorkerStates] /\ \A v \in Workers : Does(v, worker'[v])
         /\ worker'[w] = o /\ OtherWorkers(w)
  BY DEF LiveTyped, OtherWorkers

\* It keeps what it has.
LEMMA WorkerTurns ==
  ASSUME LiveTyped, NEW w \in Workers, NEW pc \in LoopPcs \union FinalPcs, Turn(w, pc),
         w \in Loops => pc \in LoopPcs, w \in Finals => pc \in FinalPcs
  PROVE  /\ worker' \in [Workers -> WorkerStates] /\ \A v \in Workers : Does(v, worker'[v])
         /\ worker'[w].pc = pc /\ worker'[w].on = worker[w].on /\ worker'[w].upto = worker[w].upto
         /\ worker'[w].had = worker[w].had /\ worker'[w].joins = worker[w].joins
         /\ OtherWorkers(w)
  <1> DEFINE o == [worker[w] EXCEPT !.pc = pc]
  <1>1. worker' = [worker EXCEPT ![w] = o]
    BY DEF Turn, LiveTyped
  <1>2. worker[w] \in WorkerStates
    BY DEF LiveTyped
  <1>3. /\ o \in WorkerStates
        /\ o.pc = pc /\ o.on = worker[w].on /\ o.upto = worker[w].upto
        /\ o.had = worker[w].had /\ o.joins = worker[w].joins
    BY <1>2 DEF WorkerStates
  <1> HIDE DEF o
  <1>4. Does(w, o)
    BY <1>3 DEF Does
  <1> QED
    BY <1>1, <1>3, <1>4, WorkerPlaced

\* A thread that has not begun.
LEMMA FreshTyped == Fresh \in WorkerStates /\ Fresh.pc = "unused"
  BY LiveConstants DEF Fresh, WorkerStates, LoopPcs, FinalPcs

\* A round is over: the loop waits on the event there is, finalize goes on.
LEMMA RoundEnds ==
  ASSUME LiveTyped, NEW w \in Workers, worker' = [worker EXCEPT ![w] = AfterRound(w)]
  PROVE  /\ worker' \in [Workers -> WorkerStates] /\ \A v \in Workers : Does(v, worker'[v])
         /\ w \in Finals => worker'[w].pc = "epilogue" /\ worker'[w].on = worker[w].on
         /\ w \in Loops => worker'[w].pc = "waiting" /\ worker'[w].on = event
         /\ OtherWorkers(w)
  <1> DEFINE o == AfterRound(w)
  <1>1. worker[w] \in WorkerStates /\ event \in Nat /\ Finals \intersect Loops = {} /\ 0 \in 0..MaxLines
    BY LiveConstants DEF LiveTyped
  <1>2. CASE w \in Finals
    <2>1. /\ o \in WorkerStates /\ o.pc = "epilogue" /\ o.on = worker[w].on
      BY <1>1, <1>2 DEF AfterRound, WorkerStates, FinalPcs
    <2> HIDE DEF o
    <2>2. Does(w, o)
      BY <1>1, <1>2, <2>1 DEF Does, FinalPcs
    <2> QED
      BY <1>1, <1>2, <2>1, <2>2, WorkerPlaced DEF o
  <1>3. CASE w \in Loops
    <2>1. /\ o \in WorkerStates /\ o.pc = "waiting" /\ o.on = event
      BY <1>1, <1>3, FreshTyped DEF AfterRound, WorkerStates, LoopPcs
    <2> HIDE DEF o
    <2>2. Does(w, o)
      BY <1>1, <1>3, <2>1 DEF Does, LoopPcs
    <2> QED
      BY <1>1, <1>3, <2>1, <2>2, WorkerPlaced DEF o
  <1> QED
    BY <1>2, <1>3 DEF Workers

\* Copies grow old when the state changes ...
LEMMA CopiesAge ==
  ASSUME LiveTyped
  PROVE  /\ Aged \in [Copies -> {"none", "old", "new"}]
         /\ \A d \in Copies : (Aged[d] = "none" <=> copy[d] = "none") /\ Aged[d] # "new"
  BY DEF LiveTyped, Aged

\* ... and the newest is c's.
LEMMA ChangeDoes ==
  ASSUME LiveTyped, NEW c \in Copies, Change(c)
  PROVE  /\ copy' \in [Copies -> {"none", "old", "new"}]
         /\ copy'[c] = "new"
         /\ \A d \in Copies \ {c} : copy'[d] = "none" <=> copy[d] = "none"
  BY CopiesAge DEF Change

\* The file gets c's copy; that an older one replaced a newer one is named.
LEMMA WriteDoes ==
  ASSUME LiveTyped, NEW c \in Copies, c # File, Write(c)
  PROVE  /\ copy' \in [Copies -> {"none", "old", "new"}]
         /\ copy'[File] = copy[c] /\ copy'[c] = "none"
         /\ \A d \in Copies \ {c, File} : copy'[d] = copy[d]
         /\ surprises \subseteq surprises' /\ surprises' \subseteq Surprises
         /\ "overtaken" \notin surprises' => ~ (copy[c] = "old" /\ copy[File] = "new")
  BY LiveConstants DEF LiveTyped, Write, Surprise, Surprises

----------------------------------------------------------------------------
\* What the calls on the event loop do.

LiveBase == LiveTyped /\ RoundLockHeld /\ Started
LiveKept == LiveTyped' /\ RoundLockHeld' /\ Started' /\ surprises \subseteq surprises'

\* A surprise is one of those named.
LEMMA SurpriseDoes ==
  ASSUME LiveTyped, NEW s \in Surprises, NEW cond, Surprise(s, cond)
  PROVE  /\ surprises \subseteq surprises' /\ surprises' \subseteq Surprises
         /\ s \notin surprises' => ~ cond
  BY DEF LiveTyped, Surprise

\* A segment is heard.
LEMMA HearDoes ==
  ASSUME LiveBase, Hear
  PROVE  /\ LiveKept /\ state.engine = "running" /\ heard' = heard + 1
         /\ UNCHANGED <<state, copy, gen, handle, event, stopped, worker, asked, inRound, inFlight,
                        times, slid, removed, wanted, asks, misses>>
  <1>1. /\ surprises \subseteq surprises' /\ surprises' \subseteq Surprises
    BY SurpriseDoes DEF Hear, LiveBase, Surprises
  <1>2. heard' \in 0..MaxLines
    BY LiveConstants DEF Hear, LiveBase, LiveTyped
  <1>3. /\ state.engine = "running" /\ heard' = heard + 1
        /\ UNCHANGED <<state, copy, gen, handle, event, stopped, worker, asked, inRound, inFlight,
                       times, slid, removed, wanted, asks, misses>>
    BY DEF Hear
  <1> QED
    BY <1>1, <1>2, <1>3 DEF LiveBase, LiveKept, LiveTyped, RoundLockHeld, Started

\* A message is taken up.
LEMMA AskDoes ==
  ASSUME LiveBase, NEW kind \in Kinds, NEW pc \in {"thread", "join", "idling"},
         pc = "join" => handle # NoLoop, Ask(kind, pc)
  PROVE  /\ asked' \in Calls /\ asked'.kind = kind /\ asked'.pc = pc
         /\ pc = "join" => asked'.joins = handle
         /\ asked.pc = "idle" /\ ~ removed
         /\ asks' \in 0..MaxAsks /\ asks' = asks + 1
  <1>1. /\ asked' = [NotAsked EXCEPT !.kind = kind, !.pc = pc,
                                     !.joins = IF pc = "join" THEN handle ELSE NoLoop]
        /\ asked.pc = "idle" /\ ~ removed /\ asks < MaxAsks /\ asks' = asks + 1
    BY DEF Ask
  <1>2. handle \in Loops \union {NoLoop} /\ asks \in 0..MaxAsks /\ MaxAsks \in Nat
    BY LiveConstants DEF LiveBase, LiveTyped
  <1>3. asks' \in 0..MaxAsks /\ asks' = asks + 1
    BY <1>1, <1>2
  <1>4. /\ asked' \in Calls /\ asked'.kind = kind /\ asked'.pc = pc
        /\ pc = "join" => asked'.joins = handle
    <2>1. asked' = [kind |-> kind, pc |-> pc, joins |-> IF pc = "join" THEN handle ELSE NoLoop]
      BY <1>1 DEF NotAsked
    <2> QED
      BY <1>2, <2>1 DEF Calls
  <1> QED
    BY <1>1, <1>3, <1>4

\* start, as far as the engine.
LEMMA StartDoes ==
  ASSUME LiveBase, Start
  PROVE  /\ LiveKept
         /\ asked.pc = "idle" /\ asked'.pc = "thread" /\ asked'.kind = "start" /\ ~ removed
         /\ state'.engine = "running" /\ state'.tail = state.tail
         /\ copy' = Aged /\ gen' = gen + 1 /\ wanted' = TRUE
         /\ UNCHANGED <<handle, event, stopped, worker, inRound, inFlight, heard, times, slid,
                        removed, misses, surprises>>
  <1>1. /\ asked' \in Calls /\ asked'.kind = "start" /\ asked'.pc = "thread"
        /\ asked.pc = "idle" /\ ~ removed /\ asks' \in 0..MaxAsks /\ asks' = asks + 1
    BY AskDoes DEF Start, Kinds
  <1>2. /\ state' \in [engine : {"idle", "running"}, tail : 0..MaxLines]
        /\ state'.engine = "running" /\ state'.tail = state.tail
    BY DEF Start, LiveBase, LiveTyped
  <1>3. /\ copy' = Aged /\ gen' = gen + 1 /\ wanted' = TRUE
        /\ UNCHANGED <<handle, event, stopped, worker, inRound, inFlight, heard, times, slid,
                       removed, misses, surprises>>
    BY DEF Start
  <1>4. copy' \in [Copies -> {"none", "old", "new"}]
    BY <1>3, CopiesAge DEF LiveBase
  <1>5. LiveTyped'
    BY <1>1, <1>2, <1>3, <1>4 DEF LiveBase, LiveTyped
  <1>6. RoundLockHeld' /\ Started'
    BY <1>1, <1>3 DEF LiveBase, RoundLockHeld, Started, LiveTyped
  <1> QED
    BY <1>1, <1>2, <1>3, <1>5, <1>6 DEF LiveKept

\* The loop that is alive is kept, or there is a new one with a new event.
LEMMA StartLoopDoes ==
  ASSUME LiveBase, StartLoop
  PROVE  /\ LiveKept
         /\ asked.pc = "thread" /\ asked'.pc = "save" /\ asked'.kind = asked.kind
         /\ copy' = [copy EXCEPT ![Call] = "new"]
         /\ \/ /\ handle # NoLoop /\ Alive(handle)
               /\ event \in stopped => "restarted" \in surprises'
               /\ UNCHANGED <<handle, event, worker>>
            \/ /\ handle = NoLoop \/ ~ Alive(handle)
               /\ event' = event + 1 /\ handle' = event + 1
               /\ handle' \in Loops /\ worker[handle'].pc = "unused"
               /\ worker'[handle'].pc = "waiting" /\ worker'[handle'].on = event + 1
               /\ OtherWorkers(handle')
               /\ "outlived" \notin surprises' => event \notin stopped \/ \A l \in Loops : ~ Alive(l)
         /\ UNCHANGED <<state, gen, stopped, inRound, inFlight, heard, times, slid, removed,
                        wanted, asks, misses>>
  <1>1. /\ asked.pc = "thread" /\ asked'.pc = "save" /\ asked'.kind = asked.kind /\ asked' \in Calls
        /\ copy' = [copy EXCEPT ![Call] = "new"] /\ copy' \in [Copies -> {"none", "old", "new"}]
        /\ UNCHANGED <<state, gen, stopped, inRound, inFlight, heard, times, slid, removed,
                       wanted, asks, misses>>
    BY DEF StartLoop, LiveBase, LiveTyped, Calls
  <1>2. CASE handle # NoLoop /\ Alive(handle)
    <2>1. UNCHANGED <<handle, event, worker>> /\ Surprise("restarted", event \in stopped)
      BY <1>2 DEF StartLoop
    <2>2. /\ surprises \subseteq surprises' /\ surprises' \subseteq Surprises
          /\ event \in stopped => "restarted" \in surprises'
      BY <2>1 DEF Surprise, Surprises, LiveBase, LiveTyped
    <2>3. LiveTyped' /\ RoundLockHeld' /\ Started'
      BY <1>1, <2>1, <2>2 DEF LiveBase, LiveTyped, RoundLockHeld, Started
    <2> QED
      BY <1>1, <1>2, <2>1, <2>2, <2>3 DEF LiveKept
  <1>3. CASE ~ (handle # NoLoop /\ Alive(handle))
    <2> DEFINE o == [Fresh EXCEPT !.pc = "waiting", !.on = event + 1]
    <2>1. /\ event' = event + 1 /\ handle' = event'
          /\ worker' = [worker EXCEPT ![handle'] = o]
          /\ Surprise("outlived", \E l \in Loops : Alive(l) /\ event \in stopped)
      BY <1>3 DEF StartLoop
    <2>2. event < asks /\ event \in Nat /\ asks \in 0..MaxAsks /\ MaxAsks \in Nat
      BY <1>1, LiveConstants DEF LiveBase, Started, LiveTyped
    <2>3. /\ handle' \in Loops /\ handle' = event + 1 /\ handle' \in Workers /\ handle' \notin Finals
          /\ worker[handle'].pc = "unused"
      <3>1. handle' \in Loops /\ handle' = event + 1 /\ handle' > event
        BY <2>1, <2>2 DEF Loops
      <3> QED
        BY <3>1, LiveConstants DEF LiveBase, Started
    <2>4. o \in WorkerStates /\ o.pc = "waiting" /\ o.on = event + 1
      <3>1. event + 1 \in Nat
        BY <2>2
      <3> QED
        BY <3>1, FreshTyped DEF WorkerStates, LoopPcs
    <2> HIDE DEF o
    <2>5. /\ worker' \in [Workers -> WorkerStates] /\ \A v \in Workers : Does(v, worker'[v])
          /\ worker'[handle'] = o /\ OtherWorkers(handle')
      <3>1. Does(handle', o)
        BY <2>3, <2>4 DEF Does, LoopPcs
      <3> QED
        BY <2>1, <2>3, <2>4, <3>1, WorkerPlaced DEF LiveBase
    <2>6. /\ surprises \subseteq surprises' /\ surprises' \subseteq Surprises
          /\ "outlived" \notin surprises' => event \notin stopped \/ \A l \in Loops : ~ Alive(l)
      BY <2>1 DEF Surprise, Surprises, LiveBase, LiveTyped
    <2>7. LiveTyped'
      <3>1. stopped' \subseteq 0..event' /\ event' \in Nat
        BY <1>1, <2>1, <2>2 DEF LiveBase, LiveTyped
      <3> QED
        BY <1>1, <2>3, <2>5, <2>6, <3>1 DEF LiveBase, LiveTyped
    <2>8. RoundLockHeld'
      BY <1>1, <2>3, <2>4, <2>5 DEF LiveBase, RoundLockHeld, OtherWorkers, InRoundPcs
    <2>9. Started'
      <3>1. \A l \in Loops : l > event + 1 => worker'[l] = worker[l] /\ l > event
        <4>1. \A l \in Loops : l > event + 1 => l # handle' /\ l \in Workers /\ l > event
          BY <2>2, <2>3, LiveConstants
        <4> QED
          BY <2>5, <4>1 DEF OtherWorkers
      <3> QED
        BY <1>1, <2>1, <2>2, <3>1 DEF LiveBase, Started
    <2> QED
      BY <1>1, <1>3, <2>1, <2>3, <2>4, <2>5, <2>6, <2>7, <2>8, <2>9 DEF LiveKept
  <1> QED
    BY <1>2, <1>3

\* stop, as far as the event.
LEMMA StopDoes ==
  ASSUME LiveBase, NEW kind \in {"stop", "discard"}, Stop(kind)
  PROVE  /\ LiveKept
         /\ asked.pc = "idle" /\ asked'.pc \in {"join", "idling"} /\ asked'.kind = kind
         /\ asked'.pc = "join" => asked'.joins # NoLoop
         /\ ~ removed /\ removed' = (kind = "discard")
         /\ stopped' = stopped \union {event} /\ wanted' = FALSE
         /\ UNCHANGED <<state, copy, gen, handle, event, worker, inRound, inFlight, heard, times,
                        slid, misses, surprises>>
  <1>1. PICK pc \in {"join", "idling"} : Ask(kind, pc) /\ (pc = "join" => handle # NoLoop)
    BY DEF Stop
  <1>2. /\ asked' \in Calls /\ asked'.kind = kind /\ asked'.pc = pc
        /\ pc = "join" => asked'.joins = handle
        /\ asked.pc = "idle" /\ ~ removed /\ asks' \in 0..MaxAsks /\ asks' = asks + 1
    BY <1>1, AskDoes DEF Kinds
  <1>3. /\ removed' = (kind = "discard") /\ stopped' = stopped \union {event} /\ wanted' = FALSE
        /\ UNCHANGED <<state, copy, gen, handle, event, worker, inRound, inFlight, heard, times,
                       slid, misses, surprises>>
    BY DEF Stop
  <1>4. LiveTyped'
    <2>1. event \in 0..event /\ stopped \subseteq 0..event
      BY DEF LiveBase, LiveTyped
    <2>2. stopped' \subseteq 0..event' /\ removed' \in BOOLEAN /\ wanted' \in BOOLEAN
      BY <1>3, <2>1
    <2> QED
      BY <1>2, <1>3, <2>2 DEF LiveBase, LiveTyped
  <1>5. RoundLockHeld' /\ Started'
    BY <1>2, <1>3 DEF LiveBase, RoundLockHeld, Started, LiveTyped
  <1> QED
    BY <1>1, <1>2, <1>3, <1>4, <1>5 DEF LiveKept

\* The loop has ended, or has been given up.
LEMMA JoinedDoes ==
  ASSUME LiveBase, Joined
  PROVE  /\ LiveKept
         /\ asked.pc = "join" /\ asked'.pc = "idling" /\ asked'.kind = asked.kind
         /\ handle' = NoLoop
         /\ UNCHANGED <<state, copy, gen, event, stopped, worker, inRound, inFlight, heard, times,
                        slid, removed, wanted, asks, misses, surprises>>
  <1>1. /\ asked.pc = "join" /\ asked'.pc = "idling" /\ asked'.kind = asked.kind /\ asked' \in Calls
        /\ handle' = NoLoop
        /\ UNCHANGED <<state, copy, gen, event, stopped, worker, inRound, inFlight, heard, times,
                       slid, removed, wanted, asks, misses, surprises>>
    BY DEF Joined, LiveBase, LiveTyped, Calls
  <1> QED
    BY <1>1 DEF LiveBase, LiveKept, LiveTyped, RoundLockHeld, Started

\* stop's end but for the file.
LEMMA GoIdleDoes ==
  ASSUME LiveBase, GoIdle
  PROVE  /\ LiveKept
         /\ asked.pc = "idling" /\ asked'.pc = "save" /\ asked'.kind = asked.kind
         /\ state'.engine = "idle" /\ state'.tail = state.tail
         /\ Change(Call)
         /\ UNCHANGED <<gen, handle, event, stopped, worker, inRound, inFlight, heard, times, slid,
                        removed, wanted, asks, misses>>
  <1>1. /\ asked.pc = "idling" /\ asked'.pc = "save" /\ asked'.kind = asked.kind /\ asked' \in Calls
        /\ state'.engine = "idle" /\ state'.tail = state.tail
        /\ state' \in [engine : {"idle", "running"}, tail : 0..MaxLines]
    BY DEF GoIdle, LiveBase, LiveTyped, Calls
  <1>2. /\ Change(Call) /\ Surprise("disabled", Unsummarized)
        /\ UNCHANGED <<gen, handle, event, stopped, worker, inRound, inFlight, heard, times, slid,
                       removed, wanted, asks, misses>>
    BY DEF GoIdle
  <1>3. copy' \in [Copies -> {"none", "old", "new"}]
    BY <1>2, ChangeDoes, LiveConstants DEF LiveBase
  <1>4. surprises \subseteq surprises' /\ surprises' \subseteq Surprises
    BY <1>2, SurpriseDoes DEF LiveBase, Surprises
  <1>5. LiveTyped'
    BY <1>1, <1>2, <1>3, <1>4 DEF LiveBase, LiveTyped
  <1>6. RoundLockHeld' /\ Started'
    BY <1>1, <1>2 DEF LiveBase, RoundLockHeld, Started
  <1> QED
    BY <1>1, <1>2, <1>4, <1>5, <1>6 DEF LiveKept

\* A new state, and no line has been summarized.
LEMMA ResetDoes ==
  ASSUME LiveBase, Reset
  PROVE  /\ LiveKept
         /\ asked.pc = "idle" /\ asked'.pc = "save" /\ asked'.kind = "reset" /\ ~ removed
         /\ state'.engine = "idle" /\ state'.tail = 0
         /\ Change(Call)
         /\ times' = [s \in Lines |-> 0]
         /\ state.engine = "running" => "reset" \in surprises'
         /\ inRound # NoRound => "crossed" \in surprises'
         /\ UNCHANGED <<gen, handle, event, stopped, worker, inRound, inFlight, heard, slid,
                        removed, wanted, misses>>
  <1>1. /\ asked.pc = "idle" /\ asked'.pc = "save" /\ asked'.kind = "reset" /\ asked' \in Calls /\ ~ removed
        /\ asks' \in 0..MaxAsks /\ asks' = asks + 1
        /\ state'.engine = "idle" /\ state'.tail = 0
        /\ state' \in [engine : {"idle", "running"}, tail : 0..MaxLines]
    <2>1. asked.pc = "idle" /\ ~ removed /\ asks < MaxAsks /\ asks' = asks + 1
      BY DEF Reset
    <2>2. asks' \in 0..MaxAsks
      BY <2>1, LiveConstants DEF LiveBase, LiveTyped
    <2>3. asked' = [kind |-> "reset", pc |-> "save", joins |-> NoLoop]
      BY DEF Reset, NotAsked
    <2>4. state' = [engine |-> "idle", tail |-> 0] /\ 0 \in 0..MaxLines
      BY LiveConstants DEF Reset
    <2> QED
      BY <2>1, <2>2, <2>3, <2>4 DEF Calls, Kinds
  <1>2. /\ Change(Call) /\ times' = [s \in Lines |-> 0]
        /\ UNCHANGED <<gen, handle, event, stopped, worker, inRound, inFlight, heard, slid,
                       removed, wanted, misses>>
    BY DEF Reset
  <1>3. copy' \in [Copies -> {"none", "old", "new"}]
    BY <1>2, ChangeDoes, LiveConstants DEF LiveBase
  <1>4. /\ surprises \subseteq surprises' /\ surprises' \subseteq Surprises
        /\ state.engine = "running" => "reset" \in surprises'
        /\ inRound # NoRound => "crossed" \in surprises'
    BY DEF Reset, LiveBase, LiveTyped, Surprises
  <1>5. LiveTyped'
    BY <1>1, <1>2, <1>3, <1>4 DEF LiveBase, LiveTyped
  <1>6. RoundLockHeld' /\ Started'
    BY <1>1, <1>2 DEF LiveBase, RoundLockHeld, Started, LiveTyped
  <1> QED
    BY <1>1, <1>2, <1>4, <1>5, <1>6 DEF LiveKept

\* The call writes its copy, and is over unless the recording is discarded.
LEMMA SaveCallDoes ==
  ASSUME LiveBase, SaveCall
  PROVE  /\ LiveKept
         /\ asked.pc = "save"
         /\ IF asked.kind = "discard" THEN asked'.pc = "unlink" /\ asked'.kind = "discard"
                                      ELSE asked'.pc = "idle" /\ asked'.kind = "none"
         /\ Write(Call)
         /\ UNCHANGED <<state, gen, handle, event, stopped, worker, inRound, inFlight, heard,
                        times, slid, removed, wanted, asks, misses>>
  <1>1. /\ asked.pc = "save" /\ asked' \in Calls
        /\ IF asked.kind = "discard" THEN asked'.pc = "unlink" /\ asked'.kind = "discard"
                                     ELSE asked'.pc = "idle" /\ asked'.kind = "none"
    BY DEF SaveCall, LiveBase, LiveTyped, Calls, Kinds, NotAsked
  <1>2. /\ Write(Call)
        /\ UNCHANGED <<state, gen, handle, event, stopped, worker, inRound, inFlight, heard,
                       times, slid, removed, wanted, asks, misses>>
    BY DEF SaveCall
  <1>3. /\ copy' \in [Copies -> {"none", "old", "new"}]
        /\ surprises \subseteq surprises' /\ surprises' \subseteq Surprises
    BY <1>2, WriteDoes, LiveConstants DEF LiveBase
  <1>4. LiveTyped'
    BY <1>1, <1>2, <1>3 DEF LiveBase, LiveTyped
  <1>5. RoundLockHeld' /\ Started'
    BY <1>1, <1>2 DEF LiveBase, RoundLockHeld, Started
  <1> QED
    BY <1>1, <1>2, <1>3, <1>4, <1>5 DEF LiveKept

\* The file of a discarded recording goes; who may write it again is named.
LEMMA UnlinkDoes ==
  ASSUME LiveBase, Unlink
  PROVE  /\ LiveKept
         /\ asked.pc = "unlink" /\ asked'.pc = "idle" /\ asked'.kind = "none"
         /\ copy' = [copy EXCEPT ![File] = "none"]
         /\ \/ "late" \in surprises'
            \/ /\ \A f \in Finals : worker[f].pc = "unused"
               /\ \A l \in Loops : \/ worker[l].pc \in {"unused", "dead"}
                                   \/ worker[l].pc = "waiting" /\ worker[l].on \in stopped
         /\ UNCHANGED <<state, gen, handle, event, stopped, worker, inRound, inFlight, heard,
                        times, slid, removed, wanted, asks, misses>>
  <1>1. /\ asked.pc = "unlink" /\ asked'.pc = "idle" /\ asked'.kind = "none" /\ asked' \in Calls
        /\ copy' = [copy EXCEPT ![File] = "none"] /\ copy' \in [Copies -> {"none", "old", "new"}]
    BY LiveConstants DEF Unlink, LiveBase, LiveTyped, Calls, NotAsked
  <1>2. UNCHANGED <<state, gen, handle, event, stopped, worker, inRound, inFlight, heard,
                    times, slid, removed, wanted, asks, misses>>
    BY DEF Unlink
  <1>3. /\ surprises \subseteq surprises' /\ surprises' \subseteq Surprises
        /\ \/ "late" \in surprises'
           \/ /\ \A f \in Finals : worker[f].pc = "unused"
              /\ \A l \in Loops : \/ worker[l].pc \in {"unused", "dead"}
                                  \/ worker[l].pc = "waiting" /\ worker[l].on \in stopped
    BY DEF Unlink, Surprise, Surprises, Alive, LiveBase, LiveTyped
  <1>4. LiveTyped'
    BY <1>1, <1>2, <1>3 DEF LiveBase, LiveTyped
  <1>5. RoundLockHeld' /\ Started'
    BY <1>1, <1>2 DEF LiveBase, RoundLockHeld, Started
  <1> QED
    BY <1>1, <1>2, <1>3, <1>4, <1>5 DEF LiveKept

----------------------------------------------------------------------------
\* What the threads do.

\* A thread enters a round, leaves it, or does neither.
LockMoves(w) ==
  \/ inRound' = inRound /\ (worker'[w].pc \in InRoundPcs <=> worker[w].pc \in InRoundPcs)
  \/ inRound = NoRound /\ inRound' = w /\ worker'[w].pc \in InRoundPcs
  \/ inRound = w /\ inRound' = NoRound /\ worker'[w].pc \notin InRoundPcs

\* Threads keep to the round lock.
LEMMA WorkerKept ==
  ASSUME LiveBase, NEW w \in Workers, OtherWorkers(w), LockMoves(w),
         w \in Loops => worker[w].pc # "unused",
         asks' \in Nat, asks' >= asks, UNCHANGED <<event, asked>>
  PROVE  RoundLockHeld' /\ Started'
  <1>1. NoRound \notin Workers /\ Loops \subseteq Workers
    BY LiveConstants
  <1>2. RoundLockHeld'
    BY <1>1 DEF LiveBase, RoundLockHeld, OtherWorkers, LockMoves
  <1>3. Started'
    BY <1>1 DEF LiveBase, Started, OtherWorkers, LiveTyped
  <1> QED
    BY <1>2, <1>3

\* finalize begins.
LEMMA FinishRecordingDoes ==
  ASSUME LiveBase, NEW f \in Finals, FinishRecording(f)
  PROVE  /\ LiveKept
         /\ asked.pc = "idle" /\ ~ removed /\ worker[f].pc = "unused" /\ state.engine = "running"
         /\ worker'[f].pc = "begin" /\ worker'[f].on = worker[f].on /\ OtherWorkers(f)
         /\ wanted' = FALSE
         /\ UNCHANGED <<state, copy, gen, handle, event, stopped, asked, inRound, inFlight, heard,
                        times, slid, removed, misses, surprises>>
  <1>1. /\ asked.pc = "idle" /\ ~ removed /\ worker[f].pc = "unused" /\ state.engine = "running"
        /\ asks < MaxAsks /\ asks' = asks + 1 /\ wanted' = FALSE /\ Turn(f, "begin")
        /\ UNCHANGED <<state, copy, gen, handle, event, stopped, asked, inRound, inFlight, heard,
                       times, slid, removed, misses, surprises>>
    BY DEF FinishRecording
  <1>2. f \in Workers /\ f \notin Loops
    BY LiveConstants
  <1>3. /\ worker' \in [Workers -> WorkerStates] /\ \A v \in Workers : Does(v, worker'[v])
        /\ worker'[f].pc = "begin" /\ worker'[f].on = worker[f].on /\ OtherWorkers(f)
    BY <1>1, <1>2, WorkerTurns DEF LiveBase, LoopPcs, FinalPcs
  <1>4. asks' \in 0..MaxAsks /\ asks' \in Nat /\ asks' >= asks
    BY <1>1, LiveConstants DEF LiveBase, LiveTyped
  <1>5. LiveTyped'
    BY <1>1, <1>3, <1>4 DEF LiveBase, LiveTyped
  <1>6. LockMoves(f)
    BY <1>1, <1>3 DEF LockMoves, InRoundPcs
  <1>7. RoundLockHeld' /\ Started'
    BY <1>1, <1>2, <1>3, <1>4, <1>6, WorkerKept
  <1> QED
    BY <1>1, <1>3, <1>5, <1>7 DEF LiveKept

\* The generation at the entry.
LEMMA ReadGenerationDoes ==
  ASSUME LiveBase, NEW f \in Finals, ReadGeneration(f)
  PROVE  /\ LiveKept
         /\ worker[f].pc = "begin" /\ worker'[f].pc = "stop" /\ worker'[f].on = gen /\ OtherWorkers(f)
         /\ UNCHANGED <<state, copy, gen, handle, event, stopped, asked, inRound, inFlight, heard,
                        times, slid, removed, wanted, asks, misses, surprises>>
  <1> DEFINE o == [worker[f] EXCEPT !.pc = "stop", !.on = gen]
  <1>1. f \in Workers /\ f \notin Loops
    BY LiveConstants
  <1>2. /\ worker[f].pc = "begin" /\ worker' = [worker EXCEPT ![f] = o]
        /\ UNCHANGED <<state, copy, gen, handle, event, stopped, asked, inRound, inFlight, heard,
                       times, slid, removed, wanted, asks, misses, surprises>>
    BY <1>1 DEF ReadGeneration, LiveBase, LiveTyped
  <1>3. o \in WorkerStates /\ o.pc = "stop" /\ o.on = gen
    BY <1>1 DEF LiveBase, LiveTyped, WorkerStates, FinalPcs
  <1> HIDE DEF o
  <1>4. /\ worker' \in [Workers -> WorkerStates] /\ \A v \in Workers : Does(v, worker'[v])
        /\ worker'[f] = o /\ OtherWorkers(f)
    <2>1. Does(f, o)
      BY <1>1, <1>3 DEF Does, FinalPcs
    <2> QED
      BY <1>1, <1>2, <1>3, <2>1, WorkerPlaced DEF LiveBase
  <1>5. LiveTyped'
    BY <1>2, <1>4 DEF LiveBase, LiveTyped
  <1>6. LockMoves(f)
    BY <1>2, <1>3, <1>4 DEF LockMoves, InRoundPcs
  <1>7. asks' \in Nat /\ asks' >= asks
    BY <1>2, LiveConstants DEF LiveBase, LiveTyped
  <1>8. RoundLockHeld' /\ Started'
    BY <1>1, <1>2, <1>4, <1>6, <1>7, WorkerKept
  <1> QED
    BY <1>2, <1>3, <1>4, <1>5, <1>8 DEF LiveKept

\* finalize sets the event there is; the loop it joins is the one named then.
LEMMA StopLoopDoes ==
  ASSUME LiveBase, NEW f \in Finals, StopLoop(f)
  PROVE  /\ LiveKept
         /\ worker[f].pc = "stop" /\ worker'[f].on = worker[f].on /\ OtherWorkers(f)
         /\ worker'[f].pc \in {"woken", "joining"}
         /\ stopped' = stopped \union {event}
         /\ wanted => "restarted" \in surprises'
         /\ UNCHANGED <<state, copy, gen, handle, event, asked, inRound, inFlight, heard, times,
                        slid, removed, wanted, asks, misses>>
  <1> DEFINE o == [worker[f] EXCEPT !.pc = IF handle = NoLoop THEN "woken" ELSE "joining",
                                    !.joins = handle]
  <1>1. f \in Workers /\ f \notin Loops
    BY LiveConstants
  <1>2. /\ worker[f].pc = "stop" /\ worker' = [worker EXCEPT ![f] = o]
        /\ stopped' = stopped \union {event} /\ Surprise("restarted", wanted)
        /\ UNCHANGED <<state, copy, gen, handle, event, asked, inRound, inFlight, heard, times,
                       slid, removed, wanted, asks, misses>>
    BY <1>1 DEF StopLoop, LiveBase, LiveTyped
  <1>3. o \in WorkerStates /\ o.pc \in {"woken", "joining"} /\ o.on = worker[f].on
    <2>1. worker[f] \in WorkerStates /\ handle \in Loops \union {NoLoop}
      BY <1>1 DEF LiveBase, LiveTyped
    <2>2. {"woken", "joining"} \subseteq LoopPcs \union FinalPcs
      BY DEF LoopPcs, FinalPcs
    <2> QED
      BY <2>1, <2>2 DEF WorkerStates
  <1> HIDE DEF o
  <1>4. /\ worker' \in [Workers -> WorkerStates] /\ \A v \in Workers : Does(v, worker'[v])
        /\ worker'[f] = o /\ OtherWorkers(f)
    <2>1. Does(f, o)
      BY <1>1, <1>3 DEF Does, FinalPcs
    <2> QED
      BY <1>1, <1>2, <1>3, <2>1, WorkerPlaced DEF LiveBase
  <1>5. /\ surprises \subseteq surprises' /\ surprises' \subseteq Surprises
        /\ wanted => "restarted" \in surprises'
    BY <1>2, SurpriseDoes DEF LiveBase, Surprises
  <1>6. stopped' \subseteq 0..event'
    BY <1>2 DEF LiveBase, LiveTyped
  <1>7. LiveTyped'
    BY <1>2, <1>4, <1>5, <1>6 DEF LiveBase, LiveTyped
  <1>8. LockMoves(f)
    BY <1>2, <1>3, <1>4 DEF LockMoves, InRoundPcs
  <1>9. asks' \in Nat /\ asks' >= asks
    BY <1>2, LiveConstants DEF LiveBase, LiveTyped
  <1>10. RoundLockHeld' /\ Started'
    BY <1>1, <1>2, <1>4, <1>8, <1>9, WorkerKept
  <1> QED
    BY <1>2, <1>3, <1>4, <1>5, <1>7, <1>10 DEF LiveKept

\* The join is over; that a loop loses its handle by it is named.
LEMMA JoinLoopDoes ==
  ASSUME LiveBase, NEW f \in Finals, JoinLoop(f)
  PROVE  /\ LiveKept
         /\ worker[f].pc = "joining" /\ worker'[f].pc = "woken" /\ worker'[f].on = worker[f].on
         /\ OtherWorkers(f)
         /\ handle' = NoLoop
         /\ "orphaned" \notin surprises' => handle = NoLoop \/ event \in stopped
         /\ UNCHANGED <<state, copy, gen, event, stopped, asked, inRound, inFlight, heard, times,
                        slid, removed, wanted, asks, misses>>
  <1> DEFINE o == [worker[f] EXCEPT !.pc = "woken", !.joins = NoLoop]
  <1>1. f \in Workers /\ f \notin Loops
    BY LiveConstants
  <1>2. /\ worker[f].pc = "joining" /\ worker' = [worker EXCEPT ![f] = o]
        /\ handle' = NoLoop /\ Surprise("orphaned", handle # NoLoop /\ event \notin stopped)
        /\ UNCHANGED <<state, copy, gen, event, stopped, asked, inRound, inFlight, heard, times,
                       slid, removed, wanted, asks, misses>>
    BY <1>1 DEF JoinLoop, LiveBase, LiveTyped
  <1>3. o \in WorkerStates /\ o.pc = "woken" /\ o.on = worker[f].on
    BY <1>1 DEF LiveBase, LiveTyped, WorkerStates, FinalPcs
  <1> HIDE DEF o
  <1>4. /\ worker' \in [Workers -> WorkerStates] /\ \A v \in Workers : Does(v, worker'[v])
        /\ worker'[f] = o /\ OtherWorkers(f)
    <2>1. Does(f, o)
      BY <1>1, <1>3 DEF Does, FinalPcs
    <2> QED
      BY <1>1, <1>2, <1>3, <2>1, WorkerPlaced DEF LiveBase
  <1>5. /\ surprises \subseteq surprises' /\ surprises' \subseteq Surprises
        /\ "orphaned" \notin surprises' => handle = NoLoop \/ event \in stopped
    BY <1>2, SurpriseDoes DEF LiveBase, Surprises
  <1>6. LiveTyped'
    BY <1>2, <1>4, <1>5 DEF LiveBase, LiveTyped
  <1>7. LockMoves(f)
    BY <1>2, <1>3, <1>4 DEF LockMoves, InRoundPcs
  <1>8. asks' \in Nat /\ asks' >= asks
    BY <1>2, LiveConstants DEF LiveBase, LiveTyped
  <1>9. RoundLockHeld' /\ Started'
    BY <1>1, <1>2, <1>4, <1>7, <1>8, WorkerKept
  <1> QED
    BY <1>2, <1>3, <1>4, <1>5, <1>6, <1>9 DEF LiveKept

\* Idle unless the engine was started again; the last copy is taken.
LEMMA EpilogueDoes ==
  ASSUME LiveBase, NEW f \in Finals, Epilogue(f)
  PROVE  /\ LiveKept
         /\ worker[f].pc = "epilogue" /\ worker'[f].pc = "saveLast" /\ worker'[f].on = worker[f].on
         /\ OtherWorkers(f)
         /\ state'.tail = state.tail
         /\ \/ gen = worker[f].on /\ state'.engine = "idle" /\ Change(f)
            \/ gen # worker[f].on /\ state' = state /\ copy' = [copy EXCEPT ![f] = "new"]
         /\ UNCHANGED <<gen, handle, event, stopped, asked, inRound, inFlight, heard, times, slid,
                        removed, wanted, asks, misses, surprises>>
  <1>1. f \in Workers /\ f \notin Loops /\ f \in Copies
    BY LiveConstants
  <1>2. /\ worker[f].pc = "epilogue" /\ Turn(f, "saveLast")
        /\ UNCHANGED <<gen, handle, event, stopped, asked, inRound, inFlight, heard, times, slid,
                       removed, wanted, asks, misses, surprises>>
    BY DEF Epilogue
  <1>3. /\ state' \in [engine : {"idle", "running"}, tail : 0..MaxLines]
        /\ state'.tail = state.tail
        /\ copy' \in [Copies -> {"none", "old", "new"}]
        /\ \/ gen = worker[f].on /\ state'.engine = "idle" /\ Change(f)
           \/ gen # worker[f].on /\ state' = state /\ copy' = [copy EXCEPT ![f] = "new"]
    <2>1. CASE gen = worker[f].on
      <3>1. state' = [state EXCEPT !.engine = "idle"] /\ Change(f)
        BY <2>1 DEF Epilogue
      <3> QED
        BY <1>1, <2>1, <3>1, ChangeDoes DEF LiveBase, LiveTyped
    <2>2. CASE gen # worker[f].on
      <3>1. state' = state /\ copy' = [copy EXCEPT ![f] = "new"]
        BY <2>2 DEF Epilogue
      <3> QED
        BY <1>1, <2>2, <3>1 DEF LiveBase, LiveTyped
    <2> QED
      BY <2>1, <2>2
  <1>4. /\ worker' \in [Workers -> WorkerStates] /\ \A v \in Workers : Does(v, worker'[v])
        /\ worker'[f].pc = "saveLast" /\ worker'[f].on = worker[f].on /\ OtherWorkers(f)
    BY <1>1, <1>2, WorkerTurns DEF LiveBase, LoopPcs, FinalPcs
  <1>5. LiveTyped'
    BY <1>2, <1>3, <1>4 DEF LiveBase, LiveTyped
  <1>6. LockMoves(f)
    BY <1>2, <1>4 DEF LockMoves, InRoundPcs
  <1>7. asks' \in Nat /\ asks' >= asks
    BY <1>2, LiveConstants DEF LiveBase, LiveTyped
  <1>8. RoundLockHeld' /\ Started'
    BY <1>1, <1>2, <1>4, <1>6, <1>7, WorkerKept
  <1> QED
    BY <1>2, <1>3, <1>4, <1>5, <1>8 DEF LiveKept

\* finalize's copy is written, and the thread is done.
LEMMA SaveLastDoes ==
  ASSUME LiveBase, NEW f \in Finals, SaveLast(f)
  PROVE  /\ LiveKept
         /\ worker[f].pc = "saveLast" /\ worker'[f] = Fresh /\ OtherWorkers(f)
         /\ Write(f)
         /\ UNCHANGED <<state, gen, handle, event, stopped, asked, inRound, inFlight, heard, times,
                        slid, removed, wanted, asks, misses>>
  <1>1. f \in Workers /\ f \notin Loops /\ f \in Copies /\ f # File
    BY LiveConstants
  <1>2. /\ worker[f].pc = "saveLast" /\ worker' = [worker EXCEPT ![f] = Fresh] /\ Write(f)
        /\ UNCHANGED <<state, gen, handle, event, stopped, asked, inRound, inFlight, heard, times,
                       slid, removed, wanted, asks, misses>>
    BY DEF SaveLast
  <1>3. /\ copy' \in [Copies -> {"none", "old", "new"}]
        /\ surprises \subseteq surprises' /\ surprises' \subseteq Surprises
    BY <1>1, <1>2, WriteDoes DEF LiveBase
  <1>4. /\ worker' \in [Workers -> WorkerStates] /\ \A v \in Workers : Does(v, worker'[v])
        /\ worker'[f] = Fresh /\ OtherWorkers(f)
    <2>1. Does(f, Fresh)
      BY FreshTyped DEF Does, LoopPcs, FinalPcs
    <2> QED
      BY <1>1, <1>2, <2>1, FreshTyped, WorkerPlaced DEF LiveBase
  <1>5. LiveTyped'
    BY <1>2, <1>3, <1>4 DEF LiveBase, LiveTyped
  <1>6. LockMoves(f)
    BY <1>2, <1>4, FreshTyped DEF LockMoves, InRoundPcs
  <1>7. asks' \in Nat /\ asks' >= asks
    BY <1>2, LiveConstants DEF LiveBase, LiveTyped
  <1>8. RoundLockHeld' /\ Started'
    BY <1>1, <1>2, <1>4, <1>6, <1>7, WorkerKept
  <1> QED
    BY <1>2, <1>3, <1>4, <1>5, <1>8 DEF LiveKept

----------------------------------------------------------------------------
\* What the loop and the rounds do.

\* A round that is over leaves a thread there.
RoundOver(w) == /\ w \in Finals => worker'[w].pc = "epilogue" /\ worker'[w].on = worker[w].on
                /\ w \in Loops => worker'[w].pc = "waiting" /\ worker'[w].on = event
                /\ OtherWorkers(w)

\* The loop ends, waits on or begins a round.
LEMMA WakeDoes ==
  ASSUME LiveBase, NEW l \in Loops, Wake(l)
  PROVE  /\ LiveKept
         /\ worker[l].pc = "waiting" /\ OtherWorkers(l)
         /\ \/ worker'[l].pc = "dead" /\ worker[l].on \in stopped
            \/ worker'[l].pc = "waiting" /\ worker'[l].on = event /\ worker[l].on \notin stopped
            \/ worker'[l].pc = "woken" /\ worker[l].on \notin stopped
         /\ UNCHANGED <<state, copy, gen, handle, event, stopped, asked, inRound, heard, times,
                        slid, removed, wanted, asks, misses, surprises>>
  <1>1. /\ worker[l].pc = "waiting" /\ l \in Workers /\ l \notin Finals
        /\ worker[l] \in WorkerStates /\ event \in Nat
        /\ UNCHANGED <<state, copy, gen, handle, event, stopped, asked, inRound, heard, times,
                       slid, removed, wanted, asks, misses, surprises>>
    BY LiveConstants DEF Wake, LiveBase, LiveTyped
  <1>2. /\ worker' \in [Workers -> WorkerStates] /\ \A v \in Workers : Does(v, worker'[v])
        /\ OtherWorkers(l) /\ inFlight' \in BOOLEAN
        /\ \/ worker'[l].pc = "dead" /\ worker[l].on \in stopped
           \/ worker'[l].pc = "waiting" /\ worker'[l].on = event /\ worker[l].on \notin stopped
           \/ worker'[l].pc = "woken" /\ worker[l].on \notin stopped
    <2>1. CASE worker[l].on \in stopped
      <3> DEFINE o == [Fresh EXCEPT !.pc = "dead"]
      <3>1. worker' = [worker EXCEPT ![l] = o] /\ inFlight' = inFlight
        BY <2>1 DEF Wake
      <3>2. o \in WorkerStates /\ o.pc = "dead"
        BY FreshTyped DEF WorkerStates, LoopPcs
      <3> HIDE DEF o
      <3>3. Does(l, o)
        BY <1>1, <3>2 DEF Does, LoopPcs
      <3> QED
        BY <1>1, <2>1, <3>1, <3>2, <3>3, WorkerPlaced DEF LiveBase, LiveTyped
    <2>2. CASE worker[l].on \notin stopped /\ inFlight
      <3> DEFINE o == [worker[l] EXCEPT !.on = event]
      <3>1. worker' = [worker EXCEPT ![l] = o] /\ inFlight' = inFlight
        BY <1>1, <2>2 DEF Wake, LiveBase, LiveTyped
      <3>2. o \in WorkerStates /\ o.pc = "waiting" /\ o.on = event
        BY <1>1 DEF WorkerStates
      <3> HIDE DEF o
      <3>3. Does(l, o)
        BY <1>1, <3>2 DEF Does, LoopPcs
      <3> QED
        BY <1>1, <2>2, <3>1, <3>2, <3>3, WorkerPlaced DEF LiveBase, LiveTyped
    <2>3. CASE worker[l].on \notin stopped /\ ~ inFlight
      <3>1. Turn(l, "woken") /\ inFlight' = TRUE
        BY <2>3 DEF Wake
      <3> QED
        BY <1>1, <2>3, <3>1, WorkerTurns DEF LiveBase, LoopPcs, FinalPcs
    <2> QED
      BY <2>1, <2>2, <2>3
  <1>3. LiveTyped'
    BY <1>1, <1>2 DEF LiveBase, LiveTyped
  <1>4. LockMoves(l)
    BY <1>1, <1>2 DEF LockMoves, InRoundPcs
  <1>5. asks' \in Nat /\ asks' >= asks
    BY <1>1, LiveConstants DEF LiveBase, LiveTyped
  <1>6. RoundLockHeld' /\ Started'
    BY <1>1, <1>2, <1>4, <1>5, WorkerKept
  <1> QED
    BY <1>1, <1>2, <1>3, <1>6 DEF LiveKept

\* The flag stays a flag.
LEMMA LandedTyped == ASSUME LiveBase, NEW w \in Workers, Landed(w) PROVE inFlight' \in BOOLEAN
  <1>1. inFlight' = (w \in Finals /\ inFlight)
    BY DEF Landed
  <1>2. (w \in Finals /\ inFlight) \in BOOLEAN
    OBVIOUS
  <1> QED
    BY <1>1, <1>2

\* A round with nothing new is over at once.
LEMMA SkipRoundDoes ==
  ASSUME LiveBase, NEW w \in Workers, SkipRound(w)
  PROVE  /\ LiveKept
         /\ worker[w].pc = "woken" /\ RoundOver(w)
         /\ UNCHANGED <<state, copy, gen, handle, event, stopped, asked, inRound, heard, times,
                        slid, removed, wanted, asks, misses, surprises>>
  <1>1. /\ worker[w].pc = "woken" /\ worker' = [worker EXCEPT ![w] = AfterRound(w)] /\ Landed(w)
        /\ UNCHANGED <<state, copy, gen, handle, event, stopped, asked, inRound, heard, times,
                       slid, removed, wanted, asks, misses, surprises>>
    BY DEF SkipRound
  <1>2. /\ worker' \in [Workers -> WorkerStates] /\ \A v \in Workers : Does(v, worker'[v])
        /\ RoundOver(w) /\ OtherWorkers(w)
    BY <1>1, RoundEnds DEF LiveBase, RoundOver
  <1>3. worker'[w].pc \notin InRoundPcs
    BY <1>2 DEF RoundOver, Workers, InRoundPcs
  <1>4. LiveTyped'
    BY <1>1, <1>2, LandedTyped DEF LiveBase, LiveTyped
  <1>5. LockMoves(w)
    BY <1>1, <1>3 DEF LockMoves, InRoundPcs
  <1>6. asks' \in Nat /\ asks' >= asks
    BY <1>1, LiveConstants DEF LiveBase, LiveTyped
  <1>7. RoundLockHeld' /\ Started'
    BY <1>1, <1>2, <1>5, <1>6, WorkerKept
  <1> QED
    BY <1>1, <1>2, <1>4, <1>7 DEF LiveKept

\* A round takes the lines after the tail.
LEMMA BeginRoundDoes ==
  ASSUME LiveBase, NEW w \in Workers, BeginRound(w)
  PROVE  /\ LiveKept
         /\ worker[w].pc = "woken" /\ worker'[w].pc = "asking" /\ OtherWorkers(w)
         /\ worker'[w].upto = heard /\ worker'[w].had = state.tail /\ worker'[w].on = worker[w].on
         /\ state.tail < heard
         /\ inRound = NoRound /\ inRound' = w
         /\ UNCHANGED <<state, copy, gen, handle, event, stopped, asked, inFlight, heard, times,
                        slid, removed, wanted, asks, misses, surprises>>
  <1> DEFINE o == [worker[w] EXCEPT !.pc = "asking", !.upto = heard, !.had = state.tail]
  <1>1. /\ worker[w].pc = "woken" /\ worker' = [worker EXCEPT ![w] = o]
        /\ state.tail < heard /\ inRound = NoRound /\ inRound' = w
        /\ UNCHANGED <<state, copy, gen, handle, event, stopped, asked, inFlight, heard, times,
                       slid, removed, wanted, asks, misses, surprises>>
    BY DEF BeginRound, Unsummarized, LiveBase, LiveTyped
  <1>2. /\ o \in WorkerStates /\ o.pc = "asking" /\ o.upto = heard /\ o.had = state.tail
        /\ o.on = worker[w].on
    <2>1. worker[w] \in WorkerStates /\ heard \in 0..MaxLines /\ state.tail \in 0..MaxLines
      BY DEF LiveBase, LiveTyped
    <2>2. "asking" \in LoopPcs \union FinalPcs
      BY DEF LoopPcs
    <2> QED
      BY <2>1, <2>2 DEF WorkerStates
  <1> HIDE DEF o
  <1>3. /\ worker' \in [Workers -> WorkerStates] /\ \A v \in Workers : Does(v, worker'[v])
        /\ worker'[w] = o /\ OtherWorkers(w)
    <2>1. Does(w, o)
      BY <1>2 DEF Does, LoopPcs, FinalPcs
    <2> QED
      BY <1>1, <1>2, <2>1, WorkerPlaced DEF LiveBase
  <1>4. LiveTyped'
    BY <1>1, <1>3 DEF LiveBase, LiveTyped
  <1>5. LockMoves(w)
    BY <1>1, <1>2, <1>3 DEF LockMoves, InRoundPcs
  <1>6. asks' \in Nat /\ asks' >= asks
    BY <1>1, LiveConstants DEF LiveBase, LiveTyped
  <1>7. RoundLockHeld' /\ Started'
    BY <1>1, <1>3, <1>5, <1>6, WorkerKept
  <1> QED
    BY <1>1, <1>2, <1>3, <1>4, <1>7 DEF LiveKept

\* What a round got moves the tail and is written, in one hold of the lock.
LEMMA ApplyDeltaDoes ==
  ASSUME LiveBase, NEW w \in Workers, ApplyDelta(w)
  PROVE  /\ LiveKept
         /\ worker[w].pc = "asking"
         /\ state'.engine = state.engine
         /\ state'.tail = IF state.tail > worker[w].upto THEN state.tail ELSE worker[w].upto
         /\ Change(File)
         /\ times' = [s \in Lines |-> IF s \in Seen(w) THEN times[s] + 1 ELSE times[s]]
         /\ slid' = slid \union (Due(w) \ Seen(w))
         /\ \/ /\ worker'[w].pc = "compacting" /\ worker'[w].on = worker[w].on /\ OtherWorkers(w)
               /\ inRound' = inRound
            \/ RoundOver(w) /\ inRound' = NoRound
         /\ UNCHANGED <<gen, handle, event, stopped, asked, heard, removed, wanted, asks, misses,
                        surprises>>
  <1>1. /\ worker[w].pc = "asking"
        /\ state' = [state EXCEPT !.tail = IF state.tail > worker[w].upto THEN state.tail ELSE worker[w].upto]
        /\ Change(File)
        /\ times' = [s \in Lines |-> IF s \in Seen(w) THEN times[s] + 1 ELSE times[s]]
        /\ slid' = slid \union (Due(w) \ Seen(w))
        /\ \/ Turn(w, "compacting") /\ UNCHANGED <<inRound, inFlight>>
           \/ /\ worker' = [worker EXCEPT ![w] = AfterRound(w)]
              /\ inRound' = NoRound /\ Landed(w)
        /\ UNCHANGED <<gen, handle, event, stopped, asked, heard, removed, wanted, asks, misses,
                       surprises>>
    BY DEF ApplyDelta, LiveBase, LiveTyped
  <1>2. worker[w] \in WorkerStates /\ inRound = w
    BY <1>1 DEF LiveBase, LiveTyped, RoundLockHeld, InRoundPcs
  <1>3. /\ state' \in [engine : {"idle", "running"}, tail : 0..MaxLines]
        /\ state'.engine = state.engine
        /\ state'.tail = IF state.tail > worker[w].upto THEN state.tail ELSE worker[w].upto
    BY <1>1, <1>2 DEF LiveBase, LiveTyped, WorkerStates
  <1>4. copy' \in [Copies -> {"none", "old", "new"}]
    BY <1>1, ChangeDoes, LiveConstants DEF LiveBase
  <1>5. times' \in [Lines -> Nat] /\ slid' \subseteq Lines
    <2>1. Due(w) \subseteq Lines
      BY <1>2, LiveConstants DEF Due, WorkerStates, Lines
    <2> QED
      BY <1>1, <2>1 DEF LiveBase, LiveTyped
  <1>6. /\ worker' \in [Workers -> WorkerStates] /\ \A v \in Workers : Does(v, worker'[v])
        /\ inFlight' \in BOOLEAN /\ inRound' \in Workers \union {NoRound} /\ OtherWorkers(w)
        /\ \/ /\ worker'[w].pc = "compacting" /\ worker'[w].on = worker[w].on
              /\ inRound' = inRound
           \/ RoundOver(w) /\ inRound' = NoRound /\ worker'[w].pc \notin InRoundPcs
    <2>1. CASE Turn(w, "compacting") /\ UNCHANGED <<inRound, inFlight>>
      BY <2>1, WorkerTurns DEF LiveBase, LiveTyped, LoopPcs, FinalPcs
    <2>2. CASE /\ worker' = [worker EXCEPT ![w] = AfterRound(w)]
               /\ inRound' = NoRound /\ Landed(w)
      <3>1. /\ worker' \in [Workers -> WorkerStates] /\ \A v \in Workers : Does(v, worker'[v])
            /\ RoundOver(w) /\ OtherWorkers(w)
        BY <2>2, RoundEnds DEF LiveBase, RoundOver
      <3>2. worker'[w].pc \notin InRoundPcs
        BY <3>1 DEF RoundOver, Workers, InRoundPcs
      <3> QED
        BY <2>2, <3>1, <3>2, LandedTyped
    <2> QED
      BY <1>1, <2>1, <2>2
  <1>7. LiveTyped'
    BY <1>1, <1>3, <1>4, <1>5, <1>6 DEF LiveBase, LiveTyped
  <1>8. LockMoves(w)
    BY <1>1, <1>2, <1>6 DEF LockMoves, InRoundPcs
  <1>9. asks' \in Nat /\ asks' >= asks
    BY <1>1, LiveConstants DEF LiveBase, LiveTyped
  <1>10. RoundLockHeld' /\ Started'
    BY <1>1, <1>6, <1>8, <1>9, WorkerKept
  <1> QED
    BY <1>1, <1>3, <1>6, <1>7, <1>10 DEF LiveKept

\* A round without a usable answer is over.
LEMMA MissRoundDoes ==
  ASSUME LiveBase, NEW w \in Workers, MissRound(w)
  PROVE  /\ LiveKept
         /\ worker[w].pc \in {"asking", "compacting"} /\ RoundOver(w) /\ inRound' = NoRound
         /\ UNCHANGED <<state, copy, gen, handle, event, stopped, asked, heard, times,
                        slid, removed, wanted, asks>>
  <1>1. /\ worker[w].pc \in {"asking", "compacting"} /\ misses' = misses + 1
        /\ worker' = [worker EXCEPT ![w] = AfterRound(w)]
        /\ inRound' = NoRound /\ Landed(w)
        /\ Surprise("missed", w \in Finals /\ worker[w].pc = "asking")
        /\ UNCHANGED <<state, copy, gen, handle, event, stopped, asked, heard, times,
                       slid, removed, wanted, asks>>
    BY DEF MissRound
  <1>2. /\ worker' \in [Workers -> WorkerStates] /\ \A v \in Workers : Does(v, worker'[v])
        /\ RoundOver(w) /\ OtherWorkers(w)
    BY <1>1, RoundEnds DEF LiveBase, RoundOver
  <1>3. worker'[w].pc \notin InRoundPcs
    BY <1>2 DEF RoundOver, Workers, InRoundPcs
  <1>4. surprises \subseteq surprises' /\ surprises' \subseteq Surprises
    BY <1>1, SurpriseDoes DEF LiveBase, Surprises
  <1>5. misses' \in Nat /\ inFlight' \in BOOLEAN
    BY <1>1, LandedTyped DEF LiveBase, LiveTyped
  <1>6. LiveTyped'
    BY <1>1, <1>2, <1>4, <1>5 DEF LiveBase, LiveTyped
  <1>7. LockMoves(w)
    BY <1>1, <1>3 DEF LockMoves, InRoundPcs, LiveBase, RoundLockHeld
  <1>8. asks' \in Nat /\ asks' >= asks
    BY <1>1, LiveConstants DEF LiveBase, LiveTyped
  <1>9. RoundLockHeld' /\ Started'
    BY <1>1, <1>2, <1>3, <1>7, <1>8, WorkerKept DEF InRoundPcs
  <1> QED
    BY <1>1, <1>2, <1>4, <1>6, <1>9 DEF LiveKept

\* The compacted entries are in the state, and w has a copy.
LEMMA CompactDoes ==
  ASSUME LiveBase, NEW w \in Workers, Compact(w)
  PROVE  /\ LiveKept
         /\ worker[w].pc = "compacting" /\ worker'[w].pc = "save" /\ worker'[w].on = worker[w].on
         /\ OtherWorkers(w)
         /\ Change(w)
         /\ UNCHANGED <<state, gen, handle, event, stopped, asked, inRound, inFlight, heard, times,
                        slid, removed, wanted, asks, misses, surprises>>
  <1>1. /\ worker[w].pc = "compacting" /\ Change(w) /\ Turn(w, "save") /\ w \in Copies
        /\ UNCHANGED <<state, gen, handle, event, stopped, asked, inRound, inFlight, heard, times,
                       slid, removed, wanted, asks, misses, surprises>>
    BY LiveConstants DEF Compact
  <1>2. /\ worker' \in [Workers -> WorkerStates] /\ \A v \in Workers : Does(v, worker'[v])
        /\ worker'[w].pc = "save" /\ worker'[w].on = worker[w].on /\ OtherWorkers(w)
    BY <1>1, WorkerTurns DEF LiveBase, LoopPcs, FinalPcs
  <1>3. copy' \in [Copies -> {"none", "old", "new"}]
    BY <1>1, ChangeDoes DEF LiveBase
  <1>4. LiveTyped'
    BY <1>1, <1>2, <1>3 DEF LiveBase, LiveTyped
  <1>5. LockMoves(w)
    BY <1>1, <1>2 DEF LockMoves, InRoundPcs
  <1>6. asks' \in Nat /\ asks' >= asks
    BY <1>1, LiveConstants DEF LiveBase, LiveTyped
  <1>7. RoundLockHeld' /\ Started'
    BY <1>1, <1>2, <1>5, <1>6, WorkerKept
  <1> QED
    BY <1>1, <1>2, <1>4, <1>7 DEF LiveKept

\* w's copy is written, and the round is over.
LEMMA SaveCompactedDoes ==
  ASSUME LiveBase, NEW w \in Workers, SaveCompacted(w)
  PROVE  /\ LiveKept
         /\ worker[w].pc = "save" /\ RoundOver(w) /\ inRound' = NoRound
         /\ Write(w)
         /\ UNCHANGED <<state, gen, handle, event, stopped, asked, heard, times, slid,
                        removed, wanted, asks, misses>>
  <1>1. /\ worker[w].pc = "save" /\ worker' = [worker EXCEPT ![w] = AfterRound(w)]
        /\ inRound' = NoRound /\ Landed(w) /\ Write(w) /\ w \in Copies /\ w # File
        /\ UNCHANGED <<state, gen, handle, event, stopped, asked, heard, times, slid,
                       removed, wanted, asks, misses>>
    BY LiveConstants DEF SaveCompacted
  <1>2. /\ worker' \in [Workers -> WorkerStates] /\ \A v \in Workers : Does(v, worker'[v])
        /\ RoundOver(w) /\ OtherWorkers(w)
    BY <1>1, RoundEnds DEF LiveBase, RoundOver
  <1>3. worker'[w].pc \notin InRoundPcs
    BY <1>2 DEF RoundOver, Workers, InRoundPcs
  <1>4. /\ copy' \in [Copies -> {"none", "old", "new"}]
        /\ surprises \subseteq surprises' /\ surprises' \subseteq Surprises
    BY <1>1, WriteDoes DEF LiveBase
  <1>5. LiveTyped'
    BY <1>1, <1>2, <1>4, LandedTyped DEF LiveBase, LiveTyped
  <1>6. LockMoves(w)
    BY <1>1, <1>3 DEF LockMoves, InRoundPcs, LiveBase, RoundLockHeld
  <1>7. asks' \in Nat /\ asks' >= asks
    BY <1>1, LiveConstants DEF LiveBase, LiveTyped
  <1>8. RoundLockHeld' /\ Started'
    BY <1>1, <1>2, <1>6, <1>7, WorkerKept
  <1> QED
    BY <1>1, <1>2, <1>4, <1>5, <1>8 DEF LiveKept

----------------------------------------------------------------------------
\* Lines: what the tail, the windows and the rounds have to do with each other.

\* Only lines up to the tail were taken, and none twice.
Taken == \A s \in Lines : times[s] <= 1 /\ (s > state.tail => times[s] = 0)

\* A round that asks has the tail it began at, unless a reset crossed it.
Asking ==
  \A w \in Workers : worker[w].pc = "asking" =>
    /\ worker[w].had < worker[w].upto /\ state.tail <= worker[w].had
    /\ state.tail = worker[w].had \/ "crossed" \in surprises

\* Lines up to the tail were taken, or slid out of the window.
Passed == \A s \in Lines : s <= state.tail => times[s] = 1 \/ s \in slid \/ "crossed" \in surprises

LinesInv == Taken /\ Asking /\ Passed

\* Steps that neither begin a round nor move the tail.
LEMMA LinesQuiet ==
  ASSUME LiveBase, LinesInv, state'.tail = state.tail, UNCHANGED <<times, slid>>,
         surprises \subseteq surprises',
         \A w \in Workers : worker'[w].pc = "asking" => worker'[w] = worker[w]
  PROVE  LinesInv'
  BY DEF LinesInv, Taken, Asking, Passed

\* A thread gets on to something else.
LEMMA LinesTurn ==
  ASSUME LiveBase, LinesInv, state'.tail = state.tail, UNCHANGED <<times, slid>>,
         surprises \subseteq surprises',
         NEW w \in Workers, OtherWorkers(w), worker'[w].pc # "asking"
  PROVE  LinesInv'
  BY LinesQuiet DEF OtherWorkers

\* A round that is over asks no more.
LEMMA OverIsNotAsking ==
  ASSUME NEW w \in Workers, RoundOver(w)
  PROVE  OtherWorkers(w) /\ worker'[w].pc \notin {"asking", "save", "saveLast"}
  BY DEF RoundOver, Workers

\* A round is applied while the tail is where it was, or was reset.
LEMMA LinesApply ==
  ASSUME LiveBase, LinesInv, NEW w \in Workers, ApplyDelta(w)
  PROVE  LinesInv'
  <1>1. /\ worker[w].pc = "asking"
        /\ state'.tail = IF state.tail > worker[w].upto THEN state.tail ELSE worker[w].upto
        /\ times' = [s \in Lines |-> IF s \in Seen(w) THEN times[s] + 1 ELSE times[s]]
        /\ slid' = slid \union (Due(w) \ Seen(w))
        /\ OtherWorkers(w) /\ worker'[w].pc # "asking" /\ surprises' = surprises
    BY ApplyDeltaDoes, OverIsNotAsking
  <1>2. /\ worker[w].had \in Nat /\ worker[w].upto \in Nat /\ state.tail \in Nat
        /\ times \in [Lines -> Nat] /\ Lines \subseteq Nat
    <2>1. worker[w] \in WorkerStates /\ state.tail \in 0..MaxLines /\ times \in [Lines -> Nat]
      BY DEF LiveBase, LiveTyped
    <2>2. worker[w].had \in 0..MaxLines /\ worker[w].upto \in 0..MaxLines
      BY <2>1 DEF WorkerStates
    <2>3. Lines \subseteq Nat
      BY LiveConstants DEF Lines
    <2> QED
      BY <2>1, <2>2, <2>3, LiveConstants
  <1>3. /\ worker[w].had < worker[w].upto /\ state.tail <= worker[w].had
        /\ state.tail = worker[w].had \/ "crossed" \in surprises
    BY <1>1 DEF LinesInv, Asking
  <1>4. state'.tail = worker[w].upto
    BY <1>1, <1>2, <1>3
  <1>5. \A s \in Lines : /\ s \in Due(w) <=> worker[w].had < s /\ s <= worker[w].upto
                         /\ s \in Seen(w) => s \in Due(w)
    BY <1>2 DEF Due, Seen
  <1>6. \A s \in Lines : times'[s] = IF s \in Seen(w) THEN times[s] + 1 ELSE times[s]
    BY <1>1
  <1>7. Taken'
    <2> SUFFICES ASSUME NEW s \in Lines
                 PROVE  times'[s] <= 1 /\ (s > state'.tail => times'[s] = 0)
      BY DEF Taken
    <2>1. times[s] \in Nat /\ s \in Nat /\ times[s] <= 1 /\ (s > state.tail => times[s] = 0)
      BY <1>2 DEF LinesInv, Taken
    <2> QED
      BY <1>2, <1>3, <1>4, <1>5, <1>6, <2>1
  <1>8. Passed'
    <2> SUFFICES ASSUME NEW s \in Lines, s <= state'.tail
                 PROVE  times'[s] = 1 \/ s \in slid' \/ "crossed" \in surprises'
      BY DEF Passed
    <2>1. /\ times[s] \in Nat /\ s \in Nat
          /\ s > state.tail => times[s] = 0
          /\ s <= state.tail => times[s] = 1 \/ s \in slid \/ "crossed" \in surprises
      BY <1>2 DEF LinesInv, Taken, Passed
    <2>2. CASE s <= state.tail
      BY <1>1, <1>2, <1>3, <1>5, <1>6, <2>1, <2>2
    <2>3. CASE s > state.tail
      BY <1>1, <1>2, <1>3, <1>4, <1>5, <1>6, <2>1, <2>3
    <2> QED
      BY <1>2, <2>1, <2>2, <2>3
  <1>9. Asking'
    <2>1. \A v \in Workers : worker'[v].pc # "asking"
      BY <1>1 DEF OtherWorkers, LiveBase, RoundLockHeld, InRoundPcs
    <2> QED
      BY <2>1 DEF Asking
  <1> QED
    BY <1>7, <1>8, <1>9 DEF LinesInv

\* Every step keeps the lines right.
LEMMA LinesStep ==
  ASSUME LiveBase, LinesInv, LiveNext
  PROVE  LinesInv'
  <1> DEFINE P == LinesInv'
  <1> SUFFICES P
    OBVIOUS
  <1>1. ASSUME Hear PROVE P
    BY <1>1, HearDoes, LinesQuiet DEF LiveKept
  <1>2. ASSUME StartLoop PROVE P
    <2>1. /\ state' = state /\ UNCHANGED <<times, slid>> /\ surprises \subseteq surprises'
          /\ \/ UNCHANGED worker
             \/ handle' \in Loops /\ worker'[handle'].pc = "waiting" /\ OtherWorkers(handle')
      BY <1>2, StartLoopDoes DEF LiveKept
    <2>2. CASE UNCHANGED worker
      BY <2>1, <2>2, LinesQuiet
    <2>3. CASE handle' \in Loops /\ worker'[handle'].pc = "waiting" /\ OtherWorkers(handle')
      BY <2>1, <2>3, LinesTurn, LiveConstants
    <2> QED
      BY <2>1, <2>2, <2>3
  <1>3. ASSUME Joined PROVE P
    BY <1>3, JoinedDoes, LinesQuiet DEF LiveKept
  <1>4. ASSUME GoIdle PROVE P
    BY <1>4, GoIdleDoes, LinesQuiet DEF LiveKept
  <1>5. ASSUME SaveCall PROVE P
    BY <1>5, SaveCallDoes, LinesQuiet DEF LiveKept
  <1>6. ASSUME Unlink PROVE P
    BY <1>6, UnlinkDoes, LinesQuiet DEF LiveKept
  <1>7. ASSUME Start PROVE P
    BY <1>7, StartDoes, LinesQuiet DEF LiveKept
  <1>8. ASSUME NEW kind \in {"stop", "discard"}, Stop(kind) PROVE P
    BY <1>8, StopDoes, LinesQuiet DEF LiveKept
  <1>9. ASSUME Reset PROVE P
    <2>1. /\ state'.tail = 0 /\ times' = [s \in Lines |-> 0] /\ worker' = worker
          /\ surprises \subseteq surprises'
          /\ inRound # NoRound => "crossed" \in surprises'
      BY <1>9, ResetDoes DEF LiveKept
    <2>2. Lines \subseteq Nat \ {0}
      BY LiveConstants DEF Lines
    <2>3. Taken' /\ Passed'
      BY <2>1, <2>2 DEF Taken, Passed
    <2>4. Asking'
      <3> SUFFICES ASSUME NEW w \in Workers, worker[w].pc = "asking"
                   PROVE  /\ worker[w].had < worker[w].upto /\ 0 <= worker[w].had
                          /\ "crossed" \in surprises'
        BY <2>1 DEF Asking
      <3>1. worker[w].had < worker[w].upto /\ worker[w].had \in Nat
        BY LiveConstants DEF LinesInv, Asking, LiveBase, LiveTyped, WorkerStates
      <3>2. inRound # NoRound
        BY LiveConstants DEF LiveBase, RoundLockHeld, InRoundPcs
      <3> QED
        BY <2>1, <3>1, <3>2
    <2> QED
      BY <2>3, <2>4 DEF LinesInv
  <1>10. ASSUME NEW l \in Loops, Wake(l) PROVE P
    BY <1>10, WakeDoes, LinesTurn, LiveConstants DEF LiveKept
  <1>11. ASSUME NEW w \in Workers, Round(w) PROVE P
    <2>1. CASE SkipRound(w)
      BY <2>1, SkipRoundDoes, OverIsNotAsking, LinesTurn DEF LiveKept
    <2>2. CASE BeginRound(w)
      <3>1. /\ worker'[w].pc = "asking" /\ OtherWorkers(w) /\ worker'[w].upto = heard
            /\ worker'[w].had = state.tail /\ state.tail < heard
            /\ UNCHANGED <<state, times, slid, surprises>>
        BY <2>2, BeginRoundDoes
      <3>2. state.tail \in Nat /\ heard \in Nat
        BY LiveConstants DEF LiveBase, LiveTyped
      <3>3. Asking'
        BY <3>1, <3>2 DEF LinesInv, Asking, OtherWorkers
      <3> QED
        BY <3>1, <3>3 DEF LinesInv, Taken, Passed
    <2>3. CASE ApplyDelta(w)
      BY <2>3, LinesApply
    <2>4. CASE MissRound(w)
      BY <2>4, MissRoundDoes, OverIsNotAsking, LinesTurn DEF LiveKept
    <2>5. CASE Compact(w)
      BY <2>5, CompactDoes, LinesTurn DEF LiveKept
    <2>6. CASE SaveCompacted(w)
      BY <2>6, SaveCompactedDoes, OverIsNotAsking, LinesTurn DEF LiveKept
    <2> QED
      BY <1>11, <2>1, <2>2, <2>3, <2>4, <2>5, <2>6 DEF Round
  <1>12. ASSUME NEW f \in Finals, FinishRecording(f) PROVE P
    BY <1>12, FinishRecordingDoes, LinesTurn, LiveConstants DEF LiveKept
  <1>13. ASSUME NEW f \in Finals, Finalize(f) PROVE P
    <2> f \in Workers
      BY LiveConstants
    <2>1. CASE ReadGeneration(f)
      BY <2>1, ReadGenerationDoes, LinesTurn DEF LiveKept
    <2>2. CASE StopLoop(f)
      BY <2>2, StopLoopDoes, LinesTurn DEF LiveKept
    <2>3. CASE JoinLoop(f)
      BY <2>3, JoinLoopDoes, LinesTurn DEF LiveKept
    <2>4. CASE Epilogue(f)
      BY <2>4, EpilogueDoes, LinesTurn DEF LiveKept
    <2>5. CASE SaveLast(f)
      BY <2>5, SaveLastDoes, FreshTyped, LinesTurn DEF LiveKept
    <2> QED
      BY <1>11, <1>13, <2>1, <2>2, <2>3, <2>4, <2>5 DEF Finalize
  <1> HIDE DEF P
  <1> QED
    BY <1>1, <1>2, <1>3, <1>4, <1>5, <1>6, <1>7, <1>8, <1>9, <1>10, <1>11, <1>12, <1>13, LiveConstants
    DEF LiveNext, Serve, Work

----------------------------------------------------------------------------
\* The file: who holds a copy of the state, and how old they are.

\* A snapshot is held from when it is taken until it is written.
Holders ==
  /\ copy[Call] # "none" <=> asked.pc = "save"
  /\ \A w \in Workers : copy[w] # "none" <=> worker[w].pc \in {"save", "saveLast"}

\* The newest state is in the file or in somebody's hand, except while start has
\* not taken its snapshot yet.
Current ==
  \/ "overtaken" \in surprises \/ removed \/ asked.pc = "thread"
  \/ \E c \in Copies : copy[c] = "new"
  \/ \A c \in Copies : copy[c] = "none"

\* A recording is gone from the call on that discards it.
Discarding == /\ asked.pc # "idle" => (removed <=> asked.kind = "discard")
              /\ asked.pc = "unlink" => asked.kind = "discard"

\* Nobody writes the file of a recording that is gone.
Gone ==
  removed /\ asked.pc = "idle" /\ "late" \notin surprises =>
    /\ copy[File] = "none"
    /\ \A f \in Finals : worker[f].pc = "unused"
    /\ \A l \in Loops : \/ worker[l].pc \in {"unused", "dead"}
                        \/ worker[l].pc = "waiting" /\ worker[l].on \in stopped

FileInv == Holders /\ Current /\ Discarding /\ Gone

\* A thread that takes no copy and has none.
LEMMA FileTurn ==
  ASSUME LiveBase, FileInv, LiveKept, NEW w \in Workers, OtherWorkers(w),
         worker[w].pc \in {"save", "saveLast"} <=> worker'[w].pc \in {"save", "saveLast"},
         UNCHANGED <<copy, asked, removed, stopped>>,
         removed /\ asked.pc = "idle" /\ "late" \notin surprises =>
           w \in Loops /\ worker'[w].pc = "dead"
  PROVE  FileInv'
  <1>1. Holders'
    BY DEF FileInv, Holders, OtherWorkers
  <1>2. Current' /\ Discarding'
    BY DEF FileInv, Current, Discarding, LiveKept
  <1>3. Gone'
    <2> SUFFICES ASSUME removed, asked.pc = "idle", "late" \notin surprises'
                 PROVE  Gone'
      BY DEF Gone
    <2>1. /\ "late" \notin surprises /\ w \in Loops /\ w \notin Finals /\ worker'[w].pc = "dead"
          /\ Loops \subseteq Workers /\ Finals \subseteq Workers
      BY LiveConstants DEF LiveKept
    <2>2. /\ copy[File] = "none"
          /\ \A f \in Finals : worker[f].pc = "unused"
          /\ \A l \in Loops : \/ worker[l].pc \in {"unused", "dead"}
                              \/ worker[l].pc = "waiting" /\ worker[l].on \in stopped
      BY <2>1 DEF FileInv, Gone
    <2> QED
      BY <2>1, <2>2 DEF Gone, OtherWorkers
  <1> QED
    BY <1>1, <1>2, <1>3 DEF FileInv

\* A thread of a recording that is gone does nothing but end.
LEMMA GoneRests ==
  ASSUME LiveBase, FileInv, removed, asked.pc = "idle", "late" \notin surprises, NEW w \in Workers
  PROVE  /\ worker[w].pc \in {"unused", "dead", "waiting"}
         /\ worker[w].pc = "waiting" => worker[w].on \in stopped
  BY DEF FileInv, Gone, Workers

\* c's snapshot is written, and w or the call goes on.
LEMMA WriteKeeps ==
  ASSUME LiveBase, FileInv, LiveKept, NEW c \in Copies \ {File}, copy[c] # "none", Write(c),
         UNCHANGED removed, asked.pc # "thread" => asked'.pc # "thread",
         asked.pc = "thread" => asked'.pc = "thread"
  PROVE  Current'
  <1>1. /\ copy' \in [Copies -> {"none", "old", "new"}]
        /\ copy'[File] = copy[c] /\ copy'[c] = "none"
        /\ \A d \in Copies \ {c, File} : copy'[d] = copy[d]
        /\ surprises \subseteq surprises'
        /\ "overtaken" \notin surprises' => ~ (copy[c] = "old" /\ copy[File] = "new")
    BY WriteDoes DEF LiveBase
  <1>2. CASE "overtaken" \in surprises' \/ removed \/ asked.pc = "thread"
    BY <1>2 DEF Current
  <1>3. CASE ~ ("overtaken" \in surprises' \/ removed \/ asked.pc = "thread")
    <2>1. PICK d \in Copies : copy[d] = "new"
      BY <1>1, <1>3 DEF FileInv, Current
    <2>2. copy[c] \in {"old", "new"} /\ File \in Copies
      BY LiveConstants DEF LiveBase, LiveTyped
    <2>3. \E e \in Copies : copy'[e] = "new"
      <3>1. CASE copy[c] = "new"
        BY <1>1, <2>2, <3>1
      <3>2. CASE copy[c] = "old"
        <4>1. d # c /\ d # File
          BY <1>1, <1>3, <2>1, <3>2
        <4> QED
          BY <1>1, <2>1, <4>1
      <3> QED
        BY <2>2, <3>1, <3>2
    <2> QED
      BY <2>3 DEF Current
  <1> QED
    BY <1>2, <1>3

\* A thread writes its copy.
LEMMA FileWrite ==
  ASSUME LiveBase, FileInv, LiveKept, NEW w \in Workers, OtherWorkers(w), Write(w),
         worker[w].pc \in {"save", "saveLast"}, worker'[w].pc \notin {"save", "saveLast"},
         UNCHANGED <<asked, removed, stopped>>
  PROVE  FileInv'
  <1>1. w \in Copies \ {File} /\ w # Call /\ Call # File /\ Call \in Copies /\ File \notin Workers
        /\ Workers \subseteq Copies
    BY LiveConstants
  <1>2. /\ copy'[w] = "none" /\ \A d \in Copies \ {w, File} : copy'[d] = copy[d]
    BY <1>1, WriteDoes DEF LiveBase
  <1>3. Holders'
    BY <1>1, <1>2 DEF FileInv, Holders, OtherWorkers
  <1>4. copy[w] # "none"
    BY DEF FileInv, Holders
  <1>5. Current'
    BY <1>1, <1>4, WriteKeeps
  <1>6. Discarding'
    BY DEF FileInv, Discarding
  <1>7. Gone'
    <2>1. ~ (removed /\ asked.pc = "idle" /\ "late" \notin surprises)
      BY GoneRests
    <2> QED
      BY <2>1 DEF Gone, LiveKept
  <1> QED
    BY <1>3, <1>5, <1>6, <1>7 DEF FileInv

\* A thread takes a copy, of a state that is newer or the same.
LEMMA FileTake ==
  ASSUME LiveBase, FileInv, LiveKept, NEW w \in Workers, OtherWorkers(w),
         Change(w) \/ copy' = [copy EXCEPT ![w] = "new"],
         worker[w].pc \notin {"unused", "dead", "waiting"}, worker'[w].pc \in {"save", "saveLast"},
         UNCHANGED <<asked, removed>>
  PROVE  FileInv'
  <1>1. w \in Copies /\ w # Call /\ Call \in Copies /\ Workers \subseteq Copies
    BY LiveConstants
  <1>2. copy'[w] = "new" /\ \A d \in Copies \ {w} : copy'[d] = "none" <=> copy[d] = "none"
    BY <1>1, ChangeDoes DEF LiveBase, LiveTyped
  <1>3. Holders'
    BY <1>1, <1>2 DEF FileInv, Holders, OtherWorkers
  <1>4. Current'
    BY <1>1, <1>2 DEF Current
  <1>5. Discarding'
    BY DEF FileInv, Discarding
  <1>6. Gone'
    <2>1. ~ (removed /\ asked.pc = "idle" /\ "late" \notin surprises)
      BY GoneRests
    <2> QED
      BY <2>1 DEF Gone, LiveKept
  <1> QED
    BY <1>3, <1>4, <1>5, <1>6 DEF FileInv

\* A round writes the file itself.
LEMMA FileApply ==
  ASSUME LiveBase, FileInv, NEW w \in Workers, ApplyDelta(w)
  PROVE  FileInv'
  <1>1. /\ LiveKept /\ worker[w].pc = "asking" /\ Change(File) /\ OtherWorkers(w)
        /\ worker'[w].pc \notin {"save", "saveLast"}
        /\ UNCHANGED <<asked, removed>>
    BY ApplyDeltaDoes, OverIsNotAsking
  <1>2. File \in Copies /\ File # Call /\ Call \in Copies /\ Workers \subseteq Copies /\ File \notin Workers
    BY LiveConstants
  <1>3. copy'[File] = "new" /\ \A d \in Copies \ {File} : copy'[d] = "none" <=> copy[d] = "none"
    BY <1>1, <1>2, ChangeDoes DEF LiveBase
  <1>4. Holders'
    BY <1>1, <1>2, <1>3 DEF FileInv, Holders, OtherWorkers
  <1>5. Current'
    BY <1>2, <1>3 DEF Current
  <1>6. Discarding'
    BY <1>1 DEF FileInv, Discarding
  <1>7. Gone'
    <2>1. ~ (removed /\ asked.pc = "idle" /\ "late" \notin surprises)
      BY <1>1, GoneRests
    <2> QED
      BY <1>1, <2>1 DEF Gone, LiveKept
  <1> QED
    BY <1>4, <1>5, <1>6, <1>7 DEF FileInv

\* A call takes its copy.
LEMMA CallTakes ==
  ASSUME LiveBase, FileInv, LiveKept,
         Change(Call) \/ copy' = [copy EXCEPT ![Call] = "new"],
         asked'.pc = "save", removed' <=> asked'.kind = "discard",
         \A w \in Workers : worker'[w].pc \in {"save", "saveLast"} <=> worker[w].pc \in {"save", "saveLast"}
  PROVE  FileInv'
  <1>1. Call \in Copies /\ Call \notin Workers /\ Workers \subseteq Copies
    BY LiveConstants
  <1>2. copy'[Call] = "new" /\ \A d \in Copies \ {Call} : copy'[d] = "none" <=> copy[d] = "none"
    BY <1>1, ChangeDoes DEF LiveBase, LiveTyped
  <1>3. Holders'
    BY <1>1, <1>2 DEF FileInv, Holders
  <1>4. Current'
    BY <1>1, <1>2 DEF Current
  <1> QED
    BY <1>3, <1>4 DEF FileInv, Discarding, Gone

\* A call goes on without a copy.
LEMMA CallGoesOn ==
  ASSUME LiveBase, FileInv, LiveKept, UNCHANGED <<copy, worker>>,
         asked.pc \notin {"save", "thread"}, asked'.pc \notin {"save", "idle", "unlink"},
         removed' <=> asked'.kind = "discard", removed => removed'
  PROVE  FileInv'
  BY DEF FileInv, Holders, Current, Discarding, Gone, LiveKept

\* Every step keeps the file right.
LEMMA FileStep ==
  ASSUME LiveBase, FileInv, LiveNext
  PROVE  FileInv'
  <1> DEFINE P == FileInv'
  <1> SUFFICES P
    OBVIOUS
  <1>1. ASSUME Hear PROVE P
    <2>1. LiveKept /\ UNCHANGED <<copy, worker, asked, removed, stopped>>
      BY <1>1, HearDoes
    <2> QED
      BY <2>1 DEF FileInv, Holders, Current, Discarding, Gone, LiveKept
  <1>2. ASSUME StartLoop PROVE P
    <2>1. /\ LiveKept /\ copy' = [copy EXCEPT ![Call] = "new"]
          /\ asked.pc = "thread" /\ asked'.pc = "save" /\ asked'.kind = asked.kind /\ removed' = removed
          /\ \/ UNCHANGED worker
             \/ /\ handle' \in Loops /\ worker[handle'].pc = "unused" /\ worker'[handle'].pc = "waiting"
                /\ OtherWorkers(handle')
      BY <1>2, StartLoopDoes
    <2>2. \A w \in Workers : worker'[w].pc \in {"save", "saveLast"} <=> worker[w].pc \in {"save", "saveLast"}
      BY <2>1 DEF OtherWorkers
    <2>3. removed' <=> asked'.kind = "discard"
      BY <2>1 DEF FileInv, Discarding
    <2> QED
      BY <2>1, <2>2, <2>3, CallTakes
  <1>3. ASSUME Joined PROVE P
    <2>1. /\ LiveKept /\ UNCHANGED <<copy, worker, removed>>
          /\ asked.pc = "join" /\ asked'.pc = "idling" /\ asked'.kind = asked.kind
      BY <1>3, JoinedDoes
    <2>2. removed' <=> asked'.kind = "discard"
      BY <2>1 DEF FileInv, Discarding
    <2> QED
      BY <2>1, <2>2, CallGoesOn
  <1>4. ASSUME GoIdle PROVE P
    <2>1. /\ LiveKept /\ Change(Call) /\ UNCHANGED <<worker, removed>>
          /\ asked.pc = "idling" /\ asked'.pc = "save" /\ asked'.kind = asked.kind
      BY <1>4, GoIdleDoes
    <2>2. removed' <=> asked'.kind = "discard"
      BY <2>1 DEF FileInv, Discarding
    <2> QED
      BY <2>1, <2>2, CallTakes
  <1>5. ASSUME SaveCall PROVE P
    <2>1. /\ LiveKept /\ Write(Call) /\ UNCHANGED <<worker, removed, stopped>> /\ asked.pc = "save"
          /\ IF asked.kind = "discard" THEN asked'.pc = "unlink" /\ asked'.kind = "discard"
                                       ELSE asked'.pc = "idle" /\ asked'.kind = "none"
      BY <1>5, SaveCallDoes
    <2>2. Call \in Copies \ {File} /\ Call \notin Workers /\ File \notin Workers /\ Workers \subseteq Copies
      BY LiveConstants
    <2>3. /\ copy'[Call] = "none" /\ \A d \in Copies \ {Call, File} : copy'[d] = copy[d]
      BY <2>1, <2>2, WriteDoes DEF LiveBase
    <2>4. Holders'
      BY <2>1, <2>2, <2>3 DEF FileInv, Holders
    <2>5. copy[Call] # "none" /\ (removed <=> asked.kind = "discard")
      BY <2>1 DEF FileInv, Holders, Discarding
    <2>6. Current'
      BY <2>1, <2>2, <2>5, WriteKeeps
    <2>7. Discarding' /\ Gone'
      BY <2>1, <2>5 DEF Discarding, Gone
    <2> QED
      BY <2>4, <2>6, <2>7 DEF FileInv
  <1>6. ASSUME Unlink PROVE P
    <2>1. /\ LiveKept /\ asked.pc = "unlink" /\ asked'.pc = "idle" /\ asked'.kind = "none"
          /\ copy' = [copy EXCEPT ![File] = "none"]
          /\ \/ "late" \in surprises'
             \/ /\ \A f \in Finals : worker[f].pc = "unused"
                /\ \A l \in Loops : \/ worker[l].pc \in {"unused", "dead"}
                                    \/ worker[l].pc = "waiting" /\ worker[l].on \in stopped
          /\ UNCHANGED <<worker, removed, stopped>>
      BY <1>6, UnlinkDoes
    <2>2. /\ Call \in Copies /\ Call \notin Workers /\ File \notin Workers /\ Workers \subseteq Copies
          /\ File \in Copies /\ File # Call
      BY LiveConstants
    <2>3. copy'[File] = "none" /\ \A d \in Copies \ {File} : copy'[d] = copy[d]
      BY <2>1, <2>2 DEF LiveBase, LiveTyped
    <2>4. Holders'
      BY <2>1, <2>2, <2>3 DEF FileInv, Holders
    <2>5. removed
      BY <2>1 DEF FileInv, Discarding
    <2>6. Current' /\ Discarding'
      BY <2>1, <2>5 DEF Current, Discarding
    <2>7. Gone'
      BY <2>1, <2>3 DEF Gone
    <2> QED
      BY <2>4, <2>6, <2>7 DEF FileInv
  <1>7. ASSUME Start PROVE P
    <2>1. /\ LiveKept /\ asked.pc = "idle" /\ asked'.pc = "thread" /\ asked'.kind = "start"
          /\ ~ removed /\ copy' = Aged /\ UNCHANGED <<worker, removed>>
      BY <1>7, StartDoes
    <2>2. \A d \in Copies : copy'[d] = "none" <=> copy[d] = "none"
      BY <2>1, CopiesAge DEF LiveBase
    <2>3. Holders'
      BY <2>1, <2>2, LiveConstants DEF FileInv, Holders
    <2>4. Current' /\ Discarding' /\ Gone'
      BY <2>1 DEF Current, Discarding, Gone
    <2> QED
      BY <2>3, <2>4 DEF FileInv
  <1>8. ASSUME NEW kind \in {"stop", "discard"}, Stop(kind) PROVE P
    <2>1. /\ LiveKept /\ asked.pc = "idle" /\ asked'.pc \in {"join", "idling"} /\ asked'.kind = kind
          /\ ~ removed /\ removed' = (kind = "discard") /\ UNCHANGED <<copy, worker>>
      BY <1>8, StopDoes
    <2> QED
      BY <2>1, CallGoesOn
  <1>9. ASSUME Reset PROVE P
    <2>1. /\ LiveKept /\ Change(Call) /\ asked'.pc = "save" /\ asked'.kind = "reset" /\ ~ removed
          /\ UNCHANGED <<worker, removed>>
      BY <1>9, ResetDoes
    <2> QED
      BY <2>1, CallTakes
  <1>10. ASSUME NEW l \in Loops, Wake(l) PROVE P
    <2>1. /\ LiveKept /\ worker[l].pc = "waiting" /\ OtherWorkers(l)
          /\ worker'[l].pc \in {"dead", "waiting", "woken"}
          /\ worker[l].on \in stopped => worker'[l].pc = "dead"
          /\ UNCHANGED <<copy, asked, removed, stopped>>
      BY <1>10, WakeDoes
    <2>2. l \in Workers
      BY LiveConstants
    <2>3. removed /\ asked.pc = "idle" /\ "late" \notin surprises => worker'[l].pc = "dead"
      BY <2>1, <2>2, GoneRests
    <2> QED
      BY <2>1, <2>2, <2>3, FileTurn
  <1>11. ASSUME NEW w \in Workers, Round(w) PROVE P
    <2>1. CASE SkipRound(w)
      <3>1. LiveKept /\ worker[w].pc = "woken" /\ UNCHANGED <<copy, asked, removed, stopped>> /\ RoundOver(w)
        BY <2>1, SkipRoundDoes
      <3>2. OtherWorkers(w) /\ worker'[w].pc \notin {"save", "saveLast"}
        BY <3>1, OverIsNotAsking
      <3> QED
        BY <3>1, <3>2, GoneRests, FileTurn
    <2>2. CASE BeginRound(w)
      <3>1. /\ LiveKept /\ worker[w].pc = "woken" /\ worker'[w].pc = "asking" /\ OtherWorkers(w)
            /\ UNCHANGED <<copy, asked, removed, stopped>>
        BY <2>2, BeginRoundDoes
      <3> QED
        BY <3>1, GoneRests, FileTurn
    <2>3. CASE ApplyDelta(w)
      BY <2>3, FileApply
    <2>4. CASE MissRound(w)
      <3>1. /\ LiveKept /\ worker[w].pc \in {"asking", "compacting"} /\ RoundOver(w)
            /\ UNCHANGED <<copy, asked, removed, stopped>>
        BY <2>4, MissRoundDoes
      <3>2. OtherWorkers(w) /\ worker'[w].pc \notin {"save", "saveLast"}
        BY <3>1, OverIsNotAsking
      <3> QED
        BY <3>1, <3>2, GoneRests, FileTurn
    <2>5. CASE Compact(w)
      <3>1. /\ LiveKept /\ worker[w].pc = "compacting" /\ worker'[w].pc = "save" /\ OtherWorkers(w)
            /\ Change(w) /\ UNCHANGED <<asked, removed>>
        BY <2>5, CompactDoes
      <3> QED
        BY <3>1, FileTake
    <2>6. CASE SaveCompacted(w)
      <3>1. /\ LiveKept /\ worker[w].pc = "save" /\ RoundOver(w) /\ Write(w)
            /\ UNCHANGED <<asked, removed, stopped>>
        BY <2>6, SaveCompactedDoes
      <3>2. OtherWorkers(w) /\ worker'[w].pc \notin {"save", "saveLast"}
        BY <3>1, OverIsNotAsking
      <3> QED
        BY <3>1, <3>2, FileWrite
    <2> QED
      BY <1>11, <2>1, <2>2, <2>3, <2>4, <2>5, <2>6 DEF Round
  <1>12. ASSUME NEW f \in Finals, FinishRecording(f) PROVE P
    <2>1. /\ LiveKept /\ worker[f].pc = "unused" /\ worker'[f].pc = "begin" /\ OtherWorkers(f) /\ ~ removed
          /\ UNCHANGED <<copy, asked, removed, stopped>>
      BY <1>12, FinishRecordingDoes
    <2> QED
      BY <2>1, LiveConstants, FileTurn
  <1>13. ASSUME NEW f \in Finals, Finalize(f) PROVE P
    <2> f \in Workers
      BY LiveConstants
    <2>1. CASE ReadGeneration(f)
      <3>1. /\ LiveKept /\ worker[f].pc = "begin" /\ worker'[f].pc = "stop" /\ OtherWorkers(f)
            /\ UNCHANGED <<copy, asked, removed, stopped>>
        BY <2>1, ReadGenerationDoes
      <3> QED
        BY <3>1, GoneRests, FileTurn
    <2>2. CASE StopLoop(f)
      <3>1. /\ LiveKept /\ worker[f].pc = "stop" /\ worker'[f].pc \in {"woken", "joining"} /\ OtherWorkers(f)
            /\ UNCHANGED <<copy, asked, removed>>
        BY <2>2, StopLoopDoes
      <3>2. Holders'
        BY <3>1 DEF FileInv, Holders, OtherWorkers
      <3>3. Current' /\ Discarding'
        BY <3>1 DEF FileInv, Current, Discarding, LiveKept
      <3>4. ~ (removed /\ asked.pc = "idle" /\ "late" \notin surprises)
        BY <3>1, GoneRests
      <3>5. Gone'
        BY <3>1, <3>4 DEF Gone, LiveKept
      <3> QED
        BY <3>2, <3>3, <3>5 DEF FileInv
    <2>3. CASE JoinLoop(f)
      <3>1. /\ LiveKept /\ worker[f].pc = "joining" /\ worker'[f].pc = "woken" /\ OtherWorkers(f)
            /\ UNCHANGED <<copy, asked, removed, stopped>>
        BY <2>3, JoinLoopDoes
      <3> QED
        BY <3>1, GoneRests, FileTurn
    <2>4. CASE Epilogue(f)
      <3>1. /\ LiveKept /\ worker[f].pc = "epilogue" /\ worker'[f].pc = "saveLast" /\ OtherWorkers(f)
            /\ Change(f) \/ copy' = [copy EXCEPT ![f] = "new"]
            /\ UNCHANGED <<asked, removed>>
        BY <2>4, EpilogueDoes
      <3> QED
        BY <3>1, FileTake
    <2>5. CASE SaveLast(f)
      <3>1. /\ LiveKept /\ worker[f].pc = "saveLast" /\ worker'[f].pc = "unused" /\ OtherWorkers(f)
            /\ Write(f) /\ UNCHANGED <<asked, removed, stopped>>
        BY <2>5, SaveLastDoes, FreshTyped
      <3> QED
        BY <3>1, FileWrite
    <2> QED
      BY <1>11, <1>13, <2>1, <2>2, <2>3, <2>4, <2>5 DEF Finalize
  <1> HIDE DEF P
  <1> QED
    BY <1>1, <1>2, <1>3, <1>4, <1>5, <1>6, <1>7, <1>8, <1>9, <1>10, <1>11, <1>12, <1>13, LiveConstants
    DEF LiveNext, Serve, Work

----------------------------------------------------------------------------
\* The client: what it last asked for, the engine and the loops.

\* While stop waits for the loop and idles the engine, the loop's event is set.
Calling == /\ asked.pc \in {"join", "idling"} => ~ wanted /\ event \in stopped
           /\ asked.pc = "thread" => wanted

\* finalize has set the event and will idle the engine, if nobody starts it.
Ending(f) == worker[f].pc \in {"joining", "woken", "asking", "compacting", "save", "epilogue"}
Idles(f) == worker[f].pc = "begin" \/ ((worker[f].pc = "stop" \/ Ending(f)) /\ worker[f].on = gen)

\* Whoever started the engine since finalize began has another generation.
Generations ==
  \A f \in Finals : /\ worker[f].on <= gen
                    /\ Ending(f) /\ worker[f].on = gen => ~ wanted \/ "restarted" \in surprises

\* An engine the client wants runs, and one that runs is wanted or about to be
\* idled.
Running == wanted => \/ state.engine = "running"
                     \/ "restarted" \in surprises \/ "reset" \in surprises
Idling ==
  state.engine = "running" =>
    \/ wanted \/ asked.pc \in {"join", "idling"} \/ \E f \in Finals : Idles(f)
    \/ "restarted" \in surprises \/ "reset" \in surprises

\* While the event there is is not set, the loop the engine knows goes on, and
\* no other is left.
OneLoop ==
  \/ "orphaned" \in surprises \/ "outlived" \in surprises
  \/ event \in stopped \/ event = 0
  \/ handle # NoLoop /\ GoesOn(handle) /\ \A l \in Loops \ {handle} : ~ Alive(l)

\* The event is set when the client wants no engine, or finalize will set it ...
Stopping == ~ wanted => \/ event \in stopped \/ event = 0
                        \/ \E f \in Finals : worker[f].pc \in {"begin", "stop"}

\* ... and not set when it wants one.
Listening == wanted /\ asked.pc # "thread" => \/ event \notin stopped /\ event > 0
                                              \/ "restarted" \in surprises

ServeInv == /\ Calling /\ Generations /\ Running /\ Idling
            /\ OneLoop /\ Stopping /\ Listening

\* Nothing but the surprises changes, as far as the client is concerned.
ServeSame == /\ UNCHANGED <<gen, handle, event, stopped, wanted>>
             /\ state'.engine = state.engine

\* How a loop goes on.
LoopTurn(l) ==
  /\ Alive(l)
  /\ \/ worker'[l].pc = "dead" /\ worker[l].pc = "waiting" /\ worker[l].on \in stopped
     \/ /\ worker'[l].pc \notin {"dead", "unused"}
        /\ worker'[l].pc = "waiting" => worker'[l].on = event

\* How a thread that finalizes goes on, once it has stopped the loop.
FinalTurn(f) ==
  /\ worker[f].pc \notin {"begin", "stop"} /\ worker'[f].on <= gen
  /\ \/ Ending(f) /\ worker'[f].pc \in {"joining", "woken", "asking", "compacting", "save", "epilogue"}
        /\ worker'[f].on = worker[f].on
     \/ ~ Ending(f) /\ worker'[f].pc = "unused"

\* A loop gets on.
LEMMA ServeLoopTurn ==
  ASSUME LiveBase, ServeInv, LiveKept, NEW l \in Loops, OtherWorkers(l), ServeSame, LoopTurn(l),
         UNCHANGED asked
  PROVE  ServeInv'
  <1>1. /\ Loops \subseteq Workers /\ Finals \subseteq Workers
        /\ \A f \in Finals : worker'[f] = worker[f]
        /\ \A k \in Loops \ {l} : worker'[k] = worker[k]
        /\ surprises \subseteq surprises'
    BY LiveConstants DEF OtherWorkers, LiveKept
  <1>2. Calling' /\ Generations' /\ Running' /\ Stopping' /\ Listening'
    BY <1>1 DEF ServeInv, ServeSame, Calling, Generations, Running, Stopping, Listening, Ending
  <1>3. Idling'
    BY <1>1 DEF ServeInv, ServeSame, Idling, Idles, Ending
  <1>4. OneLoop'
    <2> SUFFICES ASSUME "orphaned" \notin surprises', "outlived" \notin surprises',
                        event \notin stopped, event # 0
                 PROVE  /\ handle # NoLoop /\ GoesOn(handle)'
                        /\ \A k \in Loops \ {handle} : ~ Alive(k)'
      BY DEF OneLoop, ServeSame, GoesOn, Alive
    <2>1. handle # NoLoop /\ GoesOn(handle) /\ \A k \in Loops \ {handle} : ~ Alive(k)
      BY <1>1 DEF ServeInv, OneLoop
    <2>2. handle = l
      BY <2>1 DEF LoopTurn
    <2>3. worker'[l].pc \notin {"dead", "unused"} /\ (worker'[l].pc = "waiting" => worker'[l].on = event)
      BY <2>1, <2>2 DEF LoopTurn, GoesOn
    <2> QED
      BY <1>1, <2>1, <2>2, <2>3 DEF GoesOn, Alive, ServeSame
  <1> QED
    BY <1>2, <1>3, <1>4 DEF ServeInv

\* No loop is touched.
LEMMA OneLoopKept ==
  ASSUME LiveBase, ServeInv, LiveKept, \A l \in Loops : worker'[l] = worker[l],
         UNCHANGED event, stopped \subseteq stopped',
         UNCHANGED handle \/ event \in stopped \/ "orphaned" \in surprises' \/ handle = NoLoop,
         stopped' = stopped \/ event \in stopped'
  PROVE  OneLoop'
  <1> SUFFICES ASSUME "orphaned" \notin surprises', "outlived" \notin surprises',
                      event \notin stopped', event # 0
               PROVE  (/\ handle # NoLoop /\ GoesOn(handle)
                       /\ \A k \in Loops \ {handle} : ~ Alive(k))'
    BY DEF OneLoop
  <1>1. handle # NoLoop /\ GoesOn(handle) /\ \A k \in Loops \ {handle} : ~ Alive(k)
    BY DEF ServeInv, OneLoop, LiveKept
  <1>2. handle' = handle /\ handle \in Loops /\ stopped' = stopped
    BY <1>1 DEF LiveBase, LiveTyped
  <1> QED
    BY <1>1, <1>2 DEF GoesOn, Alive

\* A thread that finalizes gets on.
LEMMA ServeFinalTurn ==
  ASSUME LiveBase, ServeInv, LiveKept, NEW f \in Finals, OtherWorkers(f), ServeSame, FinalTurn(f),
         UNCHANGED asked
  PROVE  ServeInv'
  <1>1. /\ f \in Workers /\ Finals \subseteq Workers
        /\ \A l \in Loops : worker'[l] = worker[l]
        /\ \A g \in Finals \ {f} : worker'[g] = worker[g]
        /\ surprises \subseteq surprises'
    BY LiveConstants DEF OtherWorkers, LiveKept
  <1>2. Calling' /\ Running' /\ Stopping' /\ Listening'
    BY <1>1 DEF ServeInv, ServeSame, Calling, Running, Stopping, Listening, FinalTurn
  <1>3. Generations'
    BY <1>1 DEF ServeInv, ServeSame, Generations, FinalTurn, Ending
  <1>4. Idling'
    BY <1>1 DEF ServeInv, ServeSame, Idling, Idles, FinalTurn, Ending
  <1>5. OneLoop'
    BY <1>1, OneLoopKept DEF ServeSame
  <1> QED
    BY <1>2, <1>3, <1>4, <1>5 DEF ServeInv

\* No thread is touched, nor what the client wants.
LEMMA ServeCallTurn ==
  ASSUME LiveBase, ServeInv, LiveKept, ServeSame, UNCHANGED worker,
         asked.pc \notin {"join", "idling", "thread"}, asked'.pc \notin {"join", "idling", "thread"}
  PROVE  ServeInv'
  <1>1. surprises \subseteq surprises'
    BY DEF LiveKept
  <1>2. Calling' /\ Generations' /\ Running' /\ Stopping' /\ Listening'
    BY <1>1 DEF ServeInv, ServeSame, Calling, Generations, Running, Stopping, Listening, Ending
  <1>3. Idling'
    BY <1>1 DEF ServeInv, ServeSame, Idling, Idles, Ending
  <1>4. OneLoop'
    BY OneLoopKept DEF ServeSame
  <1> QED
    BY <1>2, <1>3, <1>4 DEF ServeInv

\* A round changes nothing for the client, and its thread goes on.
LEMMA ServeRound ==
  ASSUME LiveBase, ServeInv, NEW w \in Workers, Round(w)
  PROVE  ServeInv'
  <1>1. /\ LiveKept /\ OtherWorkers(w) /\ ServeSame /\ UNCHANGED asked
        /\ worker[w].pc \in {"woken", "asking", "compacting", "save"}
        /\ \/ worker'[w].on = worker[w].on /\ worker'[w].pc \in {"asking", "compacting", "save"}
           \/ RoundOver(w)
    <2>1. CASE SkipRound(w)
      BY <2>1, SkipRoundDoes DEF ServeSame, RoundOver
    <2>2. CASE BeginRound(w)
      BY <2>2, BeginRoundDoes DEF ServeSame
    <2>3. CASE ApplyDelta(w)
      BY <2>3, ApplyDeltaDoes DEF ServeSame, RoundOver
    <2>4. CASE MissRound(w)
      BY <2>4, MissRoundDoes DEF ServeSame, RoundOver
    <2>5. CASE Compact(w)
      BY <2>5, CompactDoes DEF ServeSame
    <2>6. CASE SaveCompacted(w)
      BY <2>6, SaveCompactedDoes DEF ServeSame, RoundOver
    <2> QED
      BY <2>1, <2>2, <2>3, <2>4, <2>5, <2>6 DEF Round
  <1>2. CASE w \in Loops
    <2>1. LoopTurn(w)
      BY <1>1, <1>2 DEF LoopTurn, Alive, RoundOver
    <2> QED
      BY <1>1, <1>2, <2>1, ServeLoopTurn
  <1>3. CASE w \in Finals
    <2>1. /\ worker'[w].on = worker[w].on
          /\ worker'[w].pc \in {"asking", "compacting", "save", "epilogue"}
      BY <1>1, <1>3 DEF RoundOver
    <2>2. worker[w].on <= gen
      BY <1>3 DEF ServeInv, Generations
    <2>3. FinalTurn(w)
      BY <1>1, <2>1, <2>2 DEF FinalTurn, Ending
    <2> QED
      BY <1>1, <1>3, <2>3, ServeFinalTurn
  <1> QED
    BY <1>2, <1>3 DEF Workers

\* The steps of finalize outside its round.
LEMMA ServeFinalize ==
  ASSUME LiveBase, ServeInv, NEW f \in Finals,
         \/ FinishRecording(f) \/ ReadGeneration(f) \/ StopLoop(f) \/ JoinLoop(f)
         \/ Epilogue(f) \/ SaveLast(f)
  PROVE  ServeInv'
  <1> DEFINE P == ServeInv'
  <1> SUFFICES P
    OBVIOUS
  <1>1. /\ f \in Workers /\ Finals \subseteq Workers /\ f \notin Loops /\ Loops \subseteq Workers
        /\ gen \in Nat /\ worker[f].on \in Nat
    BY LiveConstants DEF LiveBase, LiveTyped, WorkerStates
  <1>2. ASSUME OtherWorkers(f)
        PROVE  /\ \A l \in Loops : worker'[l] = worker[l]
               /\ \A g \in Finals \ {f} : worker'[g] = worker[g]
    BY <1>1, <1>2 DEF OtherWorkers
  <1>3. CASE FinishRecording(f)
    <2>1. /\ LiveKept /\ asked.pc = "idle" /\ worker[f].pc = "unused" /\ worker'[f].pc = "begin"
          /\ worker'[f].on = worker[f].on /\ OtherWorkers(f) /\ wanted' = FALSE
          /\ UNCHANGED <<state, gen, handle, event, stopped, asked, surprises>>
      BY <1>3, FinishRecordingDoes
    <2>2. Calling' /\ Running' /\ Listening' /\ Idling' /\ Stopping'
      BY <2>1 DEF Calling, Running, Listening, Idling, Idles, Stopping
    <2>3. Generations'
      BY <1>2, <2>1 DEF ServeInv, Generations, Ending
    <2>4. OneLoop'
      BY <1>2, <2>1, OneLoopKept
    <2> QED
      BY <2>2, <2>3, <2>4 DEF ServeInv
  <1>4. CASE ReadGeneration(f)
    <2>1. /\ LiveKept /\ worker[f].pc = "begin" /\ worker'[f].pc = "stop" /\ worker'[f].on = gen
          /\ OtherWorkers(f)
          /\ UNCHANGED <<state, gen, handle, event, stopped, asked, wanted, surprises>>
      BY <1>4, ReadGenerationDoes
    <2>2. Calling' /\ Running' /\ Listening'
      BY <2>1 DEF ServeInv, Calling, Running, Listening
    <2>3. Idling' /\ Stopping'
      BY <1>2, <2>1 DEF ServeInv, Idling, Idles, Stopping, Ending
    <2>4. Generations'
      BY <1>1, <1>2, <2>1 DEF ServeInv, Generations, Ending
    <2>5. OneLoop'
      BY <1>2, <2>1, OneLoopKept
    <2> QED
      BY <2>2, <2>3, <2>4, <2>5 DEF ServeInv
  <1>5. CASE StopLoop(f)
    <2>1. /\ LiveKept /\ worker[f].pc = "stop" /\ worker'[f].pc \in {"woken", "joining"}
          /\ worker'[f].on = worker[f].on /\ OtherWorkers(f)
          /\ stopped' = stopped \union {event}
          /\ wanted => "restarted" \in surprises'
          /\ UNCHANGED <<state, gen, handle, event, asked, wanted>>
      BY <1>5, StopLoopDoes
    <2>2. surprises \subseteq surprises'
      BY <2>1 DEF LiveKept
    <2>3. Calling' /\ Running' /\ Listening' /\ Stopping'
      BY <2>1, <2>2 DEF ServeInv, Calling, Running, Listening, Stopping
    <2>4. Idling'
      BY <1>2, <2>1, <2>2 DEF ServeInv, Idling, Idles, Ending
    <2>5. Generations'
      BY <1>1, <1>2, <2>1, <2>2 DEF ServeInv, Generations, Ending
    <2>6. OneLoop'
      BY <1>2, <2>1, OneLoopKept
    <2> QED
      BY <2>3, <2>4, <2>5, <2>6 DEF ServeInv
  <1>6. CASE JoinLoop(f)
    <2>1. /\ LiveKept /\ worker[f].pc = "joining" /\ worker'[f].pc = "woken"
          /\ worker'[f].on = worker[f].on /\ OtherWorkers(f)
          /\ "orphaned" \notin surprises' => handle = NoLoop \/ event \in stopped
          /\ UNCHANGED <<state, gen, event, stopped, asked, wanted>>
      BY <1>6, JoinLoopDoes
    <2>2. surprises \subseteq surprises'
      BY <2>1 DEF LiveKept
    <2>3. Calling' /\ Running' /\ Listening' /\ Stopping'
      BY <1>2, <2>1, <2>2 DEF ServeInv, Calling, Running, Listening, Stopping
    <2>4. Idling'
      BY <1>2, <2>1, <2>2 DEF ServeInv, Idling, Idles, Ending
    <2>5. Generations'
      BY <1>1, <1>2, <2>1, <2>2 DEF ServeInv, Generations, Ending
    <2>6. OneLoop'
      BY <1>2, <2>1, OneLoopKept
    <2> QED
      BY <2>3, <2>4, <2>5, <2>6 DEF ServeInv
  <1>7. CASE Epilogue(f)
    <2>1. /\ LiveKept /\ worker[f].pc = "epilogue" /\ worker'[f].pc = "saveLast"
          /\ worker'[f].on = worker[f].on /\ OtherWorkers(f)
          /\ \/ gen = worker[f].on /\ state'.engine = "idle"
             \/ gen # worker[f].on /\ state' = state
          /\ UNCHANGED <<gen, handle, event, stopped, asked, wanted, surprises>>
      BY <1>7, EpilogueDoes
    <2>2. Calling' /\ Listening' /\ Stopping'
      BY <1>2, <2>1 DEF ServeInv, Calling, Listening, Stopping
    <2>3. Running'
      BY <2>1 DEF ServeInv, Running, Generations, Ending
    <2>4. Idling'
      BY <1>2, <2>1 DEF ServeInv, Idling, Idles, Ending
    <2>5. Generations'
      BY <1>1, <1>2, <2>1 DEF ServeInv, Generations, Ending
    <2>6. OneLoop'
      BY <1>2, <2>1, OneLoopKept
    <2> QED
      BY <2>2, <2>3, <2>4, <2>5, <2>6 DEF ServeInv
  <1>8. CASE SaveLast(f)
    <2>1. /\ LiveKept /\ worker[f].pc = "saveLast" /\ worker'[f] = Fresh /\ OtherWorkers(f)
          /\ ServeSame /\ UNCHANGED asked
      BY <1>8, SaveLastDoes DEF ServeSame
    <2>2. FinalTurn(f)
      BY <1>1, <2>1 DEF FinalTurn, Ending, Fresh
    <2> QED
      BY <2>1, <2>2, ServeFinalTurn
  <1> HIDE DEF P
  <1> QED
    BY <1>3, <1>4, <1>5, <1>6, <1>7, <1>8

\* A start, and its loop.
LEMMA ServeStart ==
  ASSUME LiveBase, ServeInv, Start \/ StartLoop
  PROVE  ServeInv'
  <1>1. /\ gen \in Nat /\ event \in Nat /\ stopped \subseteq 0..event /\ handle \in Loops \union {NoLoop}
        /\ Loops \subseteq Workers \ Finals /\ Finals \subseteq Workers /\ NoLoop \notin Loops
        /\ Loops \subseteq Nat \ {0}
        /\ \A f \in Finals : worker[f].on \in Nat
    BY LiveConstants DEF LiveBase, LiveTyped, WorkerStates
  <1>2. CASE Start
    <2>1. /\ LiveKept /\ asked.pc = "idle" /\ asked'.pc = "thread"
          /\ state'.engine = "running" /\ gen' = gen + 1 /\ wanted' = TRUE
          /\ UNCHANGED <<handle, event, stopped, worker, surprises>>
      BY <1>2, StartDoes
    <2>2. Calling' /\ Running' /\ Idling' /\ Stopping' /\ Listening'
      BY <2>1 DEF Calling, Running, Idling, Stopping, Listening
    <2>3. Generations'
      BY <1>1, <2>1 DEF ServeInv, Generations
    <2>4. OneLoop'
      BY <2>1, OneLoopKept
    <2> QED
      BY <2>2, <2>3, <2>4 DEF ServeInv
  <1>3. CASE StartLoop
    <2>1. /\ LiveKept /\ asked.pc = "thread" /\ asked'.pc = "save"
          /\ UNCHANGED <<state, gen, stopped, wanted>>
          /\ \/ /\ handle # NoLoop /\ Alive(handle)
                /\ event \in stopped => "restarted" \in surprises'
                /\ UNCHANGED <<handle, event, worker>>
             \/ /\ handle = NoLoop \/ ~ Alive(handle)
                /\ event' = event + 1 /\ handle' = event + 1
                /\ handle' \in Loops
                /\ worker'[handle'].pc = "waiting" /\ worker'[handle'].on = event + 1
                /\ OtherWorkers(handle')
                /\ "outlived" \notin surprises' => event \notin stopped \/ \A l \in Loops : ~ Alive(l)
      BY <1>3, StartLoopDoes
    <2>2. surprises \subseteq surprises' /\ wanted
      BY <2>1 DEF LiveKept, ServeInv, Calling
    <2>3. \A f \in Finals : worker'[f] = worker[f]
      BY <1>1, <2>1 DEF OtherWorkers
    <2>4. Calling' /\ Running' /\ Idling' /\ Stopping'
      BY <2>1, <2>2 DEF ServeInv, Calling, Running, Idling, Stopping
    <2>5. Generations'
      BY <2>1, <2>2, <2>3 DEF ServeInv, Generations, Ending
    <2>6. CASE UNCHANGED <<handle, event, worker>>
      <3>1. handle # NoLoop /\ Alive(handle) /\ (event \in stopped => "restarted" \in surprises')
        BY <1>1, <2>1, <2>6
      <3>2. event > 0
        <4>1. ~ handle > event
          BY <1>1, <3>1 DEF LiveBase, Started, Alive
        <4> QED
          BY <1>1, <3>1, <4>1
      <3>3. Listening'
        BY <2>1, <2>6, <3>1, <3>2 DEF Listening
      <3>4. OneLoop'
        BY <2>1, <2>6, OneLoopKept
      <3> QED
        BY <2>4, <2>5, <3>3, <3>4 DEF ServeInv
    <2>7. CASE /\ handle = NoLoop \/ ~ Alive(handle)
               /\ event' = event + 1 /\ handle' = event + 1
               /\ handle' \in Loops
               /\ worker'[handle'].pc = "waiting" /\ worker'[handle'].on = event + 1
               /\ OtherWorkers(handle')
               /\ "outlived" \notin surprises' => event \notin stopped \/ \A l \in Loops : ~ Alive(l)
      <3>1. event + 1 \notin stopped /\ event + 1 > 0
        BY <1>1
      <3>2. Listening'
        BY <2>1, <2>7, <3>1 DEF Listening
      <3>3. OneLoop'
        <4> SUFFICES ASSUME "orphaned" \notin surprises', "outlived" \notin surprises'
                     PROVE  (/\ handle # NoLoop /\ GoesOn(handle)
                             /\ \A k \in Loops \ {handle} : ~ Alive(k))'
          BY DEF OneLoop
        <4>1. \A l \in Loops : ~ Alive(l)
          <5>1. CASE event \in stopped
            BY <2>7, <5>1
          <5>2. CASE event = 0
            BY <1>1, <5>2 DEF LiveBase, Started, Alive
          <5>3. CASE event \notin stopped /\ event # 0
            BY <2>2, <2>7, <5>3 DEF ServeInv, OneLoop, GoesOn
          <5> QED
            BY <5>1, <5>2, <5>3
        <4>2. \A k \in Loops \ {handle'} : worker'[k] = worker[k]
          BY <1>1, <2>7 DEF OtherWorkers
        <4> QED
          BY <1>1, <2>1, <2>7, <3>1, <4>1, <4>2 DEF GoesOn, Alive
      <3> QED
        BY <2>4, <2>5, <3>2, <3>3 DEF ServeInv
    <2> QED
      BY <2>1, <2>6, <2>7
  <1> QED
    BY <1>2, <1>3

\* A stop, its join and its end.
LEMMA ServeStop ==
  ASSUME LiveBase, ServeInv, NEW kind \in {"stop", "discard"}, Stop(kind) \/ Joined \/ GoIdle
  PROVE  ServeInv'
  <1>1. CASE Stop(kind)
    <2>1. /\ LiveKept /\ asked.pc = "idle" /\ asked'.pc \in {"join", "idling"}
          /\ stopped' = stopped \union {event} /\ wanted' = FALSE
          /\ UNCHANGED <<state, gen, handle, event, worker, surprises>>
      BY <1>1, StopDoes
    <2>2. Calling' /\ Running' /\ Idling' /\ Stopping' /\ Listening'
      BY <2>1 DEF Calling, Running, Idling, Stopping, Listening
    <2>3. Generations'
      BY <2>1 DEF ServeInv, Generations, Ending
    <2>4. OneLoop'
      BY <2>1, OneLoopKept
    <2> QED
      BY <2>2, <2>3, <2>4 DEF ServeInv
  <1>2. CASE Joined
    <2>1. /\ LiveKept /\ asked.pc = "join" /\ asked'.pc = "idling" /\ handle' = NoLoop
          /\ UNCHANGED <<state, gen, event, stopped, worker, wanted, surprises>>
      BY <1>2, JoinedDoes
    <2>2. ~ wanted /\ event \in stopped
      BY <2>1 DEF ServeInv, Calling
    <2>3. Calling' /\ Running' /\ Idling' /\ Stopping' /\ Listening'
      BY <2>1, <2>2 DEF ServeInv, Calling, Running, Idling, Stopping, Listening
    <2>4. Generations'
      BY <2>1 DEF ServeInv, Generations, Ending
    <2>5. OneLoop'
      BY <2>1, <2>2, OneLoopKept
    <2> QED
      BY <2>3, <2>4, <2>5 DEF ServeInv
  <1>3. CASE GoIdle
    <2>1. /\ LiveKept /\ asked.pc = "idling" /\ asked'.pc = "save" /\ state'.engine = "idle"
          /\ UNCHANGED <<gen, handle, event, stopped, worker, wanted>>
      BY <1>3, GoIdleDoes
    <2>2. ~ wanted /\ event \in stopped /\ surprises \subseteq surprises'
      BY <2>1 DEF ServeInv, Calling, LiveKept
    <2>3. Calling' /\ Running' /\ Idling' /\ Stopping' /\ Listening'
      BY <2>1, <2>2 DEF ServeInv, Calling, Running, Idling, Stopping, Listening
    <2>4. Generations'
      BY <2>1, <2>2 DEF ServeInv, Generations, Ending
    <2>5. OneLoop'
      BY <2>1, <2>2, OneLoopKept
    <2> QED
      BY <2>3, <2>4, <2>5 DEF ServeInv
  <1> QED
    BY <1>1, <1>2, <1>3

\* Every step serves the client.
LEMMA ServeStep ==
  ASSUME LiveBase, ServeInv, LiveNext
  PROVE  ServeInv'
  <1> DEFINE P == ServeInv'
  <1> SUFFICES P
    OBVIOUS
  <1>1. ASSUME Hear PROVE P
    <2>1. LiveKept /\ ServeSame /\ UNCHANGED <<worker, asked>>
      BY <1>1, HearDoes DEF ServeSame
    <2>2. surprises \subseteq surprises'
      BY <2>1 DEF LiveKept
    <2>3. Calling' /\ Running' /\ Idling' /\ Stopping' /\ Listening'
      BY <2>1, <2>2 DEF ServeInv, ServeSame, Calling, Running, Idling, Idles, Ending, Stopping, Listening
    <2>4. Generations'
      BY <2>1, <2>2 DEF ServeInv, ServeSame, Generations, Ending
    <2>5. OneLoop'
      BY <2>1, OneLoopKept DEF ServeSame
    <2> QED
      BY <2>3, <2>4, <2>5 DEF ServeInv
  <1>2. ASSUME StartLoop \/ Start PROVE P
    BY <1>2, ServeStart
  <1>3. ASSUME Joined \/ GoIdle PROVE P
    BY <1>3, ServeStop
  <1>4. ASSUME NEW kind \in {"stop", "discard"}, Stop(kind) PROVE P
    BY <1>4, ServeStop
  <1>5. ASSUME SaveCall PROVE P
    <2>1. LiveKept /\ ServeSame /\ UNCHANGED worker /\ asked.pc = "save" /\ asked'.pc \in {"unlink", "idle"}
      BY <1>5, SaveCallDoes DEF ServeSame
    <2> QED
      BY <2>1, ServeCallTurn
  <1>6. ASSUME Unlink PROVE P
    <2>1. LiveKept /\ ServeSame /\ UNCHANGED worker /\ asked.pc = "unlink" /\ asked'.pc = "idle"
      BY <1>6, UnlinkDoes DEF ServeSame
    <2> QED
      BY <2>1, ServeCallTurn
  <1>7. ASSUME Reset PROVE P
    <2>1. /\ LiveKept /\ asked.pc = "idle" /\ asked'.pc = "save" /\ state'.engine = "idle"
          /\ state.engine = "running" => "reset" \in surprises'
          /\ UNCHANGED <<gen, handle, event, stopped, worker, wanted>>
      BY <1>7, ResetDoes
    <2>2. surprises \subseteq surprises'
      BY <2>1 DEF LiveKept
    <2>3. Calling' /\ Running' /\ Idling' /\ Stopping' /\ Listening'
      BY <2>1, <2>2 DEF ServeInv, Calling, Running, Idling, Stopping, Listening
    <2>4. Generations'
      BY <2>1, <2>2 DEF ServeInv, Generations, Ending
    <2>5. OneLoop'
      BY <2>1, OneLoopKept
    <2> QED
      BY <2>3, <2>4, <2>5 DEF ServeInv
  <1>8. ASSUME NEW l \in Loops, Wake(l) PROVE P
    <2>1. /\ LiveKept /\ ServeSame /\ UNCHANGED asked /\ OtherWorkers(l) /\ LoopTurn(l)
      BY <1>8, WakeDoes DEF ServeSame, LoopTurn, Alive
    <2> QED
      BY <2>1, ServeLoopTurn
  <1>9. ASSUME NEW w \in Workers, Round(w) PROVE P
    BY <1>9, ServeRound
  <1>10. ASSUME NEW f \in Finals, FinishRecording(f) PROVE P
    BY <1>10, ServeFinalize
  <1>11. ASSUME NEW f \in Finals, Finalize(f) PROVE P
    <2>1. f \in Workers
      BY LiveConstants
    <2>2. CASE Round(f)
      BY <1>9, <2>1, <2>2
    <2>3. CASE ~ Round(f)
      <3>1. \/ ReadGeneration(f) \/ StopLoop(f) \/ JoinLoop(f) \/ Epilogue(f) \/ SaveLast(f)
        BY <1>11, <2>3 DEF Finalize
      <3> QED
        BY <3>1, ServeFinalize
    <2> QED
      BY <2>2, <2>3
  <1> HIDE DEF P
  <1> QED
    BY <1>1, <1>2, <1>3, <1>4, <1>5, <1>6, <1>7, <1>8, <1>9, <1>10, <1>11, LiveConstants
    DEF LiveNext, Serve, Work

----------------------------------------------------------------------------
\* The rest: who will have the lines no round has had.

\* finalize has its round before it, or asks for all there is.
TakesRest(f) == \/ worker[f].pc \in {"begin", "stop", "joining", "woken"}
                \/ worker[f].pc = "asking" /\ worker[f].upto = heard

\* Lines after the tail are some loop's or some finalize's to take, or stop is
\* about to name them, unless they were given up in a way named.
Owed ==
  Unsummarized =>
    \/ \E l \in Loops : GoesOn(l)
    \/ asked.pc \in {"join", "idling"}
    \/ \E f \in Finals : TakesRest(f)
    \/ Met({"disabled", "missed", "tooLate"})

\* Steps after which there is nothing more to take, and whoever took it does.
LEMMA OwedKept ==
  ASSUME Owed, Unsummarized' => Unsummarized,
         surprises \subseteq surprises',
         asked.pc \in {"join", "idling"} => asked'.pc \in {"join", "idling"},
         \A l \in Loops : GoesOn(l) => GoesOn(l)',
         \A f \in Finals : TakesRest(f) => TakesRest(f)'
  PROVE  Owed'
  BY DEF Owed, Met

\* The same of a step of one thread.
LEMMA OwedTurn ==
  ASSUME Owed, Unsummarized' => Unsummarized, UNCHANGED <<event, stopped, asked, heard>>,
         surprises \subseteq surprises',
         NEW w \in Workers, OtherWorkers(w),
         w \in Loops => (GoesOn(w) => GoesOn(w)'),
         w \in Finals => (TakesRest(w) => TakesRest(w)')
  PROVE  Owed'
  <1>1. ASSUME NEW l \in Loops, GoesOn(l) PROVE GoesOn(l)'
    <2>1. CASE l = w
      BY <1>1, <2>1
    <2>2. CASE l # w
      <3>1. worker'[l] = worker[l] /\ event' = event /\ stopped' = stopped
        BY <2>2 DEF OtherWorkers, Workers
      <3> QED
        BY <1>1, <3>1 DEF GoesOn, Alive
    <2> QED
      BY <2>1, <2>2
  <1>2. ASSUME NEW f \in Finals, TakesRest(f) PROVE TakesRest(f)'
    <2>1. CASE f = w
      BY <1>2, <2>1
    <2>2. CASE f # w
      <3>1. worker'[f] = worker[f] /\ heard' = heard
        BY <2>2 DEF OtherWorkers, Workers
      <3> QED
        BY <1>2, <3>1 DEF TakesRest
    <2> QED
      BY <2>1, <2>2
  <1>3. asked' = asked
    OBVIOUS
  <1> QED
    BY <1>1, <1>2, <1>3, OwedKept

\* A step of no thread that sets no event.
LEMMA OwedCall ==
  ASSUME Owed, Unsummarized' => Unsummarized, UNCHANGED <<event, stopped, worker, heard>>,
         surprises \subseteq surprises',
         asked.pc \in {"join", "idling"} => asked'.pc \in {"join", "idling"}
  PROVE  Owed'
  <1>1. \A l \in Loops : GoesOn(l) => GoesOn(l)'
    BY DEF GoesOn, Alive
  <1>2. \A f \in Finals : TakesRest(f) => TakesRest(f)'
    BY DEF TakesRest
  <1> QED
    BY <1>1, <1>2, OwedKept

\* A round that is over leaves its loop to go on.
LEMMA OverGoesOn ==
  ASSUME LiveBase, NEW w \in Workers, RoundOver(w), UNCHANGED <<event, stopped>>
  PROVE  w \in Loops => (GoesOn(w) => GoesOn(w)')
  BY DEF RoundOver, GoesOn, Alive

\* Only a reset takes the tail back.
LEMMA NothingNew ==
  ASSUME LiveBase, LiveTyped', heard' = heard, state.tail <= state'.tail
  PROVE  Unsummarized' => Unsummarized
  <1>1. heard \in Nat /\ state.tail \in Nat /\ state'.tail \in Nat
    BY LiveConstants DEF LiveBase, LiveTyped
  <1> QED
    BY <1>1 DEF Unsummarized

\* A round that takes the rest takes it all.
LEMMA OwedRound ==
  ASSUME LiveBase, Owed, NEW w \in Workers, Round(w)
  PROVE  Owed'
  <1>1. CASE SkipRound(w)
    <2>1. ~ Unsummarized /\ UNCHANGED <<state, heard>>
      BY <1>1 DEF SkipRound
    <2> QED
      BY <2>1 DEF Owed, Unsummarized
  <1>2. CASE BeginRound(w)
    <2>1. /\ worker[w].pc = "woken" /\ worker'[w].pc = "asking" /\ worker'[w].upto = heard
          /\ OtherWorkers(w) /\ UNCHANGED <<state, event, stopped, asked, heard, surprises>>
      BY <1>2, BeginRoundDoes
    <2>2. GoesOn(w) => GoesOn(w)'
      BY <2>1 DEF GoesOn, Alive
    <2>3. TakesRest(w)'
      BY <2>1 DEF TakesRest
    <2>4. Unsummarized' => Unsummarized
      BY <2>1 DEF Unsummarized
    <2> QED
      BY <2>1, <2>2, <2>3, <2>4, OwedTurn
  <1>3. CASE ApplyDelta(w)
    <2>1. /\ LiveTyped' /\ worker[w].pc = "asking"
          /\ state'.tail = IF state.tail > worker[w].upto THEN state.tail ELSE worker[w].upto
          /\ \/ worker'[w].pc = "compacting" /\ OtherWorkers(w)
             \/ RoundOver(w)
          /\ UNCHANGED <<event, stopped, asked, heard, surprises>>
      BY <1>3, ApplyDeltaDoes DEF LiveKept
    <2>2. state.tail \in Nat /\ worker[w].upto \in Nat /\ heard \in Nat
      <3>1. worker[w] \in WorkerStates /\ state.tail \in 0..MaxLines /\ heard \in 0..MaxLines
        BY DEF LiveBase, LiveTyped
      <3> QED
        BY <3>1, LiveConstants DEF WorkerStates
    <2>3. state.tail <= state'.tail /\ worker[w].upto <= state'.tail
      BY <2>1, <2>2
    <2>4. Unsummarized' => Unsummarized
      BY <2>1, <2>3, NothingNew
    <2>5. GoesOn(w) => GoesOn(w)' \/ w \notin Loops
      <3>1. CASE worker'[w].pc = "compacting"
        BY <2>1, <3>1 DEF GoesOn, Alive
      <3>2. CASE RoundOver(w)
        BY <2>1, <3>2, OverGoesOn
      <3> QED
        BY <2>1, <3>1, <3>2
    <2>6. TakesRest(w) => ~ Unsummarized'
      BY <2>1, <2>2, <2>3 DEF TakesRest, Unsummarized
    <2>7. CASE Unsummarized'
      BY <2>1, <2>4, <2>5, <2>6, <2>7, OwedTurn DEF RoundOver
    <2> QED
      BY <2>7 DEF Owed
  <1>4. CASE MissRound(w)
    <2>1. /\ worker[w].pc \in {"asking", "compacting"} /\ RoundOver(w) /\ OtherWorkers(w)
          /\ surprises \subseteq surprises'
          /\ UNCHANGED <<state, event, stopped, asked, heard>>
      BY <1>4, MissRoundDoes DEF LiveKept, RoundOver
    <2>2. Unsummarized' => Unsummarized
      BY <2>1 DEF Unsummarized
    <2>3. CASE w \in Finals /\ worker[w].pc = "asking"
      <3>1. "missed" \in surprises'
        BY <1>4, <2>3 DEF MissRound, Surprise
      <3> QED
        BY <3>1 DEF Owed, Met
    <2>4. CASE ~ (w \in Finals /\ worker[w].pc = "asking")
      <3>1. w \in Finals => ~ TakesRest(w)
        BY <2>1, <2>4 DEF TakesRest
      <3> QED
        BY <2>1, <2>2, <3>1, OverGoesOn, OwedTurn
    <2> QED
      BY <2>3, <2>4
  <1>5. CASE Compact(w)
    <2>1. /\ worker[w].pc = "compacting" /\ worker'[w].pc = "save" /\ OtherWorkers(w)
          /\ UNCHANGED <<state, event, stopped, asked, heard, surprises>>
      BY <1>5, CompactDoes
    <2>2. (GoesOn(w) => GoesOn(w)') /\ ~ TakesRest(w) /\ (Unsummarized' => Unsummarized)
      BY <2>1 DEF GoesOn, Alive, TakesRest, Unsummarized
    <2> QED
      BY <2>1, <2>2, OwedTurn
  <1>6. CASE SaveCompacted(w)
    <2>1. /\ worker[w].pc = "save" /\ RoundOver(w) /\ OtherWorkers(w)
          /\ surprises \subseteq surprises'
          /\ UNCHANGED <<state, event, stopped, asked, heard>>
      BY <1>6, SaveCompactedDoes DEF LiveKept, RoundOver
    <2>2. ~ TakesRest(w) /\ (Unsummarized' => Unsummarized)
      BY <2>1 DEF TakesRest, Unsummarized
    <2> QED
      BY <2>1, <2>2, OverGoesOn, OwedTurn
  <1> QED
    BY <1>1, <1>2, <1>3, <1>4, <1>5, <1>6 DEF Round

\* A step of finalize outside its round leaves the rest to it, or was after it.
LEMMA OwedFinalize ==
  ASSUME LiveBase, Owed, NEW f \in Finals, FinishRecording(f) \/ Finalize(f)
  PROVE  Owed'
  <1>1. f \in Workers /\ f \notin Loops
    BY LiveConstants
  <1>2. CASE FinishRecording(f)
    <2>1. /\ worker'[f].pc = "begin" /\ OtherWorkers(f)
          /\ UNCHANGED <<state, event, stopped, asked, heard, surprises>>
      BY <1>2, FinishRecordingDoes
    <2>2. TakesRest(f)' /\ (Unsummarized' => Unsummarized)
      BY <2>1 DEF TakesRest, Unsummarized
    <2> QED
      BY <1>1, <2>1, <2>2, OwedTurn
  <1>3. CASE ReadGeneration(f)
    <2>1. /\ worker'[f].pc = "stop" /\ OtherWorkers(f)
          /\ UNCHANGED <<state, event, stopped, asked, heard, surprises>>
      BY <1>3, ReadGenerationDoes
    <2>2. TakesRest(f)' /\ (Unsummarized' => Unsummarized)
      BY <2>1 DEF TakesRest, Unsummarized
    <2> QED
      BY <1>1, <2>1, <2>2, OwedTurn
  <1>4. CASE StopLoop(f)
    <2>1. worker'[f].pc \in {"woken", "joining"}
      BY <1>4, StopLoopDoes
    <2>2. TakesRest(f)'
      BY <2>1 DEF TakesRest
    <2> QED
      BY <2>2 DEF Owed
  <1>5. CASE JoinLoop(f)
    <2>1. worker'[f].pc = "woken"
      BY <1>5, JoinLoopDoes
    <2>2. TakesRest(f)'
      BY <2>1 DEF TakesRest
    <2> QED
      BY <2>2 DEF Owed
  <1>6. CASE Epilogue(f)
    <2>1. /\ worker[f].pc = "epilogue" /\ OtherWorkers(f) /\ state'.tail = state.tail
          /\ UNCHANGED <<event, stopped, asked, heard, surprises>>
      BY <1>6, EpilogueDoes
    <2>2. ~ TakesRest(f) /\ (Unsummarized' => Unsummarized)
      BY <2>1 DEF TakesRest, Unsummarized
    <2> QED
      BY <1>1, <2>1, <2>2, OwedTurn
  <1>7. CASE SaveLast(f)
    <2>1. /\ worker[f].pc = "saveLast" /\ OtherWorkers(f) /\ surprises \subseteq surprises'
          /\ UNCHANGED <<state, event, stopped, asked, heard>>
      BY <1>7, SaveLastDoes DEF LiveKept
    <2>2. ~ TakesRest(f) /\ (Unsummarized' => Unsummarized)
      BY <2>1 DEF TakesRest, Unsummarized
    <2> QED
      BY <1>1, <2>1, <2>2, OwedTurn
  <1> QED
    BY <1>1, <1>2, <1>3, <1>4, <1>5, <1>6, <1>7, OwedRound DEF Finalize

\* Every step keeps the rest somebody's.
LEMMA OwedStep ==
  ASSUME LiveBase, Owed, LiveNext
  PROVE  Owed'
  <1> DEFINE P == Owed'
  <1> SUFFICES P
    OBVIOUS
  <1>1. ASSUME Hear PROVE P
    <2>1. /\ UNCHANGED <<event, stopped, worker>>
          /\ Surprise("tooLate", ~ \E l \in Loops : GoesOn(l))
      BY <1>1 DEF Hear
    <2>2. CASE \E l \in Loops : GoesOn(l)
      <3>1. \E l \in Loops : GoesOn(l)'
        BY <2>1, <2>2 DEF GoesOn, Alive
      <3> QED
        BY <3>1 DEF Owed
    <2>3. CASE ~ \E l \in Loops : GoesOn(l)
      <3>1. "tooLate" \in surprises'
        BY <2>1, <2>3 DEF Surprise
      <3> QED
        BY <3>1 DEF Owed, Met
    <2> QED
      BY <2>2, <2>3
  <1>2. ASSUME StartLoop PROVE P
    <2>1. /\ asked.pc = "thread" /\ surprises \subseteq surprises'
          /\ UNCHANGED <<state, stopped, heard>>
          /\ \/ UNCHANGED <<event, worker>>
             \/ /\ event' = event + 1 /\ handle' \in Loops
                /\ worker'[handle'].pc = "waiting" /\ worker'[handle'].on = event + 1
      BY <1>2, StartLoopDoes DEF LiveKept
    <2>2. CASE UNCHANGED <<event, worker>>
      BY <2>1, <2>2, OwedCall DEF Unsummarized
    <2>3. CASE /\ event' = event + 1 /\ handle' \in Loops
               /\ worker'[handle'].pc = "waiting" /\ worker'[handle'].on = event + 1
      <3>1. event + 1 \notin stopped
        BY DEF LiveBase, LiveTyped
      <3>2. GoesOn(handle)'
        BY <2>1, <2>3, <3>1 DEF GoesOn, Alive
      <3> QED
        BY <2>3, <3>2 DEF Owed
    <2> QED
      BY <2>1, <2>2, <2>3
  <1>3. ASSUME Joined PROVE P
    <2>1. asked'.pc = "idling"
      BY <1>3, JoinedDoes
    <2> QED
      BY <2>1 DEF Owed
  <1>4. ASSUME GoIdle PROVE P
    <2>1. /\ state'.tail = state.tail /\ heard' = heard
          /\ Surprise("disabled", Unsummarized)
      BY <1>4, GoIdleDoes DEF GoIdle
    <2>2. Unsummarized' => "disabled" \in surprises'
      BY <2>1 DEF Surprise, Unsummarized
    <2> QED
      BY <2>2 DEF Owed, Met
  <1>5. ASSUME SaveCall PROVE P
    <2>1. /\ asked.pc = "save" /\ surprises \subseteq surprises'
          /\ UNCHANGED <<state, event, stopped, worker, heard>>
      BY <1>5, SaveCallDoes DEF LiveKept
    <2> QED
      BY <2>1, OwedCall DEF Unsummarized
  <1>6. ASSUME Unlink PROVE P
    <2>1. /\ asked.pc = "unlink" /\ surprises \subseteq surprises'
          /\ UNCHANGED <<state, event, stopped, worker, heard>>
      BY <1>6, UnlinkDoes DEF LiveKept
    <2> QED
      BY <2>1, OwedCall DEF Unsummarized
  <1>7. ASSUME Start PROVE P
    <2>1. /\ asked.pc = "idle" /\ state'.tail = state.tail
          /\ UNCHANGED <<event, stopped, worker, heard, surprises>>
      BY <1>7, StartDoes
    <2> QED
      BY <2>1, OwedCall DEF Unsummarized
  <1>8. ASSUME NEW kind \in {"stop", "discard"}, Stop(kind) PROVE P
    <2>1. asked'.pc \in {"join", "idling"}
      BY <1>8, StopDoes
    <2> QED
      BY <2>1 DEF Owed
  <1>9. ASSUME Reset PROVE P
    <2>1. state'.tail = 0 /\ UNCHANGED <<event, stopped, worker, heard>>
      BY <1>9, ResetDoes
    <2>2. heard > 0 /\ ~ (\E l \in Loops : GoesOn(l)) => "disabled" \in surprises'
      BY <1>9 DEF Reset
    <2>3. Unsummarized' => heard > 0
      BY <2>1 DEF Unsummarized
    <2>4. (\E l \in Loops : GoesOn(l)) => \E l \in Loops : GoesOn(l)'
      BY <2>1 DEF GoesOn, Alive
    <2> QED
      BY <2>2, <2>3, <2>4 DEF Owed, Met
  <1>10. ASSUME NEW l \in Loops, Wake(l) PROVE P
    <2>1. /\ worker[l].pc = "waiting" /\ OtherWorkers(l)
          /\ \/ worker'[l].pc = "dead" /\ worker[l].on \in stopped
             \/ worker'[l].pc = "waiting" /\ worker'[l].on = event
             \/ worker'[l].pc = "woken"
          /\ UNCHANGED <<state, event, stopped, asked, heard, surprises>>
      BY <1>10, WakeDoes
    <2>2. GoesOn(l) => GoesOn(l)'
      BY <2>1 DEF GoesOn, Alive
    <2>3. l \in Workers /\ l \notin Finals /\ (Unsummarized' => Unsummarized)
      BY <2>1, LiveConstants DEF Unsummarized
    <2> QED
      BY <2>1, <2>2, <2>3, OwedTurn
  <1>11. ASSUME NEW w \in Workers, Round(w) PROVE P
    BY <1>11, OwedRound
  <1>12. ASSUME NEW f \in Finals, FinishRecording(f) \/ Finalize(f) PROVE P
    BY <1>12, OwedFinalize
  <1> HIDE DEF P
  <1> QED
    BY <1>1, <1>2, <1>3, <1>4, <1>5, <1>6, <1>7, <1>8, <1>9, <1>10, <1>11, <1>12, LiveConstants
    DEF LiveNext, Serve, Work

----------------------------------------------------------------------------
\* The invariant.

LiveInv == LiveBase /\ LinesInv /\ FileInv /\ ServeInv /\ Owed

\* Every step keeps the types, the round lock and the loops' order.
LEMMA BaseStep ==
  ASSUME LiveBase, LiveNext
  PROVE  LiveBase'
  <1> DEFINE P == LiveKept
  <1> SUFFICES P
    BY DEF LiveBase, LiveKept
  <1>1. ASSUME Hear \/ Serve \/ Start \/ Reset PROVE P
    BY <1>1, HearDoes, StartLoopDoes, JoinedDoes, GoIdleDoes, SaveCallDoes, UnlinkDoes, StartDoes,
       ResetDoes DEF Serve
  <1>2. ASSUME NEW kind \in {"stop", "discard"}, Stop(kind) PROVE P
    BY <1>2, StopDoes
  <1>3. ASSUME NEW l \in Loops, Wake(l) PROVE P
    BY <1>3, WakeDoes
  <1>4. ASSUME NEW w \in Workers, Round(w) PROVE P
    BY <1>4, SkipRoundDoes, BeginRoundDoes, ApplyDeltaDoes, MissRoundDoes, CompactDoes,
       SaveCompactedDoes DEF Round
  <1>5. ASSUME NEW f \in Finals, FinishRecording(f) PROVE P
    BY <1>5, FinishRecordingDoes
  <1>6. ASSUME NEW f \in Finals, Finalize(f) PROVE P
    BY <1>4, <1>6, LiveConstants, ReadGenerationDoes, StopLoopDoes, JoinLoopDoes, EpilogueDoes,
       SaveLastDoes DEF Finalize
  <1> HIDE DEF P
  <1> QED
    BY <1>1, <1>2, <1>3, <1>4, <1>5, <1>6, LiveConstants DEF LiveNext, Work

\* A step that changes nothing keeps everything.
LEMMA LiveStutter ==
  ASSUME LiveInv, UNCHANGED liveState
  PROVE  LiveInv'
  <1>1. UNCHANGED <<state, copy, gen, handle, event, stopped, worker, asked>>
    BY DEF liveState
  <1>2. UNCHANGED <<inRound, inFlight, heard, times, slid, removed, wanted, asks, misses, surprises>>
    BY DEF liveState
  <1>3. LiveBase'
    BY <1>1, <1>2 DEF LiveInv, LiveBase, LiveTyped, RoundLockHeld, Started
  <1>4. LinesInv'
    BY <1>1, <1>2 DEF LiveInv, LinesInv, Taken, Asking, Passed
  <1>5. FileInv'
    BY <1>1, <1>2 DEF LiveInv, FileInv, Holders, Current, Discarding, Gone
  <1>6. Calling' /\ Generations' /\ Running' /\ Idling'
    BY <1>1, <1>2 DEF LiveInv, ServeInv, Calling, Generations, Running, Idling, Idles, Ending
  <1>7. OneLoop' /\ Stopping' /\ Listening'
    BY <1>1, <1>2 DEF LiveInv, ServeInv, OneLoop, GoesOn, Alive, Stopping, Listening
  <1>8. Owed'
    BY <1>1, <1>2 DEF LiveInv, Owed, Unsummarized, GoesOn, Alive, TakesRest, Met
  <1> QED
    BY <1>3, <1>4, <1>5, <1>6, <1>7, <1>8 DEF LiveInv, ServeInv

\* It holds when the engine is new.
LEMMA LiveInvInit ==
  ASSUME LiveInit
  PROVE  LiveInv
  <1>1. /\ state = [engine |-> "idle", tail |-> 0]
        /\ copy = [c \in Copies |-> "none"]
        /\ gen = 0 /\ handle = NoLoop
        /\ event = 0 /\ stopped = {}
        /\ worker = [w \in Workers |-> Fresh]
        /\ asked = NotAsked
    BY DEF LiveInit
  <1>2. /\ inRound = NoRound /\ inFlight = FALSE /\ heard = 0
        /\ times = [s \in Lines |-> 0] /\ slid = {}
        /\ removed = FALSE /\ wanted = FALSE
        /\ asks = 0 /\ misses = 0
        /\ surprises = {}
    BY DEF LiveInit
  <1>3. /\ 0 \in 0..MaxLines /\ 0 \in 0..MaxAsks /\ Loops \subseteq Nat \ {0} /\ Lines \subseteq Nat \ {0}
        /\ NoRound \notin Workers /\ Finals \subseteq Workers /\ Loops \subseteq Workers
        /\ Call \in Copies /\ Workers \subseteq Copies
    BY LiveConstants DEF Lines
  <1>4. asked \in Calls /\ asked.pc = "idle"
    BY <1>1 DEF NotAsked, Calls
  <1>5. \A w \in Workers : worker[w] = Fresh /\ worker[w].pc = "unused" /\ worker[w].on = 0
    BY <1>1 DEF Fresh
  <1>6. LiveTyped
    <2>1. worker \in [Workers -> WorkerStates] /\ \A w \in Workers : Does(w, worker[w])
      BY <1>1, <1>5, FreshTyped DEF Does, LoopPcs, FinalPcs
    <2>2. state \in [engine : {"idle", "running"}, tail : 0..MaxLines]
      BY <1>1, <1>3
    <2> QED
      BY <1>1, <1>2, <1>3, <1>4, <2>1, <2>2 DEF LiveTyped
  <1>7. RoundLockHeld /\ Started
    BY <1>1, <1>2, <1>3, <1>4, <1>5 DEF RoundLockHeld, InRoundPcs, Started
  <1>8. LinesInv
    BY <1>1, <1>2, <1>3, <1>5 DEF LinesInv, Taken, Asking, Passed
  <1>9. FileInv
    BY <1>1, <1>2, <1>3, <1>4, <1>5 DEF FileInv, Holders, Current, Discarding, Gone
  <1>10. ServeInv
    BY <1>1, <1>2, <1>3, <1>4, <1>5
    DEF ServeInv, Calling, Generations, Running, Idling, OneLoop, Stopping, Listening, Ending
  <1>11. Owed
    BY <1>1, <1>2 DEF Owed, Unsummarized
  <1> QED
    BY <1>6, <1>7, <1>8, <1>9, <1>10, <1>11 DEF LiveInv, LiveBase

\* It holds throughout.
LEMMA LiveInvHolds == LiveSpec => []LiveInv
  <1>1. LiveInit => LiveInv
    BY LiveInvInit
  <1>2. LiveInv /\ [LiveNext]_liveState => LiveInv'
    <2> SUFFICES ASSUME LiveInv, [LiveNext]_liveState
                 PROVE  LiveInv'
      OBVIOUS
    <2>1. CASE LiveNext
      BY <2>1, BaseStep, LinesStep, FileStep, ServeStep, OwedStep DEF LiveInv
    <2>2. CASE UNCHANGED liveState
      BY <2>2, LiveStutter
    <2> QED
      BY <2>1, <2>2
  <1> QED
    BY <1>1, <1>2, PTL DEF LiveSpec

----------------------------------------------------------------------------
\* The theorems.

\* The variables have their types, and a round always has the round lock
\* (_round_lock around run_round in meeting/live_summary.py).
THEOREM LiveTypes == LiveSpec => []LiveTypeOK
  <1>1. LiveInv => LiveTypeOK
    <2> SUFFICES ASSUME LiveBase
                 PROVE  LiveTypeOK
      BY DEF LiveInv
    <2>1. /\ state \in [engine : {"idle", "running"}, tail : 0..MaxLines]
          /\ copy \in [Copies -> {"none", "old", "new"}]
          /\ gen \in Nat /\ handle \in Loops \union {NoLoop}
          /\ stopped \subseteq 0..event
          /\ inRound \in Workers \union {NoRound}
          /\ inFlight \in BOOLEAN /\ removed \in BOOLEAN /\ wanted \in BOOLEAN
          /\ heard \in 0..MaxLines
          /\ times \in [Lines -> Nat] /\ slid \subseteq Lines
          /\ asks \in Nat /\ misses \in Nat
          /\ surprises \subseteq Surprises
      BY LiveConstants DEF LiveBase, LiveTyped
    <2>2. event \in 0..MaxAsks
      BY LiveConstants DEF LiveBase, LiveTyped, Started
    <2>3. asked \in [kind : Kinds \union {"none"},
                     pc : {"idle", "thread", "join", "idling", "save", "unlink"},
                     joins : Loops \union {NoLoop}]
      BY DEF LiveBase, LiveTyped, Calls
    <2>4. ASSUME NEW w \in Workers
          PROVE  /\ worker[w].pc \in IF w \in Loops THEN LoopPcs ELSE FinalPcs
                 /\ worker[w].on \in Nat
                 /\ worker[w].upto \in 0..MaxLines /\ worker[w].had \in 0..MaxLines
                 /\ worker[w].joins \in Loops \union {NoLoop}
                 /\ inRound = w <=> worker[w].pc \in InRoundPcs
      <3>1. worker[w] \in WorkerStates /\ Does(w, worker[w])
        BY DEF LiveBase, LiveTyped
      <3>2. worker[w].pc \in IF w \in Loops THEN LoopPcs ELSE FinalPcs
        BY <3>1 DEF Does, Workers
      <3>3. inRound = w <=> worker[w].pc \in InRoundPcs
        BY DEF LiveBase, RoundLockHeld
      <3> QED
        BY <3>1, <3>2, <3>3 DEF WorkerStates
    <2> QED
      BY <2>1, <2>2, <2>3, <2>4 DEF LiveTypeOK
  <1> QED
    BY <1>1, LiveInvHolds, PTL

\* No line is new to two rounds, and the tail passes no line that no round had,
\* but for those named (run_round and _apply_delta in meeting/live_summary.py).
THEOREM EachLineOnce == LiveSpec => []LinesAreTakenOnce
  <1>1. LiveInv => LinesAreTakenOnce
    BY DEF LiveInv, LinesInv, Taken, Passed, LinesAreTakenOnce, Met
  <1> QED
    BY <1>1, LiveInvHolds, PTL

\* Between calls the file is not behind the engine, and a discarded recording
\* has none, but for the ways named (_after_mutation in
\* meeting/live_summary.py, discard_recording in meeting/routes.py).
THEOREM FileIsCurrent == LiveSpec => []FileFollowsEngine
  <1>1. LiveInv => FileFollowsEngine
    <2> SUFFICES ASSUME LiveBase, FileInv, LiveAtRest
                 PROVE  IF removed THEN copy[File] = "none" \/ "late" \in surprises
                                   ELSE copy[File] # "old" \/ "overtaken" \in surprises
      BY DEF LiveInv, FileFollowsEngine, Met
    <2>1. CASE removed
      BY <2>1 DEF FileInv, Gone, LiveAtRest
    <2>2. CASE ~ removed
      <3>1. asked.pc = "idle" /\ \A c \in Copies \ {File} : copy[c] = "none"
        <4>1. \A w \in Workers : worker[w].pc \notin {"save", "saveLast"}
          BY DEF LiveAtRest, Finalizing, Alive, Workers
        <4> QED
          BY <4>1 DEF FileInv, Holders, LiveAtRest, Copies
      <3>2. \/ "overtaken" \in surprises \/ \E c \in Copies : copy[c] = "new"
            \/ \A c \in Copies : copy[c] = "none"
        BY <2>2, <3>1 DEF FileInv, Current
      <3> QED
        BY <2>2, <3>1, <3>2, LiveConstants
    <2> QED
      BY <2>1, <2>2
  <1> QED
    BY <1>1, LiveInvHolds, PTL

\* Between calls the engine is as the client last asked, with exactly one loop
\* or with none, but for the ways named (start, stop, finalize and reset in
\* meeting/live_summary.py).
THEOREM ClientIsServed == LiveSpec => []EnabledIsServed
  <1>1. LiveInv => EnabledIsServed
    <2> SUFFICES ASSUME LiveBase, ServeInv, LiveAtRest
                 PROVE  /\ \/ wanted <=> state.engine = "running"
                           \/ Met({"restarted", "reset"})
                        /\ \/ Cardinality({l \in Loops : GoesOn(l)}) = IF wanted THEN 1 ELSE 0
                           \/ Met({"restarted", "outlived", "orphaned"})
      BY DEF LiveInv, EnabledIsServed
    <2>1. \A f \in Finals : worker[f].pc = "unused"
      BY DEF LiveAtRest, Finalizing
    <2>2. asked.pc = "idle"
      BY DEF LiveAtRest
    <2>3. \/ wanted <=> state.engine = "running"
          \/ Met({"restarted", "reset"})
      BY <2>1, <2>2 DEF ServeInv, Running, Idling, Idles, Ending, Met
    <2>4. ASSUME ~ Met({"restarted", "outlived", "orphaned"})
          PROVE  Cardinality({l \in Loops : GoesOn(l)}) = IF wanted THEN 1 ELSE 0
      <3> DEFINE G == {l \in Loops : GoesOn(l)}
      <3>1. "restarted" \notin surprises /\ "outlived" \notin surprises /\ "orphaned" \notin surprises
        BY <2>4 DEF Met
      <3>2. CASE wanted
        <4>1. event \notin stopped /\ event # 0
          BY <2>2, <3>1, <3>2 DEF ServeInv, Listening
        <4>2. handle # NoLoop /\ GoesOn(handle) /\ \A l \in Loops \ {handle} : ~ Alive(l)
          BY <3>1, <4>1 DEF ServeInv, OneLoop
        <4>3. handle \in Loops
          BY <4>2 DEF LiveBase, LiveTyped
        <4>4. G = {handle}
          BY <4>2, <4>3 DEF GoesOn
        <4> QED
          BY <3>2, <4>4, FS_Singleton
      <3>3. CASE ~ wanted
        <4>1. event \in stopped \/ event = 0
          BY <2>1, <3>3 DEF ServeInv, Stopping
        <4>2. \A l \in Loops : ~ GoesOn(l)
          <5>1. CASE event \in stopped
            BY <5>1 DEF GoesOn
          <5>2. CASE event = 0
            <6>1. \A l \in Loops : l > event
              BY <5>2, LiveConstants
            <6> QED
              BY <6>1 DEF LiveBase, Started, GoesOn, Alive
          <5> QED
            BY <4>1, <5>1, <5>2
        <4>3. G = {}
          BY <4>2
        <4> QED
          BY <3>3, <4>3, FS_EmptySet
      <3> QED
        BY <3>2, <3>3
    <2> QED
      BY <2>3, <2>4
  <1> QED
    BY <1>1, LiveInvHolds, PTL
\* A line that no round has had always has a loop or a finalize that goes on to
\* take it, or stop has come, but for the ways named ("covering the tail":
\* finalize, stop and reset in meeting/live_summary.py).
THEOREM TheRestIsOwed == LiveSpec => []Owed
  BY LiveInvHolds, PTL DEF LiveInv

\* No line is left out for good: when no call, round or finalize is under way
\* and no loop goes on, every line was in a round since the last reset or left
\* the window before one, but for the ways named.
NothingIsLeftOut ==
  LiveAtRest /\ ~ (\E l \in Loops : GoesOn(l)) =>
    \/ \A s \in 1..heard : times[s] = 1 \/ s \in slid
    \/ Met({"crossed", "disabled", "missed", "tooLate"})

\* So finalize's last round does cover the tail, but for the ways named (the
\* safety half of LinesAreSummarized).
THEOREM EveryLineHasItsRound == LiveSpec => []NothingIsLeftOut
  <1>1. LiveInv => NothingIsLeftOut
    <2> SUFFICES ASSUME LiveBase, LinesInv, Owed, LiveAtRest, ~ (\E l \in Loops : GoesOn(l)),
                        ~ Met({"crossed", "disabled", "missed", "tooLate"}),
                        NEW s \in 1..heard
                 PROVE  times[s] = 1 \/ s \in slid
      BY DEF LiveInv, NothingIsLeftOut
    <2>1. \A f \in Finals : ~ TakesRest(f)
      BY DEF LiveAtRest, Finalizing, TakesRest
    <2>2. asked.pc = "idle" /\ ~ Met({"disabled", "missed", "tooLate"}) /\ "crossed" \notin surprises
      BY DEF LiveAtRest, Met
    <2>3. ~ Unsummarized
      BY <2>1, <2>2 DEF Owed
    <2>4. /\ heard \in 0..MaxLines /\ state.tail \in 0..MaxLines /\ MaxLines \in Nat
      BY LiveConstants DEF LiveBase, LiveTyped
    <2>5. s \in Lines /\ s <= state.tail
      BY <2>3, <2>4 DEF Unsummarized, Lines
    <2> QED
      BY <2>2, <2>5 DEF LinesInv, Passed
  <1> QED
    BY <1>1, LiveInvHolds, PTL
=============================================================================
