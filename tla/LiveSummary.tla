---------------------------- MODULE LiveSummary ----------------------------
(***************************************************************************)
(* The live summary of a meeting that is being recorded: one               *)
(* LiveSummaryEngine (meeting/live_summary.py) and the realtime WebSocket  *)
(* handler that drives it (meeting/routes.py).                             *)
(*                                                                         *)
(* start, stop, reset and the removal of the engine run on the event loop, *)
(* one at a time; finalize runs in a worker thread; rounds run in the      *)
(* engine's background loop, or in finalize, and take as long as the model *)
(* takes to answer.  A recording that starts again while the old handler   *)
(* still finalizes, and a join that gives up after two seconds, make them  *)
(* meet.  Every change of the state is also written to live_summary.json.  *)
(*                                                                         *)
(* A line stands for the end of a final transcript segment.  The entries   *)
(* are left out, for what a round adds is the model's; of a copy of the    *)
(* state the specification knows whether the state has changed since.      *)
(***************************************************************************)
EXTENDS Naturals, FiniteSets

CONSTANTS
  Finals,     \* threads that run finalize
  NoRound,    \* nobody is in _round_lock
  File,       \* live_summary.json
  Call,       \* the call the event loop is in
  Window,     \* lines that fit into window_s
  MaxLines,   \* bound: final segments while the engine listens
  MaxAsks,    \* bound: messages from clients, and so threads ever started
  MaxMisses   \* bound: rounds without a usable answer

Loops == 1..MaxAsks          \* background loops, in the order they are started
Lines == 1..MaxLines
Workers == Loops \union Finals
NoLoop == 0

ASSUME LiveSetsAssumption == /\ IsFiniteSet(Finals) /\ Finals \intersect Loops = {}
                             /\ {NoRound, File, Call} \intersect Workers = {}
                             /\ File # Call
ASSUME LiveBoundsAssumption == /\ Window \in Nat \ {0}
                               /\ MaxLines \in Nat /\ MaxAsks \in Nat /\ MaxMisses \in Nat

VARIABLES
  state,     \* self.state: engine, tail (tail_from_t)
  copy,      \* the file and the snapshots in hand: "none", "old" or "new"
  gen,       \* _lifecycle_gen
  handle,    \* _thread
  event,     \* _stop_evt, by the number of events made
  stopped,   \* events that are set
  worker,    \* where each thread is
  asked,      \* the call the event loop is in
  inRound,   \* who has _round_lock
  inFlight,  \* _in_flight
  heard,     \* lines in _segments
  times,     \* history: rounds a line was new in, since the last reset
  slid,      \* history: lines that left the window before a round had them
  removed,   \* the engine is no longer registered
  wanted,    \* history: the last thing the client asked for
  asks, misses,
  surprises  \* history: the known ways to go wrong that were met

liveState == <<state, copy, gen, handle, event, stopped, worker, asked, inRound, inFlight, heard,
               times, slid, removed, wanted, asks, misses, surprises>>

\* on: the event a loop waits on, or gen_at_entry in finalize; upto: the end of
\* the window a round works on; had: the tail it saw; joins: the loop that is
\* waited for
Fresh == [pc |-> "unused", on |-> 0, upto |-> 0, had |-> 0, joins |-> NoLoop]
NotAsked == [kind |-> "none", pc |-> "idle", joins |-> NoLoop]
Copies == Workers \union {File, Call}

LoopPcs == {"unused", "waiting", "woken", "asking", "compacting", "save", "dead"}
FinalPcs == {"unused", "begin", "stop", "joining", "woken", "asking", "compacting", "save",
             "epilogue", "saveLast"}
Kinds == {"start", "stop", "reset", "discard"}

InRoundPcs == {"asking", "compacting", "save"}

\* restarted: a start trusted a loop that finalize was stopping, or finalize
\*            stopped a loop that a start had trusted
\* outlived:  a join gave up, and the loop went on with the next event
\* orphaned:  finalize dropped the handle of a loop started during its join
\* reset:     a reset idled the engine
\* crossed:   a reset came while a round was asking
\* disabled:  the engine was stopped with lines no round had had, or reset with
\*            no loop to take them again
\* missed:    finalize's round got no usable answer
\* tooLate:   a line came while finalize's round was asking, or after
\* late:      the recording was discarded with a round or finalize under way
\* overtaken: a snapshot was written over a newer one
Surprises == {"restarted", "outlived", "orphaned", "reset", "crossed", "disabled", "missed",
              "tooLate", "late", "overtaken"}

Alive(l) == worker[l].pc \notin {"unused", "dead"}
\* A loop that has not been told to end, and will not find that it has.
GoesOn(l) == /\ Alive(l) /\ event \notin stopped
             /\ worker[l].pc = "waiting" => worker[l].on \notin stopped
Finalizing == \E f \in Finals : worker[f].pc # "unused"

\* One type per variable; a round has the round lock.
LiveTypeOK ==
  /\ state \in [engine : {"idle", "running"}, tail : 0..MaxLines]
  /\ copy \in [Copies -> {"none", "old", "new"}]
  /\ gen \in Nat /\ handle \in Loops \union {NoLoop}
  /\ event \in 0..MaxAsks /\ stopped \subseteq 0..event
  /\ \A w \in Workers :
       /\ worker[w].pc \in IF w \in Loops THEN LoopPcs ELSE FinalPcs
       /\ worker[w].on \in Nat
       /\ worker[w].upto \in 0..MaxLines /\ worker[w].had \in 0..MaxLines
       /\ worker[w].joins \in Loops \union {NoLoop}
       /\ inRound = w <=> worker[w].pc \in InRoundPcs
  /\ asked \in [kind : Kinds \union {"none"},
                pc : {"idle", "thread", "join", "idling", "save", "unlink"},
                joins : Loops \union {NoLoop}]
  /\ inRound \in Workers \union {NoRound}
  /\ inFlight \in BOOLEAN /\ removed \in BOOLEAN /\ wanted \in BOOLEAN
  /\ heard \in 0..MaxLines
  /\ times \in [Lines -> Nat] /\ slid \subseteq Lines
  /\ asks \in Nat /\ misses \in Nat
  /\ surprises \subseteq Surprises

LiveInit ==
  /\ state = [engine |-> "idle", tail |-> 0]
  /\ copy = [c \in Copies |-> "none"]
  /\ gen = 0 /\ handle = NoLoop
  /\ event = 0 /\ stopped = {}
  /\ worker = [w \in Workers |-> Fresh]
  /\ asked = NotAsked
  /\ inRound = NoRound /\ inFlight = FALSE
  /\ heard = 0
  /\ times = [s \in Lines |-> 0] /\ slid = {}
  /\ removed = FALSE /\ wanted = FALSE
  /\ asks = 0 /\ misses = 0
  /\ surprises = {}

----------------------------------------------------------------------------
(* Helpers.                                                                *)

Turn(w, pc) == worker' = [worker EXCEPT ![w].pc = pc]
Surprise(s, condition) == surprises' = surprises \union IF condition THEN {s} ELSE {}
Unsummarized == state.tail < heard

\* What the copies are once the state has changed; and c takes one of it.
Aged == [c \in Copies |-> IF copy[c] = "new" THEN "old" ELSE copy[c]]
Change(c) == copy' = [Aged EXCEPT ![c] = "new"]

\* _after_mutation with the snapshot that c took earlier.
Write(c) == /\ copy' = [copy EXCEPT ![File] = copy[c], ![c] = "none"]
            /\ Surprise("overtaken", copy[c] = "old" /\ copy[File] = "new")

----------------------------------------------------------------------------
(* Segments: on_segment, in a thread of the speech SDK.                    *)

\* A final segment; an engine that is not running does not take it.
Hear ==
  /\ ~removed /\ state.engine = "running" /\ heard < MaxLines
  /\ heard' = heard + 1
  /\ Surprise("tooLate", ~ \E l \in Loops : GoesOn(l))
  /\ UNCHANGED <<state, copy, gen, handle, event, stopped, worker, asked, inRound, inFlight,
                 times, slid, removed, wanted, asks, misses>>

----------------------------------------------------------------------------
(* Calls on the event loop.                                                *)

Ask(kind, pc) ==
  /\ asked.pc = "idle" /\ ~removed /\ asks < MaxAsks
  /\ asks' = asks + 1
  /\ asked' = [NotAsked EXCEPT !.kind = kind, !.pc = pc,
                               !.joins = IF pc = "join" THEN handle ELSE NoLoop]

\* start: running, and one generation further ...
Start ==
  /\ Ask("start", "thread")
  /\ state' = [state EXCEPT !.engine = "running"]
  /\ copy' = Aged
  /\ gen' = gen + 1
  /\ wanted' = TRUE
  /\ UNCHANGED <<handle, event, stopped, worker, inRound, inFlight, heard, times, slid,
                 removed, misses, surprises>>

\* ... then a new loop with an event of its own, unless one is alive.
StartLoop ==
  /\ asked.pc = "thread"
  /\ asked' = [asked EXCEPT !.pc = "save"]
  /\ copy' = [copy EXCEPT ![Call] = "new"]
  /\ IF handle # NoLoop /\ Alive(handle)
     THEN /\ Surprise("restarted", event \in stopped)
          /\ UNCHANGED <<handle, event, worker>>
     ELSE /\ event' = event + 1
          /\ handle' = event'
          /\ worker' = [worker EXCEPT ![handle'] = [Fresh EXCEPT !.pc = "waiting", !.on = event']]
          /\ Surprise("outlived", \E l \in Loops : Alive(l) /\ event \in stopped)
  /\ UNCHANGED <<state, gen, stopped, inRound, inFlight, heard, times, slid, removed,
                 wanted, asks, misses>>

\* stop, by the client or before the recording is discarded.
Stop(kind) ==
  /\ Ask(kind, IF handle = NoLoop THEN "idling" ELSE "join")
  /\ stopped' = stopped \union {event}
  /\ removed' = (kind = "discard")
  /\ wanted' = FALSE
  /\ UNCHANGED <<state, copy, gen, handle, event, worker, inRound, inFlight, heard, times,
                 slid, misses, surprises>>

\* join: the loop has ended, or it is in a round and two seconds have passed.
JoinEnds(l) == worker[l].pc # "waiting"

Joined ==
  /\ asked.pc = "join" /\ JoinEnds(asked.joins)
  /\ asked' = [asked EXCEPT !.pc = "idling", !.joins = NoLoop]
  /\ handle' = NoLoop
  /\ UNCHANGED <<state, copy, gen, event, stopped, worker, inRound, inFlight, heard, times,
                 slid, removed, wanted, asks, misses, surprises>>

GoIdle ==
  /\ asked.pc = "idling"
  /\ state' = [state EXCEPT !.engine = "idle"]
  /\ Change(Call)
  /\ asked' = [asked EXCEPT !.pc = "save"]
  /\ Surprise("disabled", Unsummarized)
  /\ UNCHANGED <<gen, handle, event, stopped, worker, inRound, inFlight, heard, times, slid,
                 removed, wanted, asks, misses>>

\* reset: a new LiveSummaryState, whose engine is idle; the loop goes on.
Reset ==
  /\ asked.pc = "idle" /\ ~removed /\ asks < MaxAsks
  /\ asks' = asks + 1
  /\ state' = [engine |-> "idle", tail |-> 0]
  /\ Change(Call)
  /\ asked' = [NotAsked EXCEPT !.kind = "reset", !.pc = "save"]
  /\ times' = [s \in Lines |-> 0]
  /\ surprises' = surprises \union (IF state.engine = "running" THEN {"reset"} ELSE {})
                            \union (IF inRound # NoRound THEN {"crossed"} ELSE {})
                            \union (IF heard > 0 /\ ~ \E l \in Loops : GoesOn(l)
                                    THEN {"disabled"} ELSE {})
  /\ UNCHANGED <<gen, handle, event, stopped, worker, inRound, inFlight, heard, slid,
                 removed, wanted, misses>>

\* The end of start, stop and reset: the snapshot is written outside the lock.
SaveCall ==
  /\ asked.pc = "save"
  /\ Write(Call)
  /\ asked' = IF asked.kind = "discard" THEN [asked EXCEPT !.pc = "unlink"] ELSE NotAsked
  /\ UNCHANGED <<state, gen, handle, event, stopped, worker, inRound, inFlight, heard,
                 times, slid, removed, wanted, asks, misses>>

\* discard_recording
Unlink ==
  /\ asked.pc = "unlink"
  /\ copy' = [copy EXCEPT ![File] = "none"]
  /\ asked' = NotAsked
  /\ Surprise("late", \/ \E f \in Finals : worker[f].pc # "unused"
                      \/ \E l \in Loops : worker[l].pc # "waiting" /\ Alive(l)
                      \/ \E l \in Loops : worker[l].pc = "waiting" /\ worker[l].on \notin stopped)
  /\ UNCHANGED <<state, gen, handle, event, stopped, worker, inRound, inFlight, heard,
                 times, slid, removed, wanted, asks, misses>>

----------------------------------------------------------------------------
(* finalize, in a worker thread.                                           *)

\* The recording was stopped and its last words have been waited for.
FinishRecording(f) ==
  /\ worker[f].pc = "unused" /\ state.engine = "running"
  /\ asked.pc = "idle" /\ ~removed /\ asks < MaxAsks
  /\ asks' = asks + 1
  /\ wanted' = FALSE
  /\ Turn(f, "begin")
  /\ UNCHANGED <<state, copy, gen, handle, event, stopped, asked, inRound, inFlight, heard,
                 times, slid, removed, misses, surprises>>

ReadGeneration(f) ==
  /\ worker[f].pc = "begin"
  /\ worker' = [worker EXCEPT ![f].pc = "stop", ![f].on = gen]
  /\ UNCHANGED <<state, copy, gen, handle, event, stopped, asked, inRound, inFlight, heard,
                 times, slid, removed, wanted, asks, misses, surprises>>

StopLoop(f) ==
  /\ worker[f].pc = "stop"
  /\ stopped' = stopped \union {event}
  /\ worker' = [worker EXCEPT ![f].pc = IF handle = NoLoop THEN "woken" ELSE "joining",
                             ![f].joins = handle]
  /\ Surprise("restarted", wanted)
  /\ UNCHANGED <<state, copy, gen, handle, event, asked, inRound, inFlight, heard, times,
                 slid, removed, wanted, asks, misses>>

\* The handle is cleared whatever thread it names by now.
JoinLoop(f) ==
  /\ worker[f].pc = "joining" /\ JoinEnds(worker[f].joins)
  /\ handle' = NoLoop
  /\ worker' = [worker EXCEPT ![f].pc = "woken", ![f].joins = NoLoop]
  /\ Surprise("orphaned", handle # NoLoop /\ event \notin stopped)
  /\ UNCHANGED <<state, copy, gen, event, stopped, asked, inRound, inFlight, heard, times,
                 slid, removed, wanted, asks, misses>>

\* Mutation of Epilogue: whoever started the engine again meanwhile.
EpilogueAlways(f) ==
  /\ worker[f].pc = "epilogue"
  /\ state' = [state EXCEPT !.engine = "idle"] /\ Change(f)
  /\ Turn(f, "saveLast")
  /\ UNCHANGED <<gen, handle, event, stopped, asked, inRound, inFlight, heard, times, slid,
                 removed, wanted, asks, misses, surprises>>

\* Idle, unless a start came since; and the last snapshot.
Epilogue(f) ==
  /\ worker[f].pc = "epilogue"
  /\ IF gen = worker[f].on
     THEN state' = [state EXCEPT !.engine = "idle"] /\ Change(f)
     ELSE copy' = [copy EXCEPT ![f] = "new"] /\ UNCHANGED state
  /\ Turn(f, "saveLast")
  /\ UNCHANGED <<gen, handle, event, stopped, asked, inRound, inFlight, heard, times, slid,
                 removed, wanted, asks, misses, surprises>>

SaveLast(f) ==
  /\ worker[f].pc = "saveLast"
  /\ Write(f)
  /\ worker' = [worker EXCEPT ![f] = Fresh]
  /\ UNCHANGED <<state, gen, handle, event, stopped, asked, inRound, inFlight, heard, times,
                 slid, removed, wanted, asks, misses>>

----------------------------------------------------------------------------
(* The background loop.                                                    *)

\* wait: the event is set, or cadence_s has passed.  Another loop's round in
\* flight is not waited for.
Wake(l) ==
  /\ l \in Loops /\ worker[l].pc = "waiting"
  /\ IF worker[l].on \in stopped
     THEN worker' = [worker EXCEPT ![l] = [Fresh EXCEPT !.pc = "dead"]] /\ UNCHANGED inFlight
     ELSE IF inFlight
     THEN worker' = [worker EXCEPT ![l].on = event] /\ UNCHANGED inFlight
     ELSE Turn(l, "woken") /\ inFlight' = TRUE
  /\ UNCHANGED <<state, copy, gen, handle, event, stopped, asked, inRound, heard, times,
                 slid, removed, wanted, asks, misses, surprises>>

----------------------------------------------------------------------------
(* A round, in the loop or in finalize.                                    *)

\* After a round a loop waits on what _stop_evt is by then.
AfterRound(w) ==
  IF w \in Finals THEN [worker[w] EXCEPT !.pc = "epilogue", !.upto = 0, !.had = 0]
  ELSE [Fresh EXCEPT !.pc = "waiting", !.on = event]

\* The loop's finally, whoever else has set the flag.
Landed(w) == inFlight' = (w \in Finals /\ inFlight)

\* Nothing new: no round.
SkipRound(w) ==
  /\ worker[w].pc = "woken" /\ inRound = NoRound /\ ~Unsummarized
  /\ worker' = [worker EXCEPT ![w] = AfterRound(w)]
  /\ Landed(w)
  /\ UNCHANGED <<state, copy, gen, handle, event, stopped, asked, inRound, heard, times,
                 slid, removed, wanted, asks, misses, surprises>>

\* The window up to now, with a divider at the tail, goes to the model.
BeginRound(w) ==
  /\ worker[w].pc = "woken" /\ inRound = NoRound /\ Unsummarized
  /\ inRound' = w
  /\ worker' = [worker EXCEPT ![w].pc = "asking", ![w].upto = heard, ![w].had = state.tail]
  /\ UNCHANGED <<state, copy, gen, handle, event, stopped, asked, inFlight, heard, times,
                 slid, removed, wanted, asks, misses, surprises>>

\* What a round took on, and what of it the window still had.
Due(w) == (worker[w].had + 1)..worker[w].upto
Seen(w) == {s \in Due(w) : s + Window > worker[w].upto}

\* Mutation of ApplyDelta: the tail moves to the newest line.
ApplyDeltaToEnd(w) ==
  /\ worker[w].pc = "asking"
  /\ state' = [state EXCEPT !.tail = heard]
  /\ Change(File)
  /\ times' = [s \in Lines |-> IF s \in Seen(w) THEN times[s] + 1 ELSE times[s]]
  /\ slid' = slid \union (Due(w) \ Seen(w))
  /\ \/ /\ Turn(w, "compacting") /\ UNCHANGED <<inRound, inFlight>>
     \/ /\ worker' = [worker EXCEPT ![w] = AfterRound(w)]
        /\ inRound' = NoRound /\ Landed(w)
  /\ UNCHANGED <<gen, handle, event, stopped, asked, heard, removed, wanted, asks, misses,
                 surprises>>

\* A usable answer: tail, entries and file change in one hold of _state_lock.
\* Then the entries may have grown so many that they are compacted.
ApplyDelta(w) ==
  /\ worker[w].pc = "asking"
  /\ state' = [state EXCEPT !.tail = IF @ > worker[w].upto THEN @ ELSE worker[w].upto]
  /\ Change(File)
  /\ times' = [s \in Lines |-> IF s \in Seen(w) THEN times[s] + 1 ELSE times[s]]
  /\ slid' = slid \union (Due(w) \ Seen(w))
  /\ \/ /\ Turn(w, "compacting") /\ UNCHANGED <<inRound, inFlight>>
     \/ /\ worker' = [worker EXCEPT ![w] = AfterRound(w)]
        /\ inRound' = NoRound /\ Landed(w)
  /\ UNCHANGED <<gen, handle, event, stopped, asked, heard, removed, wanted, asks, misses,
                 surprises>>

\* Mutation of MissRound: a round that crashes leaves _in_flight set.
MissRoundInFlight(w) ==
  /\ worker[w].pc \in {"asking", "compacting"} /\ misses < MaxMisses
  /\ misses' = misses + 1
  /\ worker' = [worker EXCEPT ![w] = AfterRound(w)]
  /\ inRound' = NoRound
  /\ Surprise("missed", w \in Finals /\ worker[w].pc = "asking")
  /\ UNCHANGED <<state, copy, gen, handle, event, stopped, asked, inFlight, heard, times,
                 slid, removed, wanted, asks>>

\* No usable answer, or an exception: the round is skipped.
MissRound(w) ==
  /\ worker[w].pc \in {"asking", "compacting"} /\ misses < MaxMisses
  /\ misses' = misses + 1
  /\ worker' = [worker EXCEPT ![w] = AfterRound(w)]
  /\ inRound' = NoRound /\ Landed(w)
  /\ Surprise("missed", w \in Finals /\ worker[w].pc = "asking")
  /\ UNCHANGED <<state, copy, gen, handle, event, stopped, asked, heard, times, slid,
                 removed, wanted, asks>>

\* Mutation of Compact: the compacted entries are not written.
CompactUnsaved(w) ==
  /\ worker[w].pc = "compacting"
  /\ copy' = Aged
  /\ worker' = [worker EXCEPT ![w] = AfterRound(w)]
  /\ inRound' = NoRound /\ Landed(w)
  /\ UNCHANGED <<state, gen, handle, event, stopped, asked, heard, times, slid, removed,
                 wanted, asks, misses, surprises>>

\* apply_compaction; its snapshot is written after the state lock.
Compact(w) ==
  /\ worker[w].pc = "compacting"
  /\ Change(w)
  /\ Turn(w, "save")
  /\ UNCHANGED <<state, gen, handle, event, stopped, asked, inRound, inFlight, heard, times,
                 slid, removed, wanted, asks, misses, surprises>>

SaveCompacted(w) ==
  /\ worker[w].pc = "save"
  /\ Write(w)
  /\ worker' = [worker EXCEPT ![w] = AfterRound(w)]
  /\ inRound' = NoRound /\ Landed(w)
  /\ UNCHANGED <<state, gen, handle, event, stopped, asked, heard, times, slid, removed,
                 wanted, asks, misses>>

----------------------------------------------------------------------------
Round(w) == \/ SkipRound(w) \/ BeginRound(w) \/ ApplyDelta(w) \/ MissRound(w)
            \/ Compact(w) \/ SaveCompacted(w)

Work(w) == Wake(w) \/ Round(w)

Finalize(f) == \/ ReadGeneration(f) \/ StopLoop(f) \/ JoinLoop(f) \/ Round(f)
               \/ Epilogue(f) \/ SaveLast(f)

Serve == StartLoop \/ Joined \/ GoIdle \/ SaveCall \/ Unlink

LiveNext == \/ Hear \/ Serve
            \/ Start \/ Stop("stop") \/ Stop("discard") \/ Reset
            \/ \E l \in Loops : Work(l)
            \/ \E f \in Finals : FinishRecording(f) \/ Finalize(f)

LiveSpec == LiveInit /\ [][LiveNext]_liveState

----------------------------------------------------------------------------
(* Properties.                                                             *)

Met(ss) == surprises \intersect ss # {}

LiveAtRest == /\ asked.pc = "idle" /\ ~Finalizing
              /\ \A l \in Loops : Alive(l) => worker[l].pc = "waiting"

\* Between calls the engine is as the client last asked: running with exactly
\* one loop, or idle with none ("a reconnecting client's start() wins over
\* this epilogue"), but for the ways named.
EnabledIsServed ==
  LiveAtRest =>
    /\ \/ wanted <=> state.engine = "running"
       \/ Met({"restarted", "reset"})
    /\ \/ Cardinality({l \in Loops : GoesOn(l)}) = IF wanted THEN 1 ELSE 0
       \/ Met({"restarted", "outlived", "orphaned"})

\* No line is new to two rounds ("without the lock both would ... double-process
\* the same lines"), and the tail passes no line that no round had, except
\* those that left the window meanwhile.
LinesAreTakenOnce ==
  \A s \in Lines :
    /\ times[s] <= 1
    /\ s <= state.tail => times[s] = 1 \/ s \in slid \/ Met({"crossed"})

\* Between calls the file is not behind the engine, and a discarded recording
\* has none ("Discard all recording data"), but for the ways named.
FileFollowsEngine ==
  LiveAtRest =>
    IF removed THEN copy[File] = "none" \/ Met({"late"})
               ELSE copy[File] # "old" \/ Met({"overtaken"})

\* However much is said and however often the summary is reset, the engine comes
\* to have every line it has taken in a round, by the loop or by finalize's last
\* one ("covering the tail"), but for the ways named.
LinesAreSummarized ==
  []<>(\/ \A s \in 1..heard : times[s] = 1 \/ s \in slid
       \/ Met({"crossed", "disabled", "missed", "tooLate"}))
=============================================================================
