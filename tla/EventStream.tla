---------------------------- MODULE EventStream ----------------------------
(***************************************************************************)
(* The change stream between one server process and one client: the event  *)
(* bus (events/bus.py), the SSE generator of a connection                   *)
(* (events/routes.py), and the client that keeps a cursor, reconnects and  *)
(* reconciles (frontend api/events.ts, event-apply.ts).                    *)
(*                                                                         *)
(* publish() runs in any thread; a stamped event is posted to the loop by  *)
(* call_soon_threadsafe and enqueued by _offer_async, so there are three   *)
(* steps from the sequence number to the queue.  The generator and         *)
(* _offer_async share the loop; worker threads may stamp between any two   *)
(* of the generator's accesses to the bus.                                 *)
(*                                                                         *)
(* A change is a committed write, numbered in the order of its event; the  *)
(* client "knows" a change when it has re-read the state since.  Other     *)
(* clients have queues of their own and do not matter to this one.         *)
(***************************************************************************)
EXTENDS Integers, Sequences, FiniteSets, SequencesExt, Filtering

CONSTANTS
  Publishers,    \* threads that publish, the event loop among them
  RingSize,      \* EventBus maxlen
  QueueSize,     \* EventBus queue_size
  Private,       \* changes this client's actor may not see
  Unreconciled,  \* changes planResync does not re-read (notes, config)
  Unscoped,      \* changes whose event names no collection (a task cleared or
                 \* cancelled, a file or note of none)
  MaxChanges,    \* bound: changes ever made
  MaxDrops,      \* bound: connections that break
  MaxRestarts    \* bound: restarts of the server

ASSUME PublishersAssumption == IsFiniteSet(Publishers)
ASSUME SizesAssumption == RingSize \in Nat \ {0} /\ QueueSize \in Nat \ {0}
ASSUME BoundsAssumption == MaxChanges \in Nat /\ MaxDrops \in Nat /\ MaxRestarts \in Nat

Changes == 1..MaxChanges
NoCursor == -1                \* `since` undefined, None
Cursors == 0..MaxChanges
Events == [seq : 1..MaxChanges, change : Changes]
NoEvent == [seq |-> 0, change |-> 0]

VARIABLES
  made,       \* changes committed so far: 1..made
  seq,        \* _seq
  ring,       \* _ring, oldest first
  hand,       \* the event a publisher has stamped and not yet posted to our queue
  posted,     \* events whose _offer_async waits for the loop
  aqueue,     \* Subscription.aqueue
  overflowed, \* Subscription._overflowed
  gen,        \* where the generator of the connection is; "closed": no connection
  asked,      \* the connection's `since` parameter
  cursor,     \* the generator's `cursor`
  replay,     \* rest of the snapshot the generator still replays
  wire,       \* frames sent and not yet received
  since,      \* the client's cursor
  mounted,    \* the client has its mount-time snapshot
  known,      \* changes the client has re-read
  calls,      \* connection drops and restarts so far
  stale,      \* history: `since` was set by an earlier server process
  excused     \* history: changes that fell in one of the known holes

busVars == <<seq, ring>>
pipeVars == <<hand, posted>>
subVars == <<aqueue, overflowed>>
genVars == <<gen, asked, cursor, replay>>
clientVars == <<since, mounted, known, stale>>
vars == <<made, busVars, pipeVars, subVars, genVars, wire, clientVars, calls, excused>>

Stages == {"closed", "subscribed", "check", "snapshot", "replay", "live"}
Frames == [kind : {"hello", "change", "resync"}, seq : Cursors, change : Changes \union {0}]

Hello(s) == [kind |-> "hello", seq |-> s, change |-> 0]
Change(e) == [kind |-> "change", seq |-> e.seq, change |-> e.change]
Resync == [kind |-> "resync", seq |-> 0, change |-> 0]

TypeOK ==
  /\ made \in 0..MaxChanges
  /\ seq \in 0..made
  /\ ring \in Seq(Events) /\ Len(ring) <= RingSize
  /\ hand \in [Publishers -> Events \union {NoEvent}]
  /\ posted \in Seq(Events)
  /\ aqueue \in Seq(Events) /\ Len(aqueue) <= QueueSize
  /\ overflowed \in BOOLEAN
  /\ gen \in Stages
  /\ asked \in Cursors \union {NoCursor}
  /\ cursor \in Cursors
  /\ replay \in Seq(Events)
  /\ wire \in Seq(Frames)
  /\ since \in Cursors \union {NoCursor}
  /\ mounted \in BOOLEAN
  /\ known \subseteq Changes
  /\ calls \in [{"drop", "restart"} -> Nat]
  /\ stale \in BOOLEAN
  /\ excused \subseteq Changes

Init ==
  /\ made = 0
  /\ seq = 0
  /\ ring = <<>>
  /\ hand = [p \in Publishers |-> NoEvent]
  /\ posted = <<>>
  /\ aqueue = <<>>
  /\ overflowed = FALSE
  /\ gen = "closed"
  /\ asked = NoCursor
  /\ cursor = 0
  /\ replay = <<>>
  /\ wire = <<>>
  /\ since = NoCursor
  /\ mounted = FALSE
  /\ known = {}
  /\ calls = [k \in {"drop", "restart"} |-> 0]
  /\ stale = FALSE
  /\ excused = {}

Committed == 1..made
Unknown == Committed \ known
ChangesIn(events) == {e.change : e \in ToSet(events)}

----------------------------------------------------------------------------
\* The bus.

\* Mutation of Stamp: evicts one event too late.
StampEvictsLate(p) ==
  /\ hand[p] = NoEvent
  /\ made < MaxChanges
  /\ made' = made + 1
  /\ seq' = seq + 1
  /\ LET event == [seq |-> seq + 1, change |-> made + 1]
         full == Len(ring) > RingSize
     IN /\ ring' = Append(IF full THEN Tail(ring) ELSE ring, event)
        /\ hand' = [hand EXCEPT ![p] = IF gen = "closed" THEN NoEvent ELSE event]
  /\ UNCHANGED <<posted, subVars, genVars, wire, clientVars, calls, excused>>

\* Under the bus lock: number the event, retain it, copy the subscriber list.
Stamp(p) ==
  /\ hand[p] = NoEvent
  /\ made < MaxChanges
  /\ made' = made + 1
  /\ seq' = seq + 1
  /\ LET event == [seq |-> seq + 1, change |-> made + 1]
         full == Len(ring) = RingSize
     IN /\ ring' = Append(IF full THEN Tail(ring) ELSE ring, event)
        /\ hand' = [hand EXCEPT ![p] = IF gen = "closed" THEN NoEvent ELSE event]
  /\ UNCHANGED <<posted, subVars, genVars, wire, clientVars, calls, excused>>

Overtaken(p) == {q \in Publishers : hand[q] # NoEvent /\ hand[q].seq < hand[p].seq}

\* call_soon_threadsafe, outside the lock.  A hole: a publisher that stamped
\* earlier is overtaken here, and the reader drops what is behind its cursor.
Post(p) ==
  /\ hand[p] # NoEvent
  /\ posted' = Append(posted, hand[p])
  /\ hand' = [hand EXCEPT ![p] = NoEvent]
  /\ excused' = excused \union {hand[q].change : q \in Overtaken(p)}
  /\ UNCHANGED <<made, busVars, subVars, genVars, wire, clientVars, calls>>

\* _offer_async: a full queue loses the event and says so.
Offer ==
  /\ posted # <<>>
  /\ posted' = Tail(posted)
  /\ IF Len(aqueue) < QueueSize
     THEN aqueue' = Append(aqueue, Head(posted)) /\ UNCHANGED overflowed
     ELSE overflowed' = TRUE /\ UNCHANGED aqueue
  /\ UNCHANGED <<made, busVars, hand, genVars, wire, clientVars, calls, excused>>

CanReplay(s) ==
  /\ s <= seq
  /\ IF ring = <<>> THEN s = seq ELSE s >= ring[1].seq - 1

SnapshotSince(s) == Kept(ring, {e \in Events : e.seq > s})

----------------------------------------------------------------------------
\* The generator of the connection.

Send(frame) == wire' = Append(wire, frame)

\* Frames of changes the actor may not see are skipped; the cursor moves on.
SendChange(e) == IF e.change \in Private THEN UNCHANGED wire ELSE Send(Change(e))

\* stream_events subscribes before the response starts.
Connect ==
  /\ gen = "closed"
  /\ gen' = "subscribed"
  /\ asked' = since
  /\ UNCHANGED <<made, busVars, pipeVars, subVars, cursor, replay, wire, clientVars,
                 calls, excused>>

\* A hole: a client that reconnects without a cursor starts at the head and
\* nobody tells it to re-read what it does not know yet.
Greet ==
  /\ gen = "subscribed"
  /\ cursor' = seq
  /\ Send(Hello(seq))
  /\ gen' = IF asked = NoCursor THEN "live" ELSE "check"
  /\ excused' = IF asked = NoCursor /\ mounted THEN excused \union Unknown ELSE excused
  /\ UNCHANGED <<made, busVars, pipeVars, subVars, asked, replay, clientVars, calls>>

\* can_replay, its negative branch up to the live loop.  A hole: a cursor of an
\* earlier process that the new one has already reached looks replayable.
CheckReplay ==
  /\ gen = "check"
  /\ IF CanReplay(asked)
     THEN /\ gen' = "snapshot"
          /\ excused' = IF stale
                        THEN excused \union (Unknown \ ChangesIn(SnapshotSince(asked)))
                        ELSE excused
          /\ UNCHANGED <<cursor, wire>>
     ELSE /\ gen' = "live"
          /\ Send(Resync)
          /\ cursor' = seq
          /\ UNCHANGED excused
  /\ UNCHANGED <<made, busVars, pipeVars, subVars, asked, replay, clientVars, calls>>

\* Mutation of TakeSnapshot: the first event after the cursor is left out.
TakeSnapshotTooLate ==
  /\ gen = "snapshot"
  /\ gen' = "replay"
  /\ replay' = SnapshotSince(asked + 1)
  /\ UNCHANGED <<made, busVars, pipeVars, subVars, asked, cursor, wire, clientVars,
                 calls, excused>>

\* snapshot_since takes the lock again.  A hole: a worker thread evicts the
\* events that can_replay has just seen.
TakeSnapshot ==
  /\ gen = "snapshot"
  /\ gen' = "replay"
  /\ replay' = SnapshotSince(asked)
  /\ excused' = IF CanReplay(asked)
                THEN excused
                ELSE excused \union (Unknown \ ChangesIn(SnapshotSince(asked)))
  /\ UNCHANGED <<made, busVars, pipeVars, subVars, asked, cursor, wire, clientVars, calls>>

ReplayNext ==
  /\ gen = "replay"
  /\ IF replay = <<>>
     THEN gen' = "live" /\ UNCHANGED <<cursor, replay, wire>>
     ELSE /\ cursor' = Head(replay).seq
          /\ SendChange(Head(replay))
          /\ replay' = Tail(replay)
          /\ UNCHANGED gen
  /\ UNCHANGED <<made, busVars, pipeVars, subVars, asked, clientVars, calls, excused>>

\* Mutation of ResyncAfterOverflow: the flag is taken and nobody is told.
ResyncAfterOverflowSilently ==
  /\ gen = "live"
  /\ overflowed
  /\ overflowed' = FALSE
  /\ aqueue' = <<>>
  /\ cursor' = seq
  /\ UNCHANGED <<made, busVars, pipeVars, gen, asked, replay, wire, clientVars, calls,
                 excused>>

\* Mutation of ResyncAfterOverflow: the cursor stays where it was.
ResyncAfterOverflowKeepsCursor ==
  /\ gen = "live"
  /\ overflowed
  /\ overflowed' = FALSE
  /\ Send(Resync)
  /\ aqueue' = <<>>
  /\ UNCHANGED <<made, busVars, pipeVars, gen, asked, cursor, replay, clientVars, calls,
                 excused>>

\* take_overflowed, the resync frame, drain_subscription and the new cursor.  The
\* generator goes on before the loop can serve what the client asks for on
\* receiving the frame, so all of it comes before the client re-reads.
ResyncAfterOverflow ==
  /\ gen = "live"
  /\ overflowed
  /\ overflowed' = FALSE
  /\ Send(Resync)
  /\ aqueue' = <<>>
  /\ cursor' = seq
  /\ UNCHANGED <<made, busVars, pipeVars, gen, asked, replay, clientVars, calls, excused>>

\* Mutation of Deliver: an event at the cursor passes.
DeliverAgain ==
  /\ gen = "live"
  /\ ~ overflowed
  /\ aqueue # <<>>
  /\ aqueue' = Tail(aqueue)
  /\ IF Head(aqueue).seq < cursor
     THEN UNCHANGED <<cursor, wire>>
     ELSE cursor' = Head(aqueue).seq /\ SendChange(Head(aqueue))
  /\ UNCHANGED <<made, busVars, pipeVars, overflowed, gen, asked, replay, clientVars,
                 calls, excused>>

Deliver ==
  /\ gen = "live"
  /\ ~ overflowed
  /\ aqueue # <<>>
  /\ aqueue' = Tail(aqueue)
  /\ IF Head(aqueue).seq <= cursor
     THEN UNCHANGED <<cursor, wire>>
     ELSE cursor' = Head(aqueue).seq /\ SendChange(Head(aqueue))
  /\ UNCHANGED <<made, busVars, pipeVars, overflowed, gen, asked, replay, clientVars,
                 calls, excused>>

----------------------------------------------------------------------------
\* The client.

\* The mount-time reads are taken to be answered when the first hello arrives.
ReceiveHello ==
  /\ wire # <<>> /\ Head(wire).kind = "hello"
  /\ wire' = Tail(wire)
  /\ since' = IF since = NoCursor THEN Head(wire).seq ELSE since
  /\ stale' = (stale /\ since # NoCursor)
  /\ known' = IF mounted THEN known ELSE Committed
  /\ mounted' = TRUE
  /\ UNCHANGED <<made, busVars, pipeVars, subVars, genVars, calls, excused>>

\* The refetch planned for the event; COALESCE_MS later, so it reads no less.  A
\* hole: planActions plans none when the event has no scope id.
ReceiveChange ==
  /\ wire # <<>> /\ Head(wire).kind = "change"
  /\ wire' = Tail(wire)
  /\ LET change == {Head(wire).change} IN
       /\ known' = known \union (change \ Unscoped)
       /\ excused' = excused \union (change \intersect Unscoped \intersect Unknown)
  /\ IF since = NoCursor \/ Head(wire).seq > since
     THEN since' = Head(wire).seq /\ stale' = FALSE
     ELSE UNCHANGED <<since, stale>>
  /\ UNCHANGED <<made, busVars, pipeVars, subVars, genVars, mounted, calls>>

\* resyncAll.  A hole: it does not re-read every surface.
ReceiveResync ==
  /\ wire # <<>> /\ Head(wire).kind = "resync"
  /\ wire' = Tail(wire)
  /\ since' = NoCursor
  /\ stale' = FALSE
  /\ known' = known \union (Committed \ Unreconciled)
  /\ excused' = excused \union (Unreconciled \intersect Unknown)
  /\ UNCHANGED <<made, busVars, pipeVars, subVars, genVars, mounted, calls>>

Receive == ReceiveHello \/ ReceiveChange \/ ReceiveResync

----------------------------------------------------------------------------
\* Failures.

CountCall(k, max) ==
  /\ calls[k] < max
  /\ calls' = [calls EXCEPT ![k] = @ + 1]

\* The connection is gone with all that was on its way; the generator's finally
\* unsubscribes it.
Disconnect ==
  /\ gen' = "closed"
  /\ hand' = [p \in Publishers |-> NoEvent]
  /\ posted' = <<>>
  /\ aqueue' = <<>>
  /\ overflowed' = FALSE
  /\ replay' = <<>>
  /\ cursor' = 0
  /\ asked' = NoCursor
  /\ wire' = <<>>

Drop ==
  /\ gen # "closed"
  /\ CountCall("drop", MaxDrops)
  /\ Disconnect
  /\ UNCHANGED <<made, busVars, clientVars, excused>>

\* The bus starts empty, at seq 0.
Restart ==
  /\ CountCall("restart", MaxRestarts)
  /\ Disconnect
  /\ seq' = 0
  /\ ring' = <<>>
  /\ stale' = (since # NoCursor)
  /\ UNCHANGED <<made, since, mounted, known, excused>>

----------------------------------------------------------------------------
Generate == \/ Greet \/ CheckReplay \/ TakeSnapshot \/ ReplayNext
            \/ ResyncAfterOverflow \/ Deliver

Next ==
  \/ \E p \in Publishers : Stamp(p) \/ Post(p)
  \/ Offer
  \/ Connect
  \/ Generate
  \/ Receive
  \/ Drop \/ Restart

Spec == Init /\ [][Next]_vars

\* Threads and the loop go on, the client reads its stream and reconnects.
Fairness ==
  /\ \A p \in Publishers : WF_vars(Post(p))
  /\ WF_vars(Offer)
  /\ WF_vars(Connect)
  /\ WF_vars(Generate)
  /\ WF_vars(Receive)

FairSpec == Spec /\ Fairness
----------------------------------------------------------------------------
\* Whatever threads and drops do, a change frame always moves the client's cursor
\* on: none is applied twice or after a later one (the replay of a reconnect
\* against the live queue of the same connection).  The cursor of an earlier
\* server process is no measure for the frames of this one.
ChangesMoveOn ==
  wire # <<>> /\ Head(wire).kind = "change" =>
    since = NoCursor \/ stale \/ Head(wire).seq > since

OnTheWay == {hand[p].seq : p \in Publishers} \union {e.seq : e \in ToSet(posted \o aqueue)}

\* What is ahead of a live connection's cursor is never dropped in silence: each
\* event is still on its way to the queue or in it, or the overflow flag is up
\* and a resync frame will say so (Subscription: "overflowed records that events
\* were dropped").
NothingAheadIsLost ==
  gen = "live" /\ ~ overflowed => (cursor + 1)..seq \subseteq OnTheWay

\* All that was sent has arrived.
Quiet ==
  /\ gen = "live"
  /\ ~ overflowed
  /\ wire = <<>>
  /\ OnTheWay \subseteq {0}

\* A client that has received everything knows every change it may see (events.ts:
\* "a brief network drop replays what was missed instead of silently losing it").
NothingMissed == Quiet => Unknown \subseteq Private

\* The same, but for the changes that fell in a hole named at its action.
NothingElseMissed == Quiet => Unknown \subseteq Private \union excused

\* Once connections stop breaking, every visible change reaches the client or
\* has fallen in such a hole: no overflow, gap or reconnect leaves it waiting.
ChangesArrive ==
  \A c \in Changes \ Private : (made >= c) ~> (c \in known \union excused)
============================================================================
