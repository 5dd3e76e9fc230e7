------------------------- MODULE EventStreamProofs -------------------------
(***************************************************************************)
(* Theorems about the change stream, for any publishers, sizes and bounds: *)
(* types, that a change frame moves the client on, that nothing ahead of a *)
(* live connection is lost in silence, and that a client that has received *)
(* all knows every change outside the named holes.                         *)
(***************************************************************************)
EXTENDS EventStream, FilteringProofs

\* The events that this process has numbered: number and change keep their distance.
Ours == {e \in Events : e.seq <= seq /\ e.change = e.seq + (made - seq)}
OurFrames == {f \in Frames : /\ f.kind = "hello" => f.seq <= seq
                             /\ f.kind = "change" => [seq |-> f.seq, change |-> f.change] \in Ours}

\* The ring is the last numbers without a gap, and whatever is on its way, at any
\* place, was numbered by this process.
Numbered ==
  /\ ring \in Seq(Ours) /\ Len(ring) <= seq
  /\ \A i \in 1..Len(ring) : ring[i].seq = seq - Len(ring) + i
  /\ hand \in [Publishers -> Ours \union {NoEvent}]
  /\ posted \in Seq(Ours)
  /\ aqueue \in Seq(Ours)
  /\ replay \in Seq(Ours)
  /\ wire \in Seq(OurFrames)
  /\ cursor <= seq

----------------------------------------------------------------------------
\* Sequences.

\* What stands where after an item was added.
LEMMA Appended ==
  ASSUME NEW S, NEW s \in Seq(S), NEW x \in S
  PROVE  /\ Append(s, x) \in Seq(S) /\ Len(Append(s, x)) = Len(s) + 1
         /\ Len(s) \in Nat /\ Append(s, x) # <<>>
         /\ \A i \in 1..Len(s) : Append(s, x)[i] = s[i] /\ s[i] \in S
         /\ Append(s, x)[Len(s) + 1] = x
OBVIOUS

\* What stands where after the first item was taken.
LEMMA TailOf ==
  ASSUME NEW S, NEW s \in Seq(S), s # <<>>
  PROVE  /\ Tail(s) \in Seq(S) /\ Len(Tail(s)) = Len(s) - 1
         /\ Len(s) \in Nat \ {0} /\ Head(s) = s[1] /\ s[1] \in S
         /\ \A i \in 1..Len(s) - 1 : Tail(s)[i] = s[i + 1] /\ s[i + 1] \in S
OBVIOUS

\* The last of the three ways in which the ring changes: one goes, one comes.
LEMMA Rolled ==
  ASSUME NEW S, NEW s \in Seq(S), NEW x \in S, s # <<>>
  PROVE  /\ Append(Tail(s), x) \in Seq(S) /\ Len(Append(Tail(s), x)) = Len(s)
         /\ \A i \in 1..Len(s) - 1 : Append(Tail(s), x)[i] = s[i + 1]
         /\ Append(Tail(s), x)[Len(s)] = x
<1> DEFINE t == Tail(s)
<1>1. /\ t \in Seq(S) /\ Len(t) = Len(s) - 1 /\ Len(s) \in Nat \ {0}
      /\ \A i \in 1..Len(s) - 1 : t[i] = s[i + 1]
  BY TailOf
<1> HIDE DEF t
<1>2. /\ Append(t, x) \in Seq(S) /\ Len(Append(t, x)) = Len(t) + 1
      /\ \A i \in 1..Len(t) : Append(t, x)[i] = t[i]
      /\ Append(t, x)[Len(t) + 1] = x
  BY <1>1, Appended
<1> QED
  BY <1>1, <1>2 DEF t

----------------------------------------------------------------------------
\* Types.

\* A sequence over a set is one over any larger set.
LEMMA SeqMono ==
  ASSUME NEW S, NEW T, S \subseteq T, NEW s \in Seq(S)
  PROVE  s \in Seq(T)
OBVIOUS

\* At first there is nothing.
LEMMA InitTypes == ASSUME Init PROVE TypeOK /\ Numbered
<1>1. \A S : <<>> \in Seq(S)
  OBVIOUS
<1>2. Len(<<>>) = 0 /\ 0 \in 0..MaxChanges /\ 0 <= RingSize /\ 0 <= QueueSize
  BY BoundsAssumption, SizesAssumption
<1>3. TypeOK
  <2>1. made \in 0..MaxChanges /\ seq \in 0..made /\ cursor \in Cursors
    BY <1>2 DEF Init, Cursors
  <2>2. calls \in [{"drop", "restart"} -> Nat]
    BY DEF Init
  <2>3. hand \in [Publishers -> Events \union {NoEvent}]
    BY DEF Init
  <2> QED
    BY <1>1, <1>2, <2>1, <2>2, <2>3 DEF Init, TypeOK, Stages
<1>4. Numbered
  BY <1>1, <1>2 DEF Init, Numbered
<1> QED
  BY <1>3, <1>4

\* What is in Ours.
LEMMA OursAre ==
  ASSUME TypeOK, NEW e \in Ours
  PROVE  /\ e \in Events /\ e.seq \in 1..seq /\ e.seq \in Nat /\ e.seq \in Cursors
         /\ e.change = e.seq + (made - seq) /\ e.change \in Changes
         /\ e # NoEvent /\ Change(e) \in OurFrames
<1>1. e \in Events /\ e.seq <= seq /\ e.change = e.seq + (made - seq)
  BY DEF Ours
<1>2. e = [seq |-> e.seq, change |-> e.change] /\ e.seq \in 1..MaxChanges /\ e.change \in Changes
  BY <1>1 DEF Events
<1>3. Change(e).kind = "change" /\ Change(e).seq = e.seq /\ Change(e).change = e.change
  BY DEF Change
<1>4. Change(e) \in Frames
  BY <1>2, BoundsAssumption DEF Change, Frames, Cursors
<1>5. Change(e) \in OurFrames
  BY <1>2, <1>3, <1>4 DEF OurFrames
<1> QED
  BY <1>1, <1>2, <1>5, BoundsAssumption, SMTT(30) DEF TypeOK, Cursors, Changes, NoEvent

\* Numbers that were given stay: no step but a restart changes their distance to
\* the changes.
LEMMA OursGrow ==
  ASSUME TypeOK, TypeOK', seq <= seq', made' - seq' = made - seq
  PROVE  Ours \subseteq Ours' /\ OurFrames \subseteq OurFrames'
<1>1. seq \in Nat /\ seq' \in Nat /\ made \in Nat /\ made' \in Nat
  BY BoundsAssumption DEF TypeOK
<1>2. ASSUME NEW e \in Ours
      PROVE  e \in Ours'
  <2>1. e \in Events /\ e.seq \in Int /\ e.seq <= seq /\ e.change = e.seq + (made - seq)
    BY DEF Ours, Events
  <2>2. e.seq <= seq'
    BY <1>1, <2>1
  <2>3. e.change = e.seq + (made' - seq')
    BY <2>1, <2>2
  <2> QED
    BY <2>1, <2>2, <2>3 DEF Ours
<1>3. ASSUME NEW f \in OurFrames
      PROVE  f \in OurFrames'
  <2>1. f \in Frames /\ f.seq \in Int
    BY BoundsAssumption DEF OurFrames, Frames, Cursors
  <2>2. f.kind = "hello" => f.seq <= seq'
    BY <1>1, <2>1 DEF OurFrames
  <2>3. f.kind = "change" => [seq |-> f.seq, change |-> f.change] \in Ours'
    BY <1>2 DEF OurFrames
  <2> QED
    BY <2>1, <2>2, <2>3 DEF OurFrames
<1> QED
  BY <1>2, <1>3

\* Whatever is on its way stays numbered.
LEMMA StaysNumbered ==
  ASSUME Ours \subseteq Ours', OurFrames \subseteq OurFrames'
  PROVE  /\ Seq(Ours) \subseteq Seq(Ours') /\ Seq(OurFrames) \subseteq Seq(OurFrames')
         /\ [Publishers -> Ours \union {NoEvent}] \subseteq [Publishers -> Ours' \union {NoEvent}]
<1>1. \A s \in Seq(Ours) : s \in Seq(Ours')
  BY SeqMono
<1>2. \A s \in Seq(OurFrames) : s \in Seq(OurFrames')
  BY SeqMono
<1> QED
  BY <1>1, <1>2

\* What snapshot_since copies.
LEMMA Snapshot ==
  ASSUME TypeOK, Numbered, NEW s \in Int
  PROVE  /\ SnapshotSince(s) \in Seq(Ours)
         /\ \A i \in 1..Len(SnapshotSince(s)) : SnapshotSince(s)[i].seq > s
         /\ \A i, j \in 1..Len(SnapshotSince(s)) :
              i < j => SnapshotSince(s)[i].seq < SnapshotSince(s)[j].seq
         /\ \A k \in 1..Len(ring) : ring[k].seq > s =>
              \E i \in 1..Len(SnapshotSince(s)) : SnapshotSince(s)[i] = ring[k]
         /\ SnapshotSince(s) # <<>> => SnapshotSince(s)[Len(SnapshotSince(s))].seq = seq
<1> DEFINE T == {e \in Events : e.seq > s}
           q == SnapshotSince(s)
<1>1. /\ ring \in Seq(Ours) /\ Len(ring) \in Nat /\ Len(ring) <= seq /\ seq \in Nat
      /\ \A i \in 1..Len(ring) : ring[i] \in Ours /\ ring[i].seq = seq - Len(ring) + i
  BY BoundsAssumption DEF TypeOK, Numbered
<1>8. q = Kept(ring, T)
  BY DEF SnapshotSince
<1> HIDE DEF q, T
<1>2. q \in Seq(Ours) /\ Len(q) <= Len(ring) /\ IsFiltered(ring, T, q)
  BY <1>1, <1>8, KeptIsFiltered
<1>3. \A k \in 1..Len(ring) : ring[k] \in Events /\ (ring[k].seq > s => ring[k] \in T)
  BY <1>1 DEF Ours, T
<1>4. q \in Seq(Ours) /\ Len(q) \in Nat /\ \A i \in 1..Len(q) : q[i] \in Ours /\ q[i] \in T
  BY <1>2 DEF IsFiltered
<1>5. \A i \in 1..Len(q) : q[i].seq > s /\ q[i].seq \in 1..seq
  BY <1>4, OursAre DEF T
<1>6. ASSUME NEW i \in 1..Len(q), NEW j \in 1..Len(q), i < j
      PROVE  q[i].seq < q[j].seq
  <2>1. PICK k, l \in 1..Len(ring) : k < l /\ q[i] = ring[k] /\ q[j] = ring[l]
    BY <1>2, <1>6 DEF IsFiltered
  <2> QED
    BY <1>1, <2>1
<1>7. ASSUME q # <<>>
      PROVE  q[Len(q)].seq = seq
  <2>1. Len(q) \in 1..Len(q)
    BY <1>4, <1>7
  <2>2. q[Len(q)].seq > s /\ q[Len(q)].seq \in 1..seq
    BY <1>5, <2>1
  <2>3. Len(ring) # 0
    BY <1>1, <1>2, <1>4, <2>1
  <2>4. Len(ring) \in 1..Len(ring) /\ ring[Len(ring)].seq = seq
    BY <1>1, <2>3
  <2>5. PICK j \in 1..Len(q) : q[j] = ring[Len(ring)]
    <3>1. ring[Len(ring)] \in T
      BY <1>1, <1>3, <2>2, <2>4
    <3> QED
      BY <1>2, <2>4, <3>1 DEF IsFiltered
  <2>6. j = Len(q) \/ q[j].seq < q[Len(q)].seq
    BY <1>4, <1>6, <2>1
  <2> QED
    BY <1>1, <2>2, <2>4, <2>5, <2>6
<1>9. \A k \in 1..Len(ring) : ring[k].seq > s => \E i \in 1..Len(q) : q[i] = ring[k]
  BY <1>2, <1>3 DEF IsFiltered
<1> QED
  BY <1>4, <1>5, <1>6, <1>7, <1>9 DEF q

\* Sending keeps the wire a sequence of frames.
LEMMA SendTypes ==
  ASSUME TypeOK, Numbered, NEW f \in OurFrames, Send(f)
  PROVE  wire' \in Seq(OurFrames) /\ wire' \in Seq(Frames)
<1>1. wire \in Seq(OurFrames)
  BY DEF Numbered
<1>2. wire' \in Seq(OurFrames)
  BY <1>1, Appended DEF Send
<1>3. OurFrames \subseteq Frames
  BY DEF OurFrames
<1> QED
  BY <1>2, <1>3, SeqMono

\* So does the frame of an event, sent or not.
LEMMA SendChangeTypes ==
  ASSUME TypeOK, Numbered, NEW e \in Ours, SendChange(e)
  PROVE  wire' \in Seq(OurFrames) /\ wire' \in Seq(Frames)
<1>1. CASE e.change \in Private
  BY <1>1 DEF SendChange, Numbered, TypeOK
<1>2. CASE e.change \notin Private
  <2>1. Change(e) \in OurFrames
    BY OursAre
  <2> QED
    BY <1>2, <2>1, SendTypes DEF SendChange
<1> QED
  BY <1>1, <1>2

\* The two other frames.
LEMMA OtherFrames ==
  ASSUME TypeOK
  PROVE  Hello(seq) \in OurFrames /\ Resync \in OurFrames
<1>1. seq \in Cursors /\ 0 \in Cursors /\ seq <= seq
  BY BoundsAssumption DEF TypeOK, Cursors
<1> QED
  BY <1>1 DEF Hello, Resync, OurFrames, Frames

\* Types are kept by every step.
LEMMA StepTypes ==
  ASSUME TypeOK, Numbered, [Next]_vars
  PROVE  TypeOK'
<1> USE DEF busVars, pipeVars, subVars, genVars, clientVars
<1>1. ASSUME NEW p \in Publishers, Stamp(p)
      PROVE  TypeOK'
  <2> DEFINE e == [seq |-> seq + 1, change |-> made + 1]
  <2>1. e \in Events /\ made' \in 0..MaxChanges /\ seq' \in 0..made'
    BY <1>1, BoundsAssumption DEF Stamp, TypeOK, Events, Changes
  <2>2. hand' = [hand EXCEPT ![p] = IF gen = "closed" THEN NoEvent ELSE e]
    BY <1>1 DEF Stamp
  <2>3. ring' = Append(IF Len(ring) = RingSize THEN Tail(ring) ELSE ring, e)
    BY <1>1 DEF Stamp
  <2> HIDE DEF e
  <2>4. hand' \in [Publishers -> Events \union {NoEvent}]
    BY <2>1, <2>2 DEF TypeOK
  <2>5. ring' \in Seq(Events) /\ Len(ring') <= RingSize
    <3>1. ring \in Seq(Events) /\ Len(ring) \in Nat /\ Len(ring) <= RingSize /\ RingSize \in Nat \ {0}
      BY SizesAssumption DEF TypeOK
    <3>2. CASE Len(ring) = RingSize
      <4>1. ring # <<>>
        BY <3>1, <3>2
      <4> QED
        BY <2>1, <2>3, <3>1, <3>2, <4>1, Rolled
    <3>3. CASE Len(ring) # RingSize
      <4>1. ring' = Append(ring, e)
        BY <2>3, <3>3
      <4>2. ring' \in Seq(Events) /\ Len(ring') = Len(ring) + 1
        BY <2>1, <3>1, <4>1, Appended
      <4> QED
        BY <3>1, <3>3, <4>2
    <3> QED
      BY <3>2, <3>3
  <2> QED
    BY <1>1, <2>1, <2>4, <2>5 DEF Stamp, TypeOK
<1>2. ASSUME NEW p \in Publishers, Post(p)
      PROVE  TypeOK'
  <2>1. hand[p] \in Ours /\ \A q \in Publishers : hand[q] # NoEvent => hand[q] \in Ours
    BY <1>2 DEF Post, Numbered
  <2>2. \A q \in Publishers : hand[q] # NoEvent => hand[q].change \in Changes
    BY <2>1, OursAre
  <2>3. hand[p] \in Events /\ posted' \in Seq(Events)
    BY <1>2, <2>1, OursAre, Appended DEF Post, TypeOK
  <2>4. {hand[q].change : q \in Overtaken(p)} \subseteq Changes
    BY <2>2 DEF Overtaken
  <2>5. hand' \in [Publishers -> Events \union {NoEvent}]
    BY <1>2 DEF Post, TypeOK
  <2>6. excused' \subseteq Changes
    BY <1>2, <2>4 DEF Post, TypeOK
  <2> QED
    BY <1>2, <2>3, <2>5, <2>6 DEF Post, TypeOK
<1>3. CASE Offer
  <2>1. posted' \in Seq(Events) /\ Head(posted) \in Events
    BY <1>3, TailOf DEF Offer, TypeOK
  <2>2. aqueue' \in Seq(Events) /\ Len(aqueue') <= QueueSize /\ overflowed' \in BOOLEAN
    <3>1. aqueue \in Seq(Events) /\ Len(aqueue) \in Nat /\ Len(aqueue) <= QueueSize /\ QueueSize \in Nat
      BY SizesAssumption DEF TypeOK
    <3>2. CASE Len(aqueue) < QueueSize
      <4>1. aqueue' = Append(aqueue, Head(posted)) /\ overflowed' = overflowed
        BY <1>3, <3>2 DEF Offer
      <4>2. aqueue' \in Seq(Events) /\ Len(aqueue') = Len(aqueue) + 1
        BY <2>1, <3>1, <4>1, Appended
      <4> QED
        BY <3>1, <3>2, <4>1, <4>2 DEF TypeOK
    <3>3. CASE ~ (Len(aqueue) < QueueSize)
      BY <1>3, <3>1, <3>3 DEF Offer
    <3> QED
      BY <3>2, <3>3
  <2> QED
    BY <1>3, <2>1, <2>2 DEF Offer, TypeOK
<1>4. CASE Connect
  BY <1>4 DEF Connect, TypeOK, Stages
<1>5. CASE Greet
  <2>1. wire' \in Seq(Frames)
    BY <1>5, OtherFrames, SendTypes DEF Greet
  <2>2. seq \in Cursors /\ Unknown \subseteq Changes
    BY BoundsAssumption DEF TypeOK, Cursors, Unknown, Committed, Changes
  <2> QED
    BY <1>5, <2>1, <2>2 DEF Greet, TypeOK, Stages
<1>6. CASE CheckReplay
  <2>1. wire' \in Seq(Frames)
    <3>1. CASE CanReplay(asked)
      BY <1>6, <3>1 DEF CheckReplay, TypeOK
    <3>2. CASE ~ CanReplay(asked)
      BY <1>6, <3>2, OtherFrames, SendTypes DEF CheckReplay
    <3> QED
      BY <3>1, <3>2
  <2>2. seq \in Cursors /\ Unknown \subseteq Changes
    BY BoundsAssumption DEF TypeOK, Cursors, Unknown, Committed, Changes
  <2>3. cursor' \in Cursors /\ gen' \in Stages /\ excused' \subseteq Changes
    BY <1>6, <2>2 DEF CheckReplay, TypeOK, Stages
  <2> QED
    BY <1>6, <2>1, <2>3 DEF CheckReplay, TypeOK
<1>7. CASE TakeSnapshot
  <2>1. asked \in Int
    BY BoundsAssumption DEF TypeOK, Cursors, NoCursor
  <2>2. SnapshotSince(asked) \in Seq(Events)
    <3>1. SnapshotSince(asked) \in Seq(Ours)
      BY <2>1, Snapshot
    <3>2. Ours \subseteq Events
      BY DEF Ours
    <3> QED
      BY <3>1, <3>2, SeqMono
  <2>3. Unknown \subseteq Changes
    BY BoundsAssumption DEF TypeOK, Cursors, Unknown, Committed, Changes
  <2>4. excused' \subseteq Changes
    BY <1>7, <2>3 DEF TakeSnapshot, TypeOK
  <2> QED
    BY <1>7, <2>2, <2>4 DEF TakeSnapshot, TypeOK, Stages
<1>8. CASE ReplayNext
  <2>1. CASE replay = <<>>
    BY <1>8, <2>1 DEF ReplayNext, TypeOK, Stages
  <2>2. CASE replay # <<>>
    <3>1. Head(replay) \in Ours
      BY <2>2, TailOf DEF Numbered
    <3>2. cursor' \in Cursors /\ wire' \in Seq(Frames)
      BY <1>8, <2>2, <3>1, OursAre, SendChangeTypes DEF ReplayNext
    <3>3. replay' \in Seq(Events)
      <4>1. replay' = Tail(replay) /\ replay \in Seq(Events)
        BY <1>8, <2>2 DEF ReplayNext, TypeOK
      <4> QED
        BY <2>2, <4>1, TailOf
    <3> QED
      BY <1>8, <2>2, <3>2, <3>3 DEF ReplayNext, TypeOK
  <2> QED
    BY <2>1, <2>2
<1>9. CASE ResyncAfterOverflow
  <2>1. wire' \in Seq(Frames)
    BY <1>9, OtherFrames, SendTypes DEF ResyncAfterOverflow
  <2>2. seq \in Cursors /\ <<>> \in Seq(Events) /\ Len(<<>>) <= QueueSize
    BY BoundsAssumption, SizesAssumption DEF TypeOK, Cursors
  <2> QED
    BY <1>9, <2>1, <2>2 DEF ResyncAfterOverflow, TypeOK
<1>10. CASE Deliver
  <2>1. aqueue # <<>> /\ aqueue \in Seq(Ours) /\ aqueue \in Seq(Events) /\ aqueue' = Tail(aqueue)
    BY <1>10 DEF Deliver, Numbered, TypeOK
  <2>2. Head(aqueue) \in Ours
    BY <2>1, TailOf
  <2>3. aqueue' \in Seq(Events) /\ Len(aqueue') <= QueueSize
    <3>1. Tail(aqueue) \in Seq(Events) /\ Len(Tail(aqueue)) = Len(aqueue) - 1 /\ Len(aqueue) \in Nat
      BY <2>1, TailOf
    <3>2. Len(aqueue) <= QueueSize /\ QueueSize \in Nat
      BY SizesAssumption DEF TypeOK
    <3> QED
      BY <2>1, <3>1, <3>2
  <2>4. CASE Head(aqueue).seq <= cursor
    BY <1>10, <2>3, <2>4 DEF Deliver, TypeOK
  <2>5. CASE ~ (Head(aqueue).seq <= cursor)
    <3>1. cursor' \in Cursors /\ wire' \in Seq(Frames)
      BY <1>10, <2>2, <2>5, OursAre, SendChangeTypes DEF Deliver
    <3> QED
      BY <1>10, <2>3, <3>1 DEF Deliver, TypeOK
  <2> QED
    BY <2>4, <2>5
<1>11. CASE Receive
  <2>1. wire # <<>> /\ wire \in Seq(Frames) /\ wire' = Tail(wire) /\ wire \in Seq(OurFrames)
    BY <1>11 DEF Receive, ReceiveHello, ReceiveChange, ReceiveResync, TypeOK, Numbered
  <2>2. wire' \in Seq(Frames) /\ Head(wire) \in Frames /\ Head(wire) \in OurFrames
    BY <2>1, TailOf
  <2>3. Head(wire).seq \in Cursors
    BY <2>2 DEF Frames
  <2>4. Committed \subseteq Changes
    BY BoundsAssumption DEF TypeOK, Committed, Changes
  <2>5. CASE ReceiveHello
    BY <2>2, <2>3, <2>4, <2>5 DEF ReceiveHello, TypeOK
  <2>6. CASE ReceiveChange
    <3>1. Head(wire).change \in Changes
      BY <2>2, <2>6, OursAre DEF ReceiveChange, OurFrames
    <3>2. known' \subseteq Changes /\ excused' \subseteq Changes
      BY <2>6, <3>1 DEF ReceiveChange, TypeOK
    <3>3. since' \in Cursors \union {NoCursor} /\ stale' \in BOOLEAN
      BY <2>3, <2>6 DEF ReceiveChange, TypeOK
    <3> QED
      BY <2>2, <2>6, <3>2, <3>3 DEF ReceiveChange, TypeOK
  <2>7. CASE ReceiveResync
    <3>1. known' \subseteq Changes /\ excused' \subseteq Changes
      BY <2>4, <2>7 DEF ReceiveResync, Unknown, TypeOK
    <3> QED
      BY <2>2, <2>7, <3>1 DEF ReceiveResync, TypeOK
  <2> QED
    BY <1>11, <2>5, <2>6, <2>7 DEF Receive
<1>12. ASSUME Drop \/ Restart
       PROVE  TypeOK'
  <2>1. Disconnect
    BY <1>12 DEF Drop, Restart
  <2>2. /\ <<>> \in Seq(Events) /\ <<>> \in Seq(Frames) /\ 0 \in Cursors /\ Len(<<>>) <= RingSize
        /\ Len(<<>>) <= QueueSize
    BY BoundsAssumption, SizesAssumption DEF Cursors
  <2>3. calls' \in [{"drop", "restart"} -> Nat]
    BY <1>12 DEF Drop, Restart, CountCall, TypeOK
  <2>4. seq' \in 0..made /\ ring' \in Seq(Events) /\ Len(ring') <= RingSize /\ stale' \in BOOLEAN
    <3>1. CASE Drop
      BY <3>1 DEF Drop, TypeOK
    <3>2. CASE Restart
      <4>1. 0 \in 0..made
        BY BoundsAssumption DEF TypeOK
      <4> QED
        BY <2>2, <3>2, <4>1 DEF Restart, TypeOK
    <3> QED
      BY <1>12, <3>1, <3>2
  <2>5. made' = made /\ since' = since /\ mounted' = mounted /\ known' = known /\ excused' = excused
    BY <1>12 DEF Drop, Restart
  <2>6. /\ gen' \in Stages /\ hand' \in [Publishers -> Events \union {NoEvent}]
        /\ posted' = <<>> /\ aqueue' = <<>> /\ overflowed' = FALSE /\ replay' = <<>> /\ cursor' = 0
        /\ asked' = NoCursor /\ wire' = <<>>
    BY <2>1 DEF Disconnect, Stages
  <2> QED
    BY <2>2, <2>3, <2>4, <2>5, <2>6 DEF TypeOK
<1>13. CASE UNCHANGED vars
  BY <1>13 DEF vars, TypeOK
<1> QED
  BY <1>1, <1>2, <1>3, <1>4, <1>5, <1>6, <1>7, <1>8, <1>9, <1>10, <1>11, <1>12, <1>13
     DEF Next, Generate

\* What follows the ring's last number when an event is stamped.
LEMMA RingGrows ==
  ASSUME TypeOK, TypeOK', Numbered, NEW p \in Publishers, Stamp(p)
  PROVE  /\ ring' \in Seq(Ours') /\ Len(ring') <= seq'
         /\ \A i \in 1..Len(ring') : ring'[i].seq = seq' - Len(ring') + i
         /\ [seq |-> seq + 1, change |-> made + 1] \in Ours'
<1> DEFINE e == [seq |-> seq + 1, change |-> made + 1]
<1>1. /\ seq \in Nat /\ made \in Nat /\ seq' = seq + 1 /\ made' = made + 1
      /\ ring \in Seq(Ours) /\ Len(ring) \in Nat /\ Len(ring) <= seq /\ RingSize \in Nat \ {0}
      /\ \A i \in 1..Len(ring) : ring[i].seq = seq - Len(ring) + i
  BY SizesAssumption, BoundsAssumption DEF Stamp, TypeOK, Numbered
<1>2. e \in Ours' /\ e.seq = seq + 1
  <2>1. made < MaxChanges /\ seq <= made
    BY BoundsAssumption DEF Stamp, TypeOK
  <2>2. e \in Events
    BY <1>1, <2>1, BoundsAssumption DEF Events, Changes
  <2>3. e.seq <= seq'
    BY <1>1
  <2>4. e.change = e.seq + (made' - seq')
    BY <1>1
  <2> QED
    BY <2>2, <2>3, <2>4 DEF Ours
<1>3. Ours \subseteq Ours'
  <2>1. seq <= seq' /\ made' - seq' = made - seq
    BY <1>1
  <2> QED
    BY <2>1, OursGrow
<1>4. ring \in Seq(Ours')
  BY <1>1, <1>3, SeqMono
<1>5. ring' = Append(IF Len(ring) = RingSize THEN Tail(ring) ELSE ring, e)
  BY DEF Stamp
<1> HIDE DEF e
<1>6. CASE Len(ring) = RingSize
  <2>1. ring # <<>> /\ ring' = Append(Tail(ring), e)
    BY <1>1, <1>5, <1>6
  <2>2. /\ ring' \in Seq(Ours') /\ Len(ring') = Len(ring)
        /\ \A i \in 1..Len(ring) - 1 : ring'[i] = ring[i + 1]
        /\ ring'[Len(ring)] = e
    BY <1>2, <1>4, <2>1, Rolled
  <2>3. ASSUME NEW i \in 1..Len(ring')
        PROVE  ring'[i].seq = seq' - Len(ring') + i
    <3>1. CASE i = Len(ring)
      BY <1>1, <1>2, <2>2, <3>1
    <3>2. CASE i # Len(ring)
      <4>1. i \in 1..Len(ring) - 1 /\ i + 1 \in 1..Len(ring)
        BY <1>1, <2>2, <3>2
      <4>2. ring'[i].seq = seq - Len(ring) + (i + 1)
        BY <1>1, <2>2, <4>1
      <4> QED
        BY <1>1, <2>2, <4>2
    <3> QED
      BY <3>1, <3>2
  <2>4. Len(ring') <= seq'
    BY <1>1, <2>2
  <2> QED
    BY <1>2, <2>2, <2>3, <2>4 DEF e
<1>7. CASE Len(ring) # RingSize
  <2>1. ring' = Append(ring, e)
    BY <1>5, <1>7
  <2>2. /\ ring' \in Seq(Ours') /\ Len(ring') = Len(ring) + 1
        /\ \A i \in 1..Len(ring) : ring'[i] = ring[i]
        /\ ring'[Len(ring) + 1] = e
    BY <1>2, <1>4, <2>1, Appended
  <2>3. ASSUME NEW i \in 1..Len(ring')
        PROVE  ring'[i].seq = seq' - Len(ring') + i
    <3>1. CASE i = Len(ring) + 1
      BY <1>1, <1>2, <2>2, <3>1
    <3>2. CASE i # Len(ring) + 1
      <4>1. i \in 1..Len(ring)
        BY <1>1, <2>2, <3>2
      <4>2. ring'[i].seq = seq - Len(ring) + i
        BY <1>1, <2>2, <4>1
      <4> QED
        BY <1>1, <2>2, <4>2
    <3> QED
      BY <3>1, <3>2
  <2>4. Len(ring') <= seq'
    BY <1>1, <2>2
  <2> QED
    BY <1>2, <2>2, <2>3, <2>4 DEF e
<1> QED
  BY <1>6, <1>7

\* Everything stays numbered by this process, and a restart leaves nothing.
LEMMA StepNumbered ==
  ASSUME TypeOK, Numbered, TypeOK', [Next]_vars
  PROVE  Numbered'
<1> USE DEF busVars, pipeVars, subVars, genVars, clientVars
<1>0. seq \in Nat /\ made \in Nat /\ seq' \in Nat /\ cursor \in Int
  BY BoundsAssumption DEF TypeOK, Cursors
<1>1. ASSUME NEW p \in Publishers, Stamp(p)
      PROVE  Numbered'
  <2>1. /\ ring' \in Seq(Ours') /\ Len(ring') <= seq'
        /\ \A i \in 1..Len(ring') : ring'[i].seq = seq' - Len(ring') + i
        /\ [seq |-> seq + 1, change |-> made + 1] \in Ours'
    BY <1>1, RingGrows
  <2>2. seq' = seq + 1 /\ made' = made + 1
    BY <1>1 DEF Stamp
  <2>3. seq <= seq' /\ made' - seq' = made - seq
    BY <1>0, <2>2
  <2>4. Ours \subseteq Ours' /\ OurFrames \subseteq OurFrames'
    BY <2>3, OursGrow
  <2>5. /\ Seq(Ours) \subseteq Seq(Ours') /\ Seq(OurFrames) \subseteq Seq(OurFrames')
        /\ [Publishers -> Ours \union {NoEvent}] \subseteq [Publishers -> Ours' \union {NoEvent}]
    BY <2>4, StaysNumbered
  <2>6. hand \in [Publishers -> Ours' \union {NoEvent}]
    BY <2>5 DEF Numbered
  <2>7. hand' \in [Publishers -> Ours' \union {NoEvent}]
    BY <1>1, <2>1, <2>6 DEF Stamp
  <2>8. posted' \in Seq(Ours') /\ aqueue' \in Seq(Ours') /\ replay' \in Seq(Ours') /\ wire' \in Seq(OurFrames')
    BY <1>1, <2>5 DEF Stamp, Numbered
  <2>9. cursor' <= seq'
    BY <1>0, <1>1, <2>2 DEF Stamp, Numbered
  <2> QED
    BY <2>1, <2>7, <2>8, <2>9 DEF Numbered
<1>2. ASSUME UNCHANGED <<made, busVars>>,
             hand' \in [Publishers -> Ours \union {NoEvent}], posted' \in Seq(Ours),
             aqueue' \in Seq(Ours), replay' \in Seq(Ours), wire' \in Seq(OurFrames), cursor' <= seq
      PROVE  Numbered'
  <2>1. Ours' = Ours /\ OurFrames' = OurFrames
    BY <1>2 DEF Ours, OurFrames
  <2> QED
    BY <1>2, <2>1 DEF Numbered
<1>3. /\ hand \in [Publishers -> Ours \union {NoEvent}] /\ posted \in Seq(Ours)
      /\ aqueue \in Seq(Ours) /\ replay \in Seq(Ours) /\ wire \in Seq(OurFrames) /\ cursor <= seq
      /\ <<>> \in Seq(Ours) /\ <<>> \in Seq(OurFrames) /\ 0 <= seq /\ seq <= seq
  BY <1>0 DEF Numbered
<1>4. ASSUME NEW p \in Publishers, Post(p)
      PROVE  Numbered'
  <2>1. hand[p] \in Ours
    BY <1>3, <1>4 DEF Post
  <2>2. posted' \in Seq(Ours)
    BY <1>3, <1>4, <2>1, Appended DEF Post
  <2>3. hand' \in [Publishers -> Ours \union {NoEvent}]
    BY <1>3, <1>4 DEF Post
  <2> QED
    BY <1>2, <1>3, <1>4, <2>2, <2>3 DEF Post
<1>5. CASE Offer
  <2>1. posted # <<>> /\ posted' = Tail(posted)
    BY <1>5 DEF Offer
  <2>2. posted' \in Seq(Ours) /\ Head(posted) \in Ours
    BY <1>3, <2>1, TailOf
  <2>3. aqueue' = aqueue \/ aqueue' = Append(aqueue, Head(posted))
    BY <1>5 DEF Offer
  <2>4. aqueue' \in Seq(Ours)
    <3>1. Append(aqueue, Head(posted)) \in Seq(Ours)
      BY <1>3, <2>2, Appended
    <3> QED
      BY <1>3, <2>3, <3>1
  <2> QED
    BY <1>2, <1>3, <1>5, <2>2, <2>4 DEF Offer
<1>6. CASE Connect
  BY <1>2, <1>3, <1>6 DEF Connect
<1>7. CASE Greet
  <2>1. wire' \in Seq(OurFrames)
    BY <1>7, OtherFrames, SendTypes DEF Greet
  <2> QED
    BY <1>2, <1>3, <1>7, <2>1 DEF Greet
<1>8. CASE CheckReplay
  <2>1. wire' \in Seq(OurFrames) /\ cursor' <= seq
    <3>1. CASE CanReplay(asked)
      BY <1>3, <1>8, <3>1 DEF CheckReplay
    <3>2. CASE ~ CanReplay(asked)
      BY <1>3, <1>8, <3>2, OtherFrames, SendTypes DEF CheckReplay
    <3> QED
      BY <3>1, <3>2
  <2> QED
    BY <1>2, <1>3, <1>8, <2>1 DEF CheckReplay
<1>9. CASE TakeSnapshot
  <2>1. asked \in Int
    BY BoundsAssumption DEF TypeOK, Cursors, NoCursor
  <2>2. replay' \in Seq(Ours)
    BY <1>9, <2>1, Snapshot DEF TakeSnapshot
  <2> QED
    BY <1>2, <1>3, <1>9, <2>2 DEF TakeSnapshot
<1>10. CASE ReplayNext
  <2>1. CASE replay = <<>>
    BY <1>2, <1>3, <1>10, <2>1 DEF ReplayNext
  <2>2. CASE replay # <<>>
    <3>1. Head(replay) \in Ours /\ Tail(replay) \in Seq(Ours)
      BY <1>3, <2>2, TailOf
    <3>2. cursor' = Head(replay).seq /\ replay' = Tail(replay) /\ SendChange(Head(replay))
      BY <1>10, <2>2 DEF ReplayNext
    <3>3. cursor' <= seq /\ wire' \in Seq(OurFrames)
      BY <1>0, <3>1, <3>2, OursAre, SendChangeTypes
    <3> QED
      BY <1>2, <1>3, <1>10, <3>1, <3>2, <3>3 DEF ReplayNext
  <2> QED
    BY <2>1, <2>2
<1>11. CASE ResyncAfterOverflow
  <2>1. wire' \in Seq(OurFrames)
    BY <1>11, OtherFrames, SendTypes DEF ResyncAfterOverflow
  <2> QED
    BY <1>2, <1>3, <1>11, <2>1 DEF ResyncAfterOverflow
<1>12. CASE Deliver
  <2>1. aqueue # <<>> /\ aqueue' = Tail(aqueue)
    BY <1>12 DEF Deliver
  <2>2. Head(aqueue) \in Ours /\ aqueue' \in Seq(Ours)
    BY <1>3, <2>1, TailOf
  <2>3. CASE Head(aqueue).seq <= cursor
    BY <1>2, <1>3, <1>12, <2>2, <2>3 DEF Deliver
  <2>4. CASE ~ (Head(aqueue).seq <= cursor)
    <3>1. cursor' = Head(aqueue).seq /\ SendChange(Head(aqueue))
      BY <1>12, <2>4 DEF Deliver
    <3>2. cursor' <= seq /\ wire' \in Seq(OurFrames)
      BY <1>0, <2>2, <3>1, OursAre, SendChangeTypes
    <3> QED
      BY <1>2, <1>3, <1>12, <2>2, <3>2 DEF Deliver
  <2> QED
    BY <2>3, <2>4
<1>13. CASE Receive
  <2>1. wire # <<>> /\ wire' = Tail(wire)
    BY <1>13 DEF Receive, ReceiveHello, ReceiveChange, ReceiveResync
  <2>2. wire' \in Seq(OurFrames)
    BY <1>3, <2>1, TailOf
  <2> QED
    BY <1>2, <1>3, <1>13, <2>2 DEF Receive, ReceiveHello, ReceiveChange, ReceiveResync
<1>14. CASE Drop
  <2>1. hand' \in [Publishers -> Ours \union {NoEvent}]
    BY <1>14 DEF Drop, Disconnect
  <2> QED
    BY <1>2, <1>3, <1>14, <2>1 DEF Drop, Disconnect
<1>15. CASE Restart
  <2>1. \A S : <<>> \in Seq(S)
    OBVIOUS
  <2>2. /\ hand' \in [Publishers -> Ours' \union {NoEvent}] /\ ring' = <<>> /\ posted' = <<>>
        /\ aqueue' = <<>> /\ replay' = <<>> /\ wire' = <<>> /\ cursor' = 0 /\ seq' = 0
    BY <1>15 DEF Restart, Disconnect
  <2>3. Len(ring') = 0 /\ Len(ring') <= seq' /\ cursor' <= seq' /\ \A i \in 1..Len(ring') : FALSE
    BY <2>2
  <2> QED
    BY <2>1, <2>2, <2>3 DEF Numbered
<1>16. CASE UNCHANGED vars
  BY <1>2, <1>3, <1>16 DEF vars
<1> QED
  BY <1>1, <1>4, <1>5, <1>6, <1>7, <1>8, <1>9, <1>10, <1>11, <1>12, <1>13, <1>14, <1>15, <1>16
     DEF Next, Generate

----------------------------------------------------------------------------
\* Where the connection, its frames and the client stand.

Greeted == {"check", "snapshot", "replay", "live"}

IsHello(i) == wire[i].kind = "hello"
IsChange(i) == wire[i].kind = "change"

\* One hello, and it comes first; nothing else before the replay.
WireShaped ==
  /\ gen \notin Greeted => wire = <<>>
  /\ gen # "replay" => replay = <<>>
  /\ gen \notin {"replay", "live"} => \A i \in 1..Len(wire) : IsHello(i)
  /\ \A i \in 1..Len(wire) : i # 1 => ~ IsHello(i)

\* Until it replays, the generator works with the cursor the client still has.
AskedFits ==
  /\ gen \in {"subscribed", "check", "snapshot"} => asked = since
  /\ gen \in {"check", "snapshot"} => asked # NoCursor
  /\ gen = "snapshot" => asked <= seq
  /\ wire # <<>> /\ IsHello(1) /\ since = NoCursor => gen = "live"

\* Before its first hello a client has no cursor; a cursor it has is of this process
\* unless it is marked as stale.
ClientFits ==
  /\ ~ mounted => since = NoCursor
  /\ ~ mounted /\ gen \in Greeted => wire # <<>> /\ IsHello(1)
  /\ since # NoCursor /\ ~ stale => since <= seq
  /\ stale => since # NoCursor

Staged == WireShaped /\ AskedFits /\ ClientFits

\* What is on the wire after a frame was sent.
LEMMA WireSent ==
  ASSUME TypeOK, Numbered, NEW f \in OurFrames, Send(f)
  PROVE  /\ Len(wire) \in Nat /\ Len(wire') = Len(wire) + 1 /\ wire' # <<>>
         /\ \A i \in 1..Len(wire) : wire'[i] = wire[i]
         /\ wire'[Len(wire) + 1] = f
         /\ wire = <<>> => Len(wire) = 0
         /\ wire # <<>> => 1 \in 1..Len(wire)
<1>1. wire \in Seq(OurFrames)
  BY DEF Numbered
<1>2. wire' = Append(wire, f)
  BY DEF Send
<1>3. /\ Len(wire) \in Nat /\ Len(wire') = Len(wire) + 1 /\ wire' # <<>>
      /\ \A i \in 1..Len(wire) : wire'[i] = wire[i]
      /\ wire'[Len(wire) + 1] = f
  BY <1>1, <1>2, Appended
<1>4. wire # <<>> => Len(wire) # 0
  BY <1>1
<1> QED
  BY <1>3, <1>4

\* What is on the wire after the first frame was received.
LEMMA WireTaken ==
  ASSUME Numbered, wire # <<>>, wire' = Tail(wire)
  PROVE  /\ Len(wire) \in Nat \ {0} /\ Len(wire') = Len(wire) - 1
         /\ \A i \in 1..Len(wire') : i + 1 \in 1..Len(wire) /\ wire'[i] = wire[i + 1]
         /\ Head(wire) = wire[1] /\ 1 \in 1..Len(wire) /\ wire[1] \in OurFrames
         /\ wire' = <<>> \/ 1 \in 1..Len(wire')
<1>1. wire \in Seq(OurFrames)
  BY DEF Numbered
<1>2. /\ Tail(wire) \in Seq(OurFrames) /\ Len(Tail(wire)) = Len(wire) - 1
      /\ Len(wire) \in Nat \ {0} /\ Head(wire) = wire[1] /\ wire[1] \in OurFrames
      /\ \A i \in 1..Len(wire) - 1 : Tail(wire)[i] = wire[i + 1]
  BY <1>1, TailOf
<1>3. \A i \in 1..Len(wire) - 1 : i + 1 \in 1..Len(wire)
  BY <1>2
<1>4. wire' = <<>> \/ Len(wire') # 0
  BY <1>2
<1> QED
  BY <1>2, <1>3, <1>4

\* A frame that is no hello leaves the first one where it is.
LEMMA SentShape ==
  ASSUME TypeOK, Numbered, WireShaped, NEW f \in OurFrames, f.kind # "hello", Send(f)
  PROVE  /\ \A i \in 1..Len(wire') : i # 1 => ~ IsHello(i)'
         /\ wire' # <<>> /\ (IsHello(1)' => wire # <<>> /\ IsHello(1))
         /\ wire # <<>> /\ IsHello(1) => IsHello(1)'
<1>1. /\ Len(wire) \in Nat /\ Len(wire') = Len(wire) + 1 /\ wire' # <<>>
      /\ \A i \in 1..Len(wire) : wire'[i] = wire[i]
      /\ wire'[Len(wire) + 1] = f
      /\ wire = <<>> => Len(wire) = 0
      /\ wire # <<>> => 1 \in 1..Len(wire)
  BY WireSent
<1>2. \A i \in 1..Len(wire') : i \in 1..Len(wire) \/ i = Len(wire) + 1
  BY <1>1
<1>3. \A i \in 1..Len(wire') : i # 1 => ~ (wire'[i].kind = "hello")
  BY <1>1, <1>2 DEF WireShaped, IsHello
<1>4. wire = <<>> => wire'[1] = f
  BY <1>1
<1> QED
  BY <1>1, <1>3, <1>4 DEF IsHello

\* The same when the frame of an event is sent or withheld.
LEMMA SentChangeShape ==
  ASSUME TypeOK, Numbered, WireShaped, NEW e \in Ours, SendChange(e)
  PROVE  /\ \A i \in 1..Len(wire') : i # 1 => ~ IsHello(i)'
         /\ IsHello(1)' /\ wire' # <<>> => wire # <<>> /\ IsHello(1)
         /\ wire # <<>> /\ IsHello(1) => wire' # <<>> /\ IsHello(1)'
<1>1. CASE e.change \in Private
  BY <1>1 DEF SendChange, WireShaped, IsHello
<1>2. CASE e.change \notin Private
  <2>1. Change(e) \in OurFrames /\ Change(e).kind # "hello" /\ Send(Change(e))
    BY <1>2, OursAre DEF SendChange, Change
  <2> QED
    BY <2>1, SentShape
<1> QED
  BY <1>1, <1>2

\* At first there is no connection.
LEMMA InitStaged == ASSUME Init PROVE Staged
BY DEF Init, Staged, WireShaped, AskedFits, ClientFits, Greeted, NoCursor

\* Every step keeps them in place.
LEMMA StepStaged ==
  ASSUME TypeOK, Numbered, TypeOK', Staged, [Next]_vars
  PROVE  Staged'
<1> USE DEF busVars, pipeVars, subVars, genVars, clientVars
<1>0. /\ seq \in Nat /\ seq' \in Nat /\ since \in Int /\ asked \in Int
      /\ WireShaped /\ AskedFits /\ ClientFits /\ NoCursor = -1
  BY BoundsAssumption DEF TypeOK, Cursors, NoCursor, Staged
<1>1. ASSUME UNCHANGED <<gen, replay, wire, asked, since, mounted, stale>>, seq <= seq'
      PROVE  Staged'
  <2>1. WireShaped'
    BY <1>0, <1>1 DEF WireShaped, IsHello
  <2>2. AskedFits'
    BY <1>0, <1>1 DEF AskedFits, IsHello
  <2>3. ClientFits'
    BY <1>0, <1>1 DEF ClientFits, IsHello
  <2> QED
    BY <2>1, <2>2, <2>3 DEF Staged
<1>2. seq <= seq
  BY <1>0
<1>3. ASSUME NEW p \in Publishers, Stamp(p)
      PROVE  Staged'
  <2>1. seq <= seq' /\ UNCHANGED <<gen, replay, wire, asked, since, mounted, stale>>
    BY <1>0, <1>3 DEF Stamp
  <2> QED
    BY <1>1, <2>1
<1>4. ASSUME NEW p \in Publishers, Post(p)
      PROVE  Staged'
  BY <1>1, <1>2, <1>4 DEF Post
<1>5. CASE Offer
  BY <1>1, <1>2, <1>5 DEF Offer
<1>6. CASE Connect
  <2>1. wire' = wire /\ wire = <<>> /\ replay' = replay /\ gen' = "subscribed" /\ asked' = since
    BY <1>0, <1>6 DEF Connect, WireShaped, Greeted
  <2>2. WireShaped'
    BY <1>0, <1>6, <2>1 DEF Connect, WireShaped, IsHello, Greeted
  <2>3. AskedFits'
    BY <1>6, <2>1 DEF Connect, AskedFits
  <2>4. ClientFits'
    BY <1>0, <1>6, <2>1 DEF Connect, ClientFits, Greeted
  <2> QED
    BY <2>2, <2>3, <2>4 DEF Staged
<1>7. CASE Greet
  <2>1. /\ wire = <<>> /\ replay' = <<>> /\ asked = since /\ asked' = asked /\ since' = since /\ stale' = stale
        /\ mounted' = mounted /\ seq' = seq /\ gen' \in {"check", "live"}
        /\ gen' = "check" <=> asked # NoCursor
    BY <1>0, <1>7 DEF Greet, WireShaped, AskedFits, Greeted
  <2>2. Len(wire') = 1 /\ wire'[1] = Hello(seq) /\ wire' # <<>>
    BY <1>7, <2>1, OtherFrames, WireSent DEF Greet
  <2>3. IsHello(1)' /\ \A i \in 1..Len(wire') : i = 1
    BY <2>2 DEF IsHello, Hello
  <2>4. WireShaped'
    BY <2>1, <2>3 DEF WireShaped, Greeted
  <2>5. AskedFits'
    BY <2>1 DEF AskedFits
  <2>6. ClientFits'
    BY <1>0, <2>1, <2>2, <2>3 DEF ClientFits
  <2> QED
    BY <2>4, <2>5, <2>6 DEF Staged
<1>8. CASE CheckReplay
  <2>1. /\ gen = "check" /\ UNCHANGED <<seq, replay, asked, since, mounted, stale>>
        /\ replay = <<>> /\ asked = since /\ asked # NoCursor
    BY <1>0, <1>8 DEF CheckReplay, WireShaped, AskedFits
  <2>2. CASE CanReplay(asked)
    <3>1. gen' = "snapshot" /\ wire' = wire /\ asked <= seq
      BY <1>8, <2>2 DEF CheckReplay, CanReplay
    <3>2. WireShaped'
      BY <1>0, <2>1, <3>1 DEF WireShaped, IsHello, Greeted
    <3>3. AskedFits'
      BY <1>0, <2>1, <3>1 DEF AskedFits, IsHello
    <3>4. ClientFits'
      BY <1>0, <2>1, <3>1 DEF ClientFits, IsHello, Greeted
    <3> QED
      BY <3>2, <3>3, <3>4 DEF Staged
  <2>3. CASE ~ CanReplay(asked)
    <3>1. gen' = "live" /\ Send(Resync)
      BY <1>8, <2>3 DEF CheckReplay
    <3>2. Resync \in OurFrames /\ Resync.kind # "hello"
      BY OtherFrames DEF Resync
    <3>3. /\ \A i \in 1..Len(wire') : i # 1 => ~ IsHello(i)'
          /\ wire' # <<>> /\ (IsHello(1)' => wire # <<>> /\ IsHello(1))
          /\ wire # <<>> /\ IsHello(1) => IsHello(1)'
      BY <1>0, <3>1, <3>2, SentShape
    <3>4. WireShaped'
      BY <2>1, <3>1, <3>3 DEF WireShaped, Greeted
    <3>5. AskedFits'
      BY <2>1, <3>1 DEF AskedFits
    <3>6. ClientFits'
      BY <1>0, <2>1, <3>1, <3>3 DEF ClientFits, Greeted
    <3> QED
      BY <3>4, <3>5, <3>6 DEF Staged
  <2> QED
    BY <2>2, <2>3
<1>9. CASE TakeSnapshot
  <2>1. /\ gen = "snapshot" /\ gen' = "replay" /\ UNCHANGED <<seq, wire, asked, since, mounted, stale>>
        /\ asked # NoCursor /\ asked = since
    BY <1>0, <1>9 DEF TakeSnapshot, AskedFits
  <2>2. WireShaped'
    BY <1>0, <2>1 DEF WireShaped, IsHello, Greeted
  <2>3. AskedFits'
    BY <1>0, <2>1 DEF AskedFits, IsHello
  <2>4. ClientFits'
    BY <1>0, <2>1 DEF ClientFits, IsHello, Greeted
  <2> QED
    BY <2>2, <2>3, <2>4 DEF Staged
<1>10. ASSUME gen \in {"replay", "live"}, gen' \in {"replay", "live"}, gen = "live" => gen' = "live",
              gen' = "live" => replay' = <<>>, UNCHANGED <<seq, asked, since, mounted, stale>>,
              \A i \in 1..Len(wire') : i # 1 => ~ IsHello(i)',
              IsHello(1)' /\ wire' # <<>> => wire # <<>> /\ IsHello(1),
              wire # <<>> /\ IsHello(1) => wire' # <<>> /\ IsHello(1)'
       PROVE  Staged'
  <2>1. WireShaped'
    BY <1>10 DEF WireShaped, Greeted
  <2>2. AskedFits'
    BY <1>0, <1>10 DEF AskedFits
  <2>3. ClientFits'
    BY <1>0, <1>10 DEF ClientFits, Greeted
  <2> QED
    BY <2>1, <2>2, <2>3 DEF Staged
<1>11. CASE ReplayNext
  <2>1. CASE replay = <<>>
    <3>1. gen = "replay" /\ gen' = "live" /\ replay' = replay /\ wire' = wire
          /\ UNCHANGED <<seq, asked, since, mounted, stale>>
      BY <1>11, <2>1 DEF ReplayNext
    <3>2. /\ \A i \in 1..Len(wire') : i # 1 => ~ IsHello(i)'
          /\ IsHello(1)' <=> IsHello(1)
      BY <1>0, <3>1 DEF WireShaped, IsHello
    <3> QED
      BY <1>10, <2>1, <3>1, <3>2
  <2>2. CASE replay # <<>>
    <3>1. Head(replay) \in Ours
      BY <2>2, TailOf DEF Numbered
    <3>2. /\ gen = "replay" /\ gen' = "replay" /\ SendChange(Head(replay))
          /\ UNCHANGED <<seq, asked, since, mounted, stale>>
      BY <1>11, <2>2 DEF ReplayNext
    <3>3. /\ \A i \in 1..Len(wire') : i # 1 => ~ IsHello(i)'
          /\ IsHello(1)' /\ wire' # <<>> => wire # <<>> /\ IsHello(1)
          /\ wire # <<>> /\ IsHello(1) => wire' # <<>> /\ IsHello(1)'
      BY <1>0, <3>1, <3>2, SentChangeShape
    <3> QED
      BY <1>10, <3>2, <3>3
  <2> QED
    BY <2>1, <2>2
<1>12. CASE ResyncAfterOverflow
  <2>1. /\ gen = "live" /\ gen' = "live" /\ replay' = <<>> /\ Send(Resync)
        /\ UNCHANGED <<seq, asked, since, mounted, stale>>
    BY <1>0, <1>12 DEF ResyncAfterOverflow, WireShaped
  <2>2. Resync \in OurFrames /\ Resync.kind # "hello"
    BY OtherFrames DEF Resync
  <2>3. /\ \A i \in 1..Len(wire') : i # 1 => ~ IsHello(i)'
        /\ wire' # <<>> /\ (IsHello(1)' => wire # <<>> /\ IsHello(1))
        /\ wire # <<>> /\ IsHello(1) => IsHello(1)'
    BY <1>0, <2>1, <2>2, SentShape
  <2> QED
    BY <1>10, <2>1, <2>3
<1>13. CASE Deliver
  <2>1. /\ gen = "live" /\ gen' = "live" /\ replay' = <<>>
        /\ UNCHANGED <<seq, asked, since, mounted, stale>> /\ aqueue # <<>>
    BY <1>0, <1>13 DEF Deliver, WireShaped
  <2>2. CASE Head(aqueue).seq <= cursor
    <3>1. wire' = wire
      BY <1>13, <2>2 DEF Deliver
    <3>2. /\ \A i \in 1..Len(wire') : i # 1 => ~ IsHello(i)'
          /\ IsHello(1)' <=> IsHello(1)
      BY <1>0, <3>1 DEF WireShaped, IsHello
    <3> QED
      BY <1>10, <2>1, <3>1, <3>2
  <2>3. CASE ~ (Head(aqueue).seq <= cursor)
    <3>1. Head(aqueue) \in Ours
      BY <2>1, TailOf DEF Numbered
    <3>2. SendChange(Head(aqueue))
      BY <1>13, <2>3 DEF Deliver
    <3>3. /\ \A i \in 1..Len(wire') : i # 1 => ~ IsHello(i)'
          /\ IsHello(1)' /\ wire' # <<>> => wire # <<>> /\ IsHello(1)
          /\ wire # <<>> /\ IsHello(1) => wire' # <<>> /\ IsHello(1)'
      BY <1>0, <3>1, <3>2, SentChangeShape
    <3> QED
      BY <1>10, <2>1, <3>3
  <2> QED
    BY <2>2, <2>3
<1>14. CASE Receive
  <2>1. wire # <<>> /\ wire' = Tail(wire) /\ UNCHANGED <<seq, gen, replay, asked>>
    BY <1>14 DEF Receive, ReceiveHello, ReceiveChange, ReceiveResync
  <2>2. /\ Len(wire) \in Nat \ {0} /\ Len(wire') = Len(wire) - 1
        /\ \A i \in 1..Len(wire') : i + 1 \in 1..Len(wire) /\ wire'[i] = wire[i + 1]
        /\ Head(wire) = wire[1] /\ 1 \in 1..Len(wire) /\ wire[1] \in OurFrames
        /\ wire' = <<>> \/ 1 \in 1..Len(wire')
    BY <2>1, WireTaken
  <2>3. \A i \in 1..Len(wire') : ~ IsHello(i)'
    <3>1. ASSUME NEW i \in 1..Len(wire')
          PROVE  ~ (wire'[i].kind = "hello")
      <4>1. i + 1 \in 1..Len(wire) /\ i + 1 # 1 /\ wire'[i] = wire[i + 1]
        BY <2>2
      <4> QED
        BY <1>0, <4>1 DEF WireShaped, IsHello
    <3> QED
      BY <3>1 DEF IsHello
  <2>4. gen \in Greeted
    BY <1>0, <2>1 DEF WireShaped
  <2>5. gen \notin {"replay", "live"} => wire' = <<>>
    <3>1. ASSUME gen \notin {"replay", "live"}, 1 \in 1..Len(wire')
          PROVE  FALSE
      <4>1. 2 \in 1..Len(wire)
        BY <2>2, <3>1
      <4> QED
        BY <1>0, <3>1, <4>1 DEF WireShaped
    <3> QED
      BY <2>2, <3>1
  <2>6. WireShaped'
    BY <1>0, <2>1, <2>2, <2>3, <2>4, <2>5 DEF WireShaped
  <2>7. ~ mounted => IsHello(1)
    BY <1>0, <2>1, <2>4 DEF ClientFits
  <2>8. gen \notin {"replay", "live"} => IsHello(1)
    BY <1>0, <2>2 DEF WireShaped
  <2>9. since' = since \/ gen \in {"replay", "live"}
    <3>1. CASE IsHello(1)
      <4>1. ReceiveHello
        BY <1>14, <2>2, <3>1 DEF Receive, ReceiveChange, ReceiveResync, IsHello
      <4>2. since = NoCursor => gen = "live"
        BY <1>0, <2>1, <3>1 DEF AskedFits
      <4> QED
        BY <4>1, <4>2 DEF ReceiveHello
    <3> QED
      BY <2>8, <3>1
  <2>10. AskedFits'
    <3>1. ~ (wire' # <<>> /\ IsHello(1)')
      BY <2>2, <2>3
    <3> QED
      BY <1>0, <2>1, <2>9, <3>1 DEF AskedFits
  <2>11. mounted' /\ (since' # NoCursor /\ ~ stale' => since' <= seq) /\ (stale' => since' # NoCursor)
    <3>1. CASE ReceiveHello
      <4>1. wire[1].seq \in Nat /\ wire[1].seq <= seq
        BY <2>2, <3>1, BoundsAssumption DEF ReceiveHello, OurFrames, Frames, Cursors
      <4>2. since = NoCursor => since' = wire[1].seq /\ stale' = FALSE
        BY <2>2, <3>1 DEF ReceiveHello
      <4>3. since # NoCursor => since' = since /\ stale' = stale
        BY <3>1 DEF ReceiveHello, TypeOK
      <4> QED
        BY <1>0, <3>1, <4>1, <4>2, <4>3 DEF ReceiveHello, ClientFits
    <3>2. CASE ReceiveChange
      <4>1. /\ wire[1].seq \in Nat /\ wire[1].seq <= seq
        <5>1. [seq |-> wire[1].seq, change |-> wire[1].change] \in Ours
          BY <2>2, <3>2 DEF ReceiveChange, OurFrames
        <5> QED
          BY <5>1, OursAre
      <4>2. mounted /\ mounted' = mounted
        BY <2>2, <2>7, <3>2 DEF ReceiveChange, IsHello
      <4>3. \/ since' = wire[1].seq /\ stale' = FALSE
            \/ since' = since /\ stale' = stale
        BY <2>2, <3>2 DEF ReceiveChange
      <4> QED
        BY <1>0, <4>1, <4>2, <4>3 DEF ClientFits
    <3>3. CASE ReceiveResync
      <4>1. mounted /\ mounted' = mounted
        BY <2>2, <2>7, <3>3 DEF ReceiveResync, IsHello
      <4> QED
        BY <3>3, <4>1 DEF ReceiveResync
    <3> QED
      BY <1>14, <3>1, <3>2, <3>3 DEF Receive
  <2>12. ClientFits'
    BY <2>1, <2>11 DEF ClientFits
  <2> QED
    BY <2>6, <2>10, <2>12 DEF Staged
<1>15. ASSUME Drop \/ Restart
       PROVE  Staged'
  <2>1. gen' = "closed" /\ wire' = <<>> /\ replay' = <<>> /\ mounted' = mounted /\ since' = since
    BY <1>15 DEF Drop, Restart, Disconnect
  <2>2. (since # NoCursor /\ ~ stale' => since <= seq') /\ (stale' => since # NoCursor)
    <3>1. CASE Drop
      BY <1>0, <3>1 DEF Drop, ClientFits
    <3>2. CASE Restart
      BY <3>2 DEF Restart
    <3> QED
      BY <1>15, <3>1, <3>2
  <2>3. WireShaped'
    BY <2>1 DEF WireShaped
  <2>4. AskedFits'
    BY <2>1 DEF AskedFits
  <2>5. ClientFits'
    BY <1>0, <2>1, <2>2 DEF ClientFits, Greeted
  <2> QED
    BY <2>3, <2>4, <2>5 DEF Staged
<1>16. CASE UNCHANGED vars
  BY <1>1, <1>2, <1>16 DEF vars
<1> QED
  BY <1>3, <1>4, <1>5, <1>6, <1>7, <1>8, <1>9, <1>11, <1>12, <1>13, <1>14, <1>15, <1>16
     DEF Next, Generate

----------------------------------------------------------------------------
\* Change frames move on.

\* Numbers go up along the wire, the wire is not ahead of the generator's cursor, and
\* what is still to be replayed comes after both.
Ordered ==
  /\ \A i, j \in 1..Len(wire) : i < j /\ IsChange(i) /\ IsChange(j) => wire[i].seq < wire[j].seq
  /\ \A i \in 1..Len(wire) : IsChange(i) => wire[i].seq <= cursor
  /\ \A i \in 1..Len(wire), j \in 1..Len(replay) : IsChange(i) => wire[i].seq < replay[j].seq
  /\ \A i, j \in 1..Len(replay) : i < j => replay[i].seq < replay[j].seq

\* The cursor the client has, or will have once it has read the hello before it.
Floor == IF since = NoCursor /\ wire # <<>> /\ IsHello(1) THEN wire[1].seq ELSE since

\* Nothing that is sent, or to be sent, is behind it.
AboveFloor ==
  ~ stale =>
    /\ \A i \in 1..Len(wire) : IsChange(i) => wire[i].seq > Floor
    /\ \A i \in 1..Len(replay) : replay[i].seq > Floor
    /\ gen \in Greeted /\ replay = <<>> => cursor >= Floor

\* The numbers of frames are numbers.
LEMMA WireNumbers ==
  ASSUME TypeOK, Numbered, NEW i \in 1..Len(wire)
  PROVE  /\ wire[i] \in OurFrames /\ wire[i].seq \in Nat
         /\ IsChange(i) => wire[i].seq \in 1..seq
         /\ IsHello(i) => wire[i].seq <= seq
<1>1. wire[i] \in OurFrames
  BY DEF Numbered
<1>2. wire[i].seq \in Nat
  BY <1>1, BoundsAssumption DEF OurFrames, Frames, Cursors
<1>3. ASSUME IsChange(i) PROVE wire[i].seq \in 1..seq
  <2>1. [seq |-> wire[i].seq, change |-> wire[i].change] \in Ours
    BY <1>1, <1>3 DEF OurFrames, IsChange
  <2> QED
    BY <2>1, OursAre
<1>4. IsHello(i) => wire[i].seq <= seq
  BY <1>1 DEF OurFrames, IsHello
<1> QED
  BY <1>1, <1>2, <1>3, <1>4

\* The numbers of events to replay are numbers.
LEMMA ReplayNumbers ==
  ASSUME TypeOK, Numbered, NEW i \in 1..Len(replay)
  PROVE  replay[i] \in Ours /\ replay[i].seq \in 1..seq
<1>1. replay[i] \in Ours
  BY DEF Numbered
<1> QED
  BY <1>1, OursAre

\* A frame without a change adds none.
LEMMA OtherSent ==
  ASSUME TypeOK, Numbered, NEW f \in OurFrames, f.kind # "change", Send(f)
  PROVE  \A i \in 1..Len(wire') : IsChange(i)' =>
           i \in 1..Len(wire) /\ IsChange(i) /\ wire'[i].seq = wire[i].seq
<1>1. /\ Len(wire) \in Nat /\ Len(wire') = Len(wire) + 1
      /\ \A i \in 1..Len(wire) : wire'[i] = wire[i]
      /\ wire'[Len(wire) + 1] = f
  BY WireSent
<1>2. \A i \in 1..Len(wire') : i \in 1..Len(wire) \/ i = Len(wire) + 1
  BY <1>1
<1> QED
  BY <1>1, <1>2 DEF IsChange

\* The frame of an event, where it is sent, comes last.
LEMMA EventSent ==
  ASSUME TypeOK, Numbered, NEW e \in Ours, SendChange(e)
  PROVE  \A i \in 1..Len(wire') : IsChange(i)' =>
           \/ i \in 1..Len(wire) /\ IsChange(i) /\ wire'[i].seq = wire[i].seq
           \/ (\A j \in 1..Len(wire) : j < i) /\ i = Len(wire') /\ wire'[i].seq = e.seq
<1>1. CASE e.change \in Private
  BY <1>1 DEF SendChange, IsChange
<1>2. CASE e.change \notin Private
  <2>1. Change(e) \in OurFrames /\ Change(e).seq = e.seq /\ Send(Change(e))
    BY <1>2, OursAre DEF SendChange, Change
  <2>2. /\ Len(wire) \in Nat /\ Len(wire') = Len(wire) + 1
        /\ \A i \in 1..Len(wire) : wire'[i] = wire[i]
        /\ wire'[Len(wire) + 1] = Change(e)
    BY <2>1, WireSent
  <2>3. \A i \in 1..Len(wire') : i \in 1..Len(wire) \/ i = Len(wire) + 1
    BY <2>2
  <2>4. \A j \in 1..Len(wire) : j < Len(wire) + 1
    BY <2>2
  <2> QED
    BY <2>1, <2>2, <2>3, <2>4 DEF IsChange
<1> QED
  BY <1>1, <1>2

\* An event above all that was sent keeps the order.
LEMMA EventInOrder ==
  ASSUME TypeOK, TypeOK', Numbered, Numbered', Ordered, NEW e \in Ours, SendChange(e),
         \A i \in 1..Len(wire) : IsChange(i) => wire[i].seq < e.seq
  PROVE  /\ \A i, j \in 1..Len(wire') :
              i < j /\ IsChange(i)' /\ IsChange(j)' => wire'[i].seq < wire'[j].seq
         /\ \A i \in 1..Len(wire') : IsChange(i)' => wire'[i].seq <= e.seq
<1>1. \A i \in 1..Len(wire') : IsChange(i)' =>
        \/ i \in 1..Len(wire) /\ IsChange(i) /\ wire'[i].seq = wire[i].seq
        \/ (\A j \in 1..Len(wire) : j < i) /\ i = Len(wire') /\ wire'[i].seq = e.seq
  BY EventSent
<1>2. e.seq \in Nat /\ Len(wire) \in Nat /\ Len(wire') \in Nat
  BY OursAre DEF Numbered
<1>3. ASSUME NEW i \in 1..Len(wire'), IsChange(i)'
      PROVE  wire'[i].seq <= e.seq
  <2>1. \A k \in 1..Len(wire) : wire[k].seq \in Nat
    BY WireNumbers
  <2> QED
    BY <1>1, <1>2, <1>3, <2>1
<1>4. ASSUME NEW i \in 1..Len(wire'), NEW j \in 1..Len(wire'), i < j, IsChange(i)', IsChange(j)'
      PROVE  wire'[i].seq < wire'[j].seq
  <2>1. i # Len(wire')
    BY <1>2, <1>4
  <2>2. i \in 1..Len(wire) /\ IsChange(i) /\ wire'[i].seq = wire[i].seq
    BY <1>1, <1>4, <2>1
  <2>3. CASE j \in 1..Len(wire) /\ IsChange(j) /\ wire'[j].seq = wire[j].seq
    BY <1>4, <2>2, <2>3 DEF Ordered
  <2>4. CASE wire'[j].seq = e.seq
    BY <2>2, <2>4
  <2> QED
    BY <1>1, <1>4, <2>3, <2>4
<1> QED
  BY <1>3, <1>4

\* At first nothing is sent.
LEMMA InitOrdered == ASSUME Init PROVE Ordered /\ AboveFloor
<1>1. wire = <<>> /\ replay = <<>> /\ gen = "closed"
  BY DEF Init
<1> QED
  BY <1>1 DEF Ordered, AboveFloor, Greeted

\* Every step keeps the order.
LEMMA StepOrdered ==
  ASSUME TypeOK, Numbered, Staged, Ordered, TypeOK', Numbered', [Next]_vars
  PROVE  Ordered'
<1> USE DEF busVars, pipeVars, subVars, genVars, clientVars
<1>0. seq \in Nat /\ cursor \in Nat /\ cursor <= seq /\ WireShaped
  BY BoundsAssumption DEF TypeOK, Numbered, Cursors, Staged
<1>1. ASSUME UNCHANGED <<wire, replay, cursor>>
      PROVE  Ordered'
  BY <1>1 DEF Ordered, IsChange
<1>2. ASSUME NEW p \in Publishers, Stamp(p) \/ Post(p)
      PROVE  Ordered'
  BY <1>1, <1>2 DEF Stamp, Post
<1>3. ASSUME Offer \/ Connect
      PROVE  Ordered'
  BY <1>1, <1>3 DEF Offer, Connect
<1>4. ASSUME \A i \in 1..Len(wire') : IsChange(i)' =>
               i \in 1..Len(wire) /\ IsChange(i) /\ wire'[i].seq = wire[i].seq,
             replay = <<>>, replay' = <<>>, cursor' = seq
      PROVE  Ordered'
  <2>1. \A i \in 1..Len(replay') : FALSE
    BY <1>4
  <2>2. \A i, j \in 1..Len(wire') : i < j /\ IsChange(i)' /\ IsChange(j)' => wire'[i].seq < wire'[j].seq
    BY <1>4 DEF Ordered
  <2>3. \A i \in 1..Len(wire') : IsChange(i)' => wire'[i].seq <= cursor'
    BY <1>4, WireNumbers
  <2> QED
    BY <2>1, <2>2, <2>3 DEF Ordered
<1>5. CASE Greet
  <2>1. replay = <<>> /\ replay' = replay /\ cursor' = seq /\ Send(Hello(seq))
    BY <1>0, <1>5 DEF Greet, WireShaped
  <2>2. Hello(seq) \in OurFrames /\ Hello(seq).kind # "change"
    BY OtherFrames DEF Hello
  <2> QED
    BY <1>4, <2>1, <2>2, OtherSent
<1>6. Resync \in OurFrames /\ Resync.kind # "change"
  BY OtherFrames DEF Resync
<1>7. CASE CheckReplay
  <2>1. CASE CanReplay(asked)
    BY <1>1, <1>7, <2>1 DEF CheckReplay
  <2>2. CASE ~ CanReplay(asked)
    <3>1. replay = <<>> /\ replay' = replay /\ cursor' = seq /\ Send(Resync)
      BY <1>0, <1>7, <2>2 DEF CheckReplay, WireShaped
    <3> QED
      BY <1>4, <1>6, <3>1, OtherSent
  <2> QED
    BY <2>1, <2>2
<1>8. CASE TakeSnapshot
  <2>1. wire' = wire /\ replay' = SnapshotSince(asked) /\ \A i \in 1..Len(wire) : ~ IsChange(i)
    BY <1>0, <1>8 DEF TakeSnapshot, WireShaped, IsHello, IsChange
  <2>2. asked \in Int
    BY BoundsAssumption DEF TypeOK, Cursors, NoCursor
  <2>3. \A i, j \in 1..Len(replay') : i < j => replay'[i].seq < replay'[j].seq
    BY <2>1, <2>2, Snapshot
  <2> QED
    BY <2>1, <2>3 DEF Ordered, IsChange
<1>9. CASE ReplayNext
  <2>1. CASE replay = <<>>
    BY <1>1, <1>9, <2>1 DEF ReplayNext
  <2>2. CASE replay # <<>>
    <3>1. /\ replay \in Seq(Ours) /\ Tail(replay) \in Seq(Ours) /\ Len(Tail(replay)) = Len(replay) - 1
          /\ Len(replay) \in Nat \ {0} /\ Head(replay) = replay[1] /\ replay[1] \in Ours
          /\ \A i \in 1..Len(replay) - 1 : Tail(replay)[i] = replay[i + 1]
      BY <2>2, TailOf DEF Numbered
    <3>2. cursor' = replay[1].seq /\ SendChange(replay[1]) /\ replay' = Tail(replay)
      BY <1>9, <2>2, <3>1 DEF ReplayNext
    <3>3. 1 \in 1..Len(replay)
      BY <3>1
    <3>4. \A i \in 1..Len(wire) : IsChange(i) => wire[i].seq < replay[1].seq
      BY <3>3 DEF Ordered
    <3>5. /\ \A i, j \in 1..Len(wire') :
               i < j /\ IsChange(i)' /\ IsChange(j)' => wire'[i].seq < wire'[j].seq
          /\ \A i \in 1..Len(wire') : IsChange(i)' => wire'[i].seq <= replay[1].seq
      BY <3>1, <3>2, <3>4, EventInOrder
    <3>6. \A i \in 1..Len(replay') : i + 1 \in 1..Len(replay) /\ 1 < i + 1 /\ replay'[i] = replay[i + 1]
      BY <3>1, <3>2
    <3>7. \A i \in 1..Len(replay') : replay[1].seq < replay'[i].seq
      BY <3>3, <3>6 DEF Ordered
    <3>8. ASSUME NEW i \in 1..Len(replay'), NEW j \in 1..Len(replay'), i < j
          PROVE  replay'[i].seq < replay'[j].seq
      <4>1. i + 1 < j + 1
        BY <3>1, <3>2, <3>8
      <4> QED
        BY <3>6, <4>1 DEF Ordered
    <3>9. ASSUME NEW i \in 1..Len(wire'), NEW j \in 1..Len(replay'), IsChange(i)'
          PROVE  wire'[i].seq < replay'[j].seq
      <4>1. wire'[i].seq <= replay[1].seq /\ replay[1].seq < replay'[j].seq
        BY <3>5, <3>7, <3>9
      <4>2. wire'[i].seq \in Nat /\ replay[1].seq \in Nat /\ replay'[j].seq \in Nat
        <5>1. \A k \in 1..Len(wire) : wire[k].seq \in Nat
          BY WireNumbers
        <5>2. replay[1].seq \in Nat /\ \A k \in 1..Len(replay) : replay[k].seq \in Nat
          BY <3>1, OursAre, ReplayNumbers
        <5>3. wire'[i].seq \in Nat
          BY <3>1, <3>2, <3>9, <5>1, <5>2, EventSent
        <5> QED
          BY <3>6, <5>2, <5>3
      <4> QED
        BY <4>1, <4>2
    <3> QED
      BY <3>2, <3>5, <3>8, <3>9 DEF Ordered
  <2> QED
    BY <2>1, <2>2
<1>10. CASE ResyncAfterOverflow
  <2>1. replay = <<>> /\ replay' = replay /\ cursor' = seq /\ Send(Resync)
    BY <1>0, <1>10 DEF ResyncAfterOverflow, WireShaped
  <2> QED
    BY <1>4, <1>6, <2>1, OtherSent
<1>11. CASE Deliver
  <2>1. aqueue # <<>> /\ Head(aqueue) \in Ours /\ Head(aqueue).seq \in Nat
    <3>1. aqueue # <<>> /\ aqueue \in Seq(Ours)
      BY <1>11 DEF Deliver, Numbered
    <3>2. Head(aqueue) \in Ours
      BY <3>1, TailOf
    <3> QED
      BY <3>1, <3>2, OursAre
  <2>2. CASE Head(aqueue).seq <= cursor
    BY <1>1, <1>11, <2>2 DEF Deliver
  <2>3. CASE ~ (Head(aqueue).seq <= cursor)
    <3>1. SendChange(Head(aqueue)) /\ cursor' = Head(aqueue).seq /\ replay' = replay /\ replay = <<>>
      BY <1>0, <1>11, <2>3 DEF Deliver, WireShaped
    <3>2. ASSUME NEW i \in 1..Len(wire), IsChange(i)
          PROVE  wire[i].seq < Head(aqueue).seq
      <4>1. wire[i].seq <= cursor /\ wire[i].seq \in Nat
        BY <3>2, WireNumbers DEF Ordered
      <4> QED
        BY <1>0, <2>1, <2>3, <4>1
    <3>3. /\ \A i, j \in 1..Len(wire') :
               i < j /\ IsChange(i)' /\ IsChange(j)' => wire'[i].seq < wire'[j].seq
          /\ \A i \in 1..Len(wire') : IsChange(i)' => wire'[i].seq <= Head(aqueue).seq
      BY <2>1, <3>1, <3>2, EventInOrder
    <3>4. \A i \in 1..Len(replay') : FALSE
      BY <3>1
    <3> QED
      BY <3>1, <3>3, <3>4 DEF Ordered
  <2> QED
    BY <2>2, <2>3
<1>12. CASE Receive
  <2>1. wire # <<>> /\ wire' = Tail(wire) /\ UNCHANGED <<replay, cursor>>
    BY <1>12 DEF Receive, ReceiveHello, ReceiveChange, ReceiveResync
  <2>2. /\ Len(wire) \in Nat \ {0} /\ Len(wire') = Len(wire) - 1
        /\ \A i \in 1..Len(wire') : i + 1 \in 1..Len(wire) /\ wire'[i] = wire[i + 1]
    BY <2>1, WireTaken
  <2>3. ASSUME NEW i \in 1..Len(wire'), NEW j \in 1..Len(wire'), i < j, IsChange(i)', IsChange(j)'
        PROVE  wire'[i].seq < wire'[j].seq
    <3>1. i + 1 < j + 1
      BY <2>2, <2>3
    <3> QED
      BY <2>2, <2>3, <3>1 DEF Ordered, IsChange
  <2>4. /\ \A i \in 1..Len(wire') : IsChange(i)' => wire'[i].seq <= cursor
        /\ \A i \in 1..Len(wire'), j \in 1..Len(replay) : IsChange(i)' => wire'[i].seq < replay[j].seq
    BY <2>2 DEF Ordered, IsChange
  <2>5. \A i, j \in 1..Len(replay) : i < j => replay[i].seq < replay[j].seq
    BY DEF Ordered
  <2> QED
    BY <2>1, <2>3, <2>4, <2>5 DEF Ordered
<1>13. ASSUME Drop \/ Restart
       PROVE  Ordered'
  <2>1. wire' = <<>> /\ replay' = <<>>
    BY <1>13 DEF Drop, Restart, Disconnect
  <2> QED
    BY <2>1 DEF Ordered
<1>14. CASE UNCHANGED vars
  BY <1>1, <1>14 DEF vars
<1> QED
  BY <1>2, <1>3, <1>5, <1>7, <1>8, <1>9, <1>10, <1>11, <1>12, <1>13, <1>14 DEF Next, Generate

\* Where the floor is, as a number.
LEMMA FloorBound ==
  ASSUME TypeOK, Numbered, Staged
  PROVE  Floor \in Int /\ (~ stale => Floor <= seq) /\ (stale => Floor = since)
<1>1. /\ seq \in Nat /\ since \in Int /\ NoCursor = -1 /\ ClientFits
  BY BoundsAssumption DEF TypeOK, Cursors, NoCursor, Staged
<1>2. CASE since = NoCursor /\ wire # <<>> /\ IsHello(1)
  <2>1. Floor = wire[1].seq
    BY <1>2 DEF Floor
  <2>2. 1 \in 1..Len(wire)
    BY <1>2 DEF Numbered
  <2>3. wire[1].seq \in Nat /\ wire[1].seq <= seq
    BY <1>2, <2>2, WireNumbers
  <2> QED
    BY <1>1, <1>2, <2>1, <2>3 DEF ClientFits
<1>3. CASE ~ (since = NoCursor /\ wire # <<>> /\ IsHello(1))
  <2>1. Floor = since
    BY <1>3 DEF Floor
  <2>2. ~ stale => since <= seq
    BY <1>1 DEF ClientFits
  <2> QED
    BY <1>1, <2>1, <2>2
<1> QED
  BY <1>2, <1>3

\* Sending another frame than a hello leaves it where it is.
LEMMA FloorSent ==
  ASSUME TypeOK, Numbered, Staged, NEW f \in OurFrames, f.kind # "hello", Send(f), since' = since
  PROVE  Floor' = Floor
<1>1. /\ Len(wire) \in Nat /\ Len(wire') = Len(wire) + 1 /\ wire' # <<>>
      /\ \A i \in 1..Len(wire) : wire'[i] = wire[i]
      /\ wire'[Len(wire) + 1] = f
      /\ wire = <<>> => Len(wire) = 0
      /\ wire # <<>> => 1 \in 1..Len(wire)
  BY WireSent
<1>2. CASE wire = <<>>
  <2>1. wire'[1] = f
    BY <1>1, <1>2
  <2> QED
    BY <1>2, <2>1 DEF Floor, IsHello
<1>3. CASE wire # <<>>
  <2>1. wire'[1] = wire[1]
    BY <1>1, <1>3
  <2> QED
    BY <1>1, <1>3, <2>1 DEF Floor, IsHello
<1> QED
  BY <1>2, <1>3

\* The same for an event.
LEMMA FloorEvent ==
  ASSUME TypeOK, Numbered, Staged, NEW e \in Ours, SendChange(e), since' = since
  PROVE  Floor' = Floor
<1>1. CASE e.change \in Private
  BY <1>1 DEF SendChange, Floor, IsHello
<1>2. CASE e.change \notin Private
  <2>1. Change(e) \in OurFrames /\ Change(e).kind # "hello" /\ Send(Change(e))
    BY <1>2, OursAre DEF SendChange, Change
  <2> QED
    BY <2>1, FloorSent
<1> QED
  BY <1>1, <1>2

\* An event above the floor may be sent.
LEMMA EventAboveFloor ==
  ASSUME TypeOK, Numbered, Staged, AboveFloor, ~ stale, NEW e \in Ours, SendChange(e),
         since' = since, e.seq > Floor
  PROVE  Floor' = Floor /\ \A i \in 1..Len(wire') : IsChange(i)' => wire'[i].seq > Floor
<1>1. Floor' = Floor
  BY FloorEvent
<1>2. \A i \in 1..Len(wire') : IsChange(i)' =>
        \/ i \in 1..Len(wire) /\ IsChange(i) /\ wire'[i].seq = wire[i].seq
        \/ (\A j \in 1..Len(wire) : j < i) /\ i = Len(wire') /\ wire'[i].seq = e.seq
  BY EventSent
<1> QED
  BY <1>1, <1>2 DEF AboveFloor

\* Every step keeps what is sent above the floor.
LEMMA StepAboveFloor ==
  ASSUME TypeOK, Numbered, Staged, Ordered, AboveFloor, TypeOK', Numbered', Staged', [Next]_vars
  PROVE  AboveFloor'
<1> USE DEF busVars, pipeVars, subVars, genVars, clientVars
<1>0. /\ seq \in Nat /\ cursor \in Nat /\ cursor <= seq /\ WireShaped /\ AskedFits /\ ClientFits
      /\ Floor \in Int /\ (~ stale => Floor <= seq) /\ since \in Int /\ NoCursor = -1
  <2>1. seq \in Nat /\ cursor \in Nat /\ since \in Int /\ NoCursor = -1
    BY BoundsAssumption DEF TypeOK, Cursors, NoCursor
  <2>2. cursor <= seq /\ WireShaped /\ AskedFits /\ ClientFits
    BY DEF Numbered, Staged
  <2>3. Floor \in Int /\ (~ stale => Floor <= seq)
    BY FloorBound
  <2> QED
    BY <2>1, <2>2, <2>3
<1>1. ASSUME UNCHANGED <<wire, replay, cursor, gen, since, stale>>
      PROVE  AboveFloor'
  <2>1. Floor' = Floor
    BY <1>1 DEF Floor, IsHello
  <2> QED
    BY <1>1, <2>1 DEF AboveFloor, IsChange
<1>2. ASSUME NEW p \in Publishers, Stamp(p) \/ Post(p)
      PROVE  AboveFloor'
  BY <1>1, <1>2 DEF Stamp, Post
<1>3. CASE Offer
  BY <1>1, <1>3 DEF Offer
<1>4. CASE Connect
  <2>1. wire' = <<>> /\ replay' = <<>> /\ gen' = "subscribed"
    BY <1>0, <1>4 DEF Connect, WireShaped, Greeted
  <2> QED
    BY <2>1 DEF AboveFloor, Greeted
<1>5. CASE Greet
  <2>1. /\ wire = <<>> /\ replay' = <<>> /\ cursor' = seq /\ since' = since /\ stale' = stale /\ seq' = seq
    BY <1>0, <1>5 DEF Greet, WireShaped, Greeted
  <2>2. Len(wire') = 1 /\ wire'[1] = Hello(seq) /\ wire' # <<>>
    BY <1>5, <2>1, OtherFrames, WireSent DEF Greet
  <2>3. \A i \in 1..Len(wire') : ~ IsChange(i)'
    BY <2>2 DEF IsChange, Hello
  <2>4. Floor' = IF since = NoCursor THEN seq ELSE since
    BY <2>1, <2>2 DEF Floor, IsHello, Hello
  <2>5. ~ stale => cursor' >= Floor'
    <3>1. since # NoCursor /\ ~ stale => since <= seq
      BY <1>0 DEF ClientFits
    <3> QED
      BY <1>0, <2>1, <2>4, <3>1
  <2>6. \A i \in 1..Len(replay') : FALSE
    BY <2>1
  <2> QED
    BY <2>1, <2>3, <2>5, <2>6 DEF AboveFloor
<1>6. Resync \in OurFrames /\ Resync.kind # "change" /\ Resync.kind # "hello"
  BY OtherFrames DEF Resync
<1>7. ASSUME Send(Resync), replay = <<>>, replay' = <<>>, cursor' = seq, UNCHANGED <<since, stale>>
      PROVE  AboveFloor'
  <2>1. Floor' = Floor
    BY <1>6, <1>7, FloorSent
  <2>2. \A i \in 1..Len(wire') : IsChange(i)' =>
          i \in 1..Len(wire) /\ IsChange(i) /\ wire'[i].seq = wire[i].seq
    BY <1>6, <1>7, OtherSent
  <2>3. ~ stale => \A i \in 1..Len(wire') : IsChange(i)' => wire'[i].seq > Floor
    BY <2>2 DEF AboveFloor
  <2>4. ~ stale => cursor' >= Floor
    BY <1>0, <1>7
  <2> QED
    BY <1>7, <2>1, <2>3, <2>4 DEF AboveFloor
<1>8. CASE CheckReplay
  <2>1. CASE CanReplay(asked)
    <3>1. UNCHANGED <<wire, replay, cursor, since, stale>> /\ gen \in Greeted
      BY <1>8, <2>1 DEF CheckReplay, Greeted
    <3>2. Floor' = Floor
      BY <3>1 DEF Floor, IsHello
    <3> QED
      BY <3>1, <3>2 DEF AboveFloor, IsChange
  <2>2. CASE ~ CanReplay(asked)
    <3>1. replay = <<>> /\ replay' = replay /\ cursor' = seq /\ Send(Resync) /\ UNCHANGED <<since, stale>>
      BY <1>0, <1>8, <2>2 DEF CheckReplay, WireShaped
    <3> QED
      BY <1>7, <3>1
  <2> QED
    BY <2>1, <2>2
<1>9. CASE TakeSnapshot
  <2>1. /\ wire' = wire /\ replay' = SnapshotSince(asked) /\ replay = <<>>
        /\ UNCHANGED <<since, stale, cursor>> /\ gen \in Greeted /\ asked = since /\ asked # NoCursor
    BY <1>0, <1>9 DEF TakeSnapshot, WireShaped, AskedFits, Greeted
  <2>2. Floor' = Floor /\ Floor = asked
    BY <2>1 DEF Floor, IsHello
  <2>3. \A i \in 1..Len(replay') : replay'[i].seq > asked
    BY <1>0, <2>1, Snapshot
  <2> QED
    BY <2>1, <2>2, <2>3 DEF AboveFloor, IsChange
<1>10. CASE ReplayNext
  <2>1. CASE replay = <<>>
    <3>1. UNCHANGED <<wire, replay, cursor, since, stale>> /\ gen \in Greeted
      BY <1>10, <2>1 DEF ReplayNext, Greeted
    <3>2. Floor' = Floor
      BY <3>1 DEF Floor, IsHello
    <3> QED
      BY <3>1, <3>2 DEF AboveFloor, IsChange
  <2>2. CASE replay # <<>>
    <3>1. /\ replay \in Seq(Ours) /\ Tail(replay) \in Seq(Ours) /\ Len(Tail(replay)) = Len(replay) - 1
          /\ Len(replay) \in Nat \ {0} /\ Head(replay) = replay[1] /\ replay[1] \in Ours
          /\ \A i \in 1..Len(replay) - 1 : Tail(replay)[i] = replay[i + 1]
      BY <2>2, TailOf DEF Numbered
    <3>2. /\ cursor' = replay[1].seq /\ SendChange(replay[1]) /\ replay' = Tail(replay)
          /\ UNCHANGED <<since, stale>>
      BY <1>10, <2>2, <3>1 DEF ReplayNext
    <3>3. 1 \in 1..Len(replay) /\ replay[1].seq \in Nat
      BY <3>1, OursAre
    <3>4. \A i \in 1..Len(replay') : i + 1 \in 1..Len(replay) /\ replay'[i] = replay[i + 1]
      BY <3>1, <3>2
    <3>5. ASSUME ~ stale
          PROVE  /\ Floor' = Floor /\ \A i \in 1..Len(wire') : IsChange(i)' => wire'[i].seq > Floor
                 /\ replay[1].seq > Floor
                 /\ \A i \in 1..Len(replay') : replay'[i].seq > Floor
      <4>1. replay[1].seq > Floor
        BY <3>3, <3>5 DEF AboveFloor
      <4>2. \A i \in 1..Len(replay') : replay'[i].seq > Floor
        BY <3>4, <3>5 DEF AboveFloor
      <4> QED
        BY <3>1, <3>2, <3>5, <4>1, <4>2, EventAboveFloor
    <3>6. replay[1].seq > Floor => replay[1].seq >= Floor
      BY <1>0, <3>3
    <3> QED
      BY <3>2, <3>5, <3>6 DEF AboveFloor
  <2> QED
    BY <2>1, <2>2
<1>11. CASE ResyncAfterOverflow
  <2>1. replay = <<>> /\ replay' = replay /\ cursor' = seq /\ Send(Resync) /\ UNCHANGED <<since, stale>>
    BY <1>0, <1>11 DEF ResyncAfterOverflow, WireShaped
  <2> QED
    BY <1>7, <2>1
<1>12. CASE Deliver
  <2>1. /\ aqueue # <<>> /\ aqueue \in Seq(Ours) /\ gen = "live" /\ replay = <<>>
        /\ UNCHANGED <<gen, replay, since, stale>>
    BY <1>0, <1>12 DEF Deliver, Numbered, WireShaped
  <2>2. Head(aqueue) \in Ours
    BY <2>1, TailOf
  <2>3. Head(aqueue).seq \in Nat
    BY <2>2, OursAre
  <2>4. CASE Head(aqueue).seq <= cursor
    BY <1>1, <1>12, <2>4 DEF Deliver
  <2>5. CASE ~ (Head(aqueue).seq <= cursor)
    <3>1. SendChange(Head(aqueue)) /\ cursor' = Head(aqueue).seq
      BY <1>12, <2>5 DEF Deliver
    <3>2. ASSUME ~ stale
          PROVE  /\ Floor' = Floor /\ \A i \in 1..Len(wire') : IsChange(i)' => wire'[i].seq > Floor
                 /\ cursor' >= Floor
      <4>1. cursor >= Floor
        BY <2>1, <3>2 DEF AboveFloor, Greeted
      <4>2. Head(aqueue).seq > Floor /\ cursor' >= Floor
        BY <1>0, <2>3, <2>5, <3>1, <4>1
      <4> QED
        BY <2>1, <2>2, <3>1, <3>2, <4>2, EventAboveFloor
    <3> QED
      BY <2>1, <3>1, <3>2 DEF AboveFloor
  <2> QED
    BY <2>4, <2>5
<1>13. CASE Receive
  <2>1. wire # <<>> /\ wire' = Tail(wire) /\ UNCHANGED <<seq, gen, replay, cursor>>
    BY <1>13 DEF Receive, ReceiveHello, ReceiveChange, ReceiveResync
  <2>2. /\ Len(wire) \in Nat \ {0} /\ Len(wire') = Len(wire) - 1
        /\ \A i \in 1..Len(wire') : i + 1 \in 1..Len(wire) /\ wire'[i] = wire[i + 1]
        /\ Head(wire) = wire[1] /\ 1 \in 1..Len(wire)
        /\ wire' = <<>> \/ 1 \in 1..Len(wire')
    BY <2>1, WireTaken
  <2>3. ~ (wire' # <<>> /\ IsHello(1)')
    <3>1. ASSUME 1 \in 1..Len(wire') PROVE wire'[1].kind # "hello"
      <4>1. 2 \in 1..Len(wire) /\ wire'[1] = wire[2]
        BY <2>2, <3>1
      <4> QED
        BY <1>0, <4>1 DEF WireShaped, IsHello
    <3> QED
      BY <2>2, <3>1 DEF IsHello
  <2>4. Floor' = since'
    BY <2>3 DEF Floor
  <2>5. ASSUME NEW i \in 1..Len(wire'), IsChange(i)'
        PROVE  i + 1 \in 1..Len(wire) /\ 1 < i + 1 /\ IsChange(i + 1) /\ wire'[i].seq = wire[i + 1].seq
    BY <2>2, <2>5 DEF IsChange
  <2>6. ASSUME since' = Floor, stale' = stale
        PROVE  AboveFloor'
    <3>1. ASSUME ~ stale
          PROVE  \A i \in 1..Len(wire') : IsChange(i)' => wire'[i].seq > Floor
      BY <2>5, <3>1 DEF AboveFloor
    <3> QED
      BY <2>1, <2>4, <2>6, <3>1 DEF AboveFloor
  <2>7. CASE ReceiveHello
    <3>1. since' = Floor /\ stale' = stale
      BY <1>0, <2>1, <2>2, <2>7 DEF ReceiveHello, Floor, IsHello, ClientFits, TypeOK
    <3> QED
      BY <2>6, <3>1
  <2>8. CASE ReceiveChange
    <3>1. IsChange(1) /\ ~ IsHello(1)
      BY <2>2, <2>8 DEF ReceiveChange, IsChange, IsHello
    <3>2. CASE since' = wire[1].seq
      <4>1. \A i \in 1..Len(wire') : IsChange(i)' => wire'[i].seq > wire[1].seq
        <5>1. ASSUME NEW i \in 1..Len(wire'), IsChange(i)'
              PROVE  wire'[i].seq > wire[1].seq
          <6>1. wire[1].seq < wire[i + 1].seq
            BY <2>2, <2>5, <3>1, <5>1 DEF Ordered
          <6> QED
            BY <2>5, <5>1, <6>1
        <5> QED
          BY <5>1
      <4>2. \A i \in 1..Len(replay) : replay[i].seq > wire[1].seq
        BY <2>2, <3>1 DEF Ordered
      <4>3. wire[1].seq <= cursor
        BY <2>2, <3>1 DEF Ordered
      <4> QED
        BY <2>1, <2>4, <3>2, <4>1, <4>2, <4>3 DEF AboveFloor
    <3>3. CASE since' = since /\ stale' = stale
      <4>1. Floor = since
        BY <3>1 DEF Floor
      <4> QED
        BY <2>6, <3>3, <4>1
    <3> QED
      BY <2>2, <2>8, <3>2, <3>3 DEF ReceiveChange
  <2>9. CASE ReceiveResync
    <3>1. since' = NoCursor
      BY <2>9 DEF ReceiveResync
    <3>2. \A i \in 1..Len(wire') : IsChange(i)' => wire'[i].seq > NoCursor
      <4>1. \A i \in 1..Len(wire) : wire[i].seq \in Nat
        BY WireNumbers
      <4>2. \A i \in 1..Len(wire') : IsChange(i)' => wire'[i].seq \in Nat
        BY <2>5, <4>1
      <4> QED
        BY <1>0, <4>2
    <3>3. \A i \in 1..Len(replay) : replay[i].seq > NoCursor
      BY <1>0, ReplayNumbers
    <3>4. cursor >= NoCursor
      BY <1>0
    <3> QED
      BY <2>1, <2>4, <3>1, <3>2, <3>3, <3>4 DEF AboveFloor
  <2> QED
    BY <1>13, <2>7, <2>8, <2>9 DEF Receive
<1>14. ASSUME Drop \/ Restart
       PROVE  AboveFloor'
  <2>1. wire' = <<>> /\ replay' = <<>> /\ gen' = "closed"
    BY <1>14 DEF Drop, Restart, Disconnect
  <2> QED
    BY <2>1 DEF AboveFloor, Greeted
<1>15. CASE UNCHANGED vars
  BY <1>1, <1>15 DEF vars
<1> QED
  BY <1>2, <1>3, <1>4, <1>5, <1>8, <1>9, <1>10, <1>11, <1>12, <1>13, <1>14, <1>15
     DEF Next, Generate

----------------------------------------------------------------------------
\* Nothing ahead is lost, and what is overtaken is excused.

\* The last number the connection covers once it has replayed what it holds.
Target == IF replay = <<>> THEN cursor ELSE replay[Len(replay)].seq

OnWay(n) == \/ \E p \in Publishers : hand[p].seq = n
            \/ \E i \in 1..Len(posted) : posted[i].seq = n
            \/ \E i \in 1..Len(aqueue) : aqueue[i].seq = n

\* From the greeting on, every later number is on its way or the flag is up.
Ahead == gen \in Greeted /\ ~ overflowed => \A n \in 1..seq : n > Target => OnWay(n)

\* An event that comes after one with a higher number has been excused.
Behind ==
  /\ \A i, j \in 1..Len(aqueue) :
       i < j /\ aqueue[j].seq < aqueue[i].seq => aqueue[j].change \in excused
  /\ \A i, j \in 1..Len(posted) :
       i < j /\ posted[j].seq < posted[i].seq => posted[j].change \in excused
  /\ \A i \in 1..Len(aqueue), j \in 1..Len(posted) :
       posted[j].seq < aqueue[i].seq => posted[j].change \in excused
  /\ \A i \in 1..Len(aqueue), p \in Publishers :
       hand[p] # NoEvent /\ hand[p].seq < aqueue[i].seq => hand[p].change \in excused
  /\ \A i \in 1..Len(posted), p \in Publishers :
       hand[p] # NoEvent /\ hand[p].seq < posted[i].seq => hand[p].change \in excused

\* At first nothing is on its way.
LEMMA InitAhead == ASSUME Init PROVE Ahead /\ Behind
<1>1. posted = <<>> /\ aqueue = <<>> /\ gen = "closed"
  BY DEF Init
<1> QED
  BY <1>1 DEF Ahead, Behind, Greeted

\* The target is a number that was given.
LEMMA TargetBound ==
  ASSUME TypeOK, Numbered
  PROVE  Target \in Nat /\ Target <= seq
<1>1. cursor \in Nat /\ cursor <= seq /\ seq \in Nat /\ replay \in Seq(Ours)
  BY BoundsAssumption DEF TypeOK, Cursors, Numbered
<1>2. CASE replay = <<>>
  BY <1>1, <1>2 DEF Target
<1>3. CASE replay # <<>>
  <2>1. Len(replay) \in 1..Len(replay)
    BY <1>1, <1>3
  <2>2. replay[Len(replay)].seq \in 1..seq
    BY <2>1, ReplayNumbers
  <2> QED
    BY <1>1, <1>3, <2>2 DEF Target
<1> QED
  BY <1>2, <1>3

\* What the three stretches of the way hold.
LEMMA WayNumbers ==
  ASSUME TypeOK, Numbered
  PROVE  /\ \A i \in 1..Len(posted) : posted[i] \in Ours /\ posted[i].seq \in 1..seq
         /\ \A i \in 1..Len(aqueue) : aqueue[i] \in Ours /\ aqueue[i].seq \in 1..seq
         /\ \A p \in Publishers : hand[p] # NoEvent => hand[p] \in Ours /\ hand[p].seq \in 1..seq
         /\ Len(posted) \in Nat /\ Len(aqueue) \in Nat
<1>1. /\ \A i \in 1..Len(posted) : posted[i] \in Ours
      /\ \A i \in 1..Len(aqueue) : aqueue[i] \in Ours
      /\ \A p \in Publishers : hand[p] # NoEvent => hand[p] \in Ours
      /\ Len(posted) \in Nat /\ Len(aqueue) \in Nat
  BY DEF Numbered
<1> QED
  BY <1>1, OursAre

\* Offer moves the event to the queue, or raises the flag.
LEMMA Offered ==
  ASSUME TypeOK, Numbered, Offer
  PROVE  /\ Len(posted) \in Nat \ {0} /\ Len(posted') = Len(posted) - 1
         /\ \A i \in 1..Len(posted') : i + 1 \in 1..Len(posted) /\ 1 < i + 1 /\ posted'[i] = posted[i + 1]
         /\ 1 \in 1..Len(posted) /\ Len(aqueue) \in Nat
         /\ \/ overflowed' /\ aqueue' = aqueue
            \/ /\ overflowed' = overflowed /\ Len(aqueue') = Len(aqueue) + 1
               /\ \A i \in 1..Len(aqueue) : aqueue'[i] = aqueue[i]
               /\ aqueue'[Len(aqueue) + 1] = posted[1]
<1>1. posted # <<>> /\ posted' = Tail(posted) /\ posted \in Seq(Ours) /\ aqueue \in Seq(Ours)
  BY DEF Offer, Numbered
<1>2. /\ Len(posted) \in Nat \ {0} /\ Len(posted') = Len(posted) - 1
      /\ Head(posted) = posted[1] /\ posted[1] \in Ours
      /\ \A i \in 1..Len(posted) - 1 : posted'[i] = posted[i + 1]
  BY <1>1, TailOf
<1>3. \A i \in 1..Len(posted') : i + 1 \in 1..Len(posted) /\ 1 < i + 1
  BY <1>2
<1>4. CASE Len(aqueue) < QueueSize
  <2>1. aqueue' = Append(aqueue, posted[1]) /\ overflowed' = overflowed
    BY <1>2, <1>4 DEF Offer
  <2>2. /\ Len(aqueue) \in Nat /\ Len(aqueue') = Len(aqueue) + 1
        /\ \A i \in 1..Len(aqueue) : aqueue'[i] = aqueue[i]
        /\ aqueue'[Len(aqueue) + 1] = posted[1]
    BY <1>1, <1>2, <2>1, Appended
  <2> QED
    BY <1>2, <1>3, <2>1, <2>2
<1>5. CASE ~ (Len(aqueue) < QueueSize)
  <2>1. overflowed' /\ aqueue' = aqueue /\ Len(aqueue) \in Nat
    BY <1>1, <1>5 DEF Offer
  <2> QED
    BY <1>2, <1>3, <2>1
<1> QED
  BY <1>4, <1>5

\* Post moves the event to the loop.
LEMMA Posted ==
  ASSUME TypeOK, Numbered, NEW p \in Publishers, Post(p)
  PROVE  /\ hand[p] # NoEvent /\ hand[p] \in Ours
         /\ Len(posted) \in Nat /\ Len(posted') = Len(posted) + 1
         /\ \A i \in 1..Len(posted) : posted'[i] = posted[i]
         /\ posted'[Len(posted) + 1] = hand[p]
         /\ hand'[p] = NoEvent
         /\ \A q \in Publishers : q # p => hand'[q] = hand[q]
<1>1. hand[p] # NoEvent /\ posted' = Append(posted, hand[p]) /\ posted \in Seq(Ours)
  BY DEF Post, Numbered
<1>2. hand[p] \in Ours
  BY <1>1 DEF Numbered
<1>3. hand' = [hand EXCEPT ![p] = NoEvent] /\ hand \in [Publishers -> Ours \union {NoEvent}]
  BY DEF Post, Numbered
<1>4. /\ Len(posted) \in Nat /\ Len(posted') = Len(posted) + 1
      /\ \A i \in 1..Len(posted) : posted'[i] = posted[i]
      /\ posted'[Len(posted) + 1] = hand[p]
  BY <1>1, <1>2, Appended
<1> QED
  BY <1>1, <1>2, <1>3, <1>4

\* Deliver takes the first event of the queue.
LEMMA Delivered ==
  ASSUME TypeOK, Numbered, Staged, Deliver
  PROVE  /\ Len(aqueue) \in Nat \ {0} /\ Len(aqueue') = Len(aqueue) - 1
         /\ \A i \in 1..Len(aqueue') : i + 1 \in 1..Len(aqueue) /\ 1 < i + 1 /\ aqueue'[i] = aqueue[i + 1]
         /\ 1 \in 1..Len(aqueue) /\ aqueue[1] \in Ours /\ Head(aqueue) = aqueue[1]
         /\ \A i \in 1..Len(aqueue) : i = 1 \/ (i - 1 \in 1..Len(aqueue') /\ aqueue'[i - 1] = aqueue[i])
         /\ replay = <<>> /\ replay' = <<>> /\ gen = "live"
<1>1. aqueue # <<>> /\ aqueue' = Tail(aqueue) /\ aqueue \in Seq(Ours)
  BY DEF Deliver, Numbered
<1>2. /\ Len(aqueue) \in Nat \ {0} /\ Len(aqueue') = Len(aqueue) - 1
      /\ Head(aqueue) = aqueue[1] /\ aqueue[1] \in Ours
      /\ \A i \in 1..Len(aqueue) - 1 : aqueue'[i] = aqueue[i + 1]
  BY <1>1, TailOf
<1>3. \A i \in 1..Len(aqueue') : i + 1 \in 1..Len(aqueue) /\ 1 < i + 1
  BY <1>2
<1>4. ASSUME NEW i \in 1..Len(aqueue), i # 1
      PROVE  i - 1 \in 1..Len(aqueue') /\ aqueue'[i - 1] = aqueue[i]
  <2>1. i - 1 \in 1..Len(aqueue) - 1 /\ (i - 1) + 1 = i
    BY <1>2, <1>4
  <2> QED
    BY <1>2, <2>1
<1>5. replay = <<>> /\ replay' = <<>> /\ gen = "live"
  BY DEF Deliver, genVars, Staged, WireShaped
<1> QED
  BY <1>2, <1>3, <1>4, <1>5

\* Excuses stay.
LEMMA ExcusesStay ==
  ASSUME [Next]_vars
  PROVE  excused \subseteq excused'
BY DEF Next, Generate, Receive, Stamp, Post, Offer, Connect, Greet, CheckReplay, TakeSnapshot,
       ReplayNext, ResyncAfterOverflow, Deliver, ReceiveHello, ReceiveChange, ReceiveResync,
       Drop, Restart, vars

\* From the greeting on, no step loses a number in silence.
LEMMA StepAhead ==
  ASSUME TypeOK, Numbered, Staged, Ahead, TypeOK', Numbered', [Next]_vars
  PROVE  Ahead'
<1> USE DEF busVars, pipeVars, subVars, genVars, clientVars
<1>0. /\ seq \in Nat /\ cursor \in Nat /\ cursor <= seq /\ WireShaped
      /\ Target \in Nat /\ Target <= seq
  <2>1. Target \in Nat /\ Target <= seq
    BY TargetBound
  <2>2. seq \in Nat /\ cursor \in Nat
    BY BoundsAssumption DEF TypeOK, Cursors
  <2>3. cursor <= seq
    BY DEF Numbered
  <2>4. WireShaped
    BY DEF Staged
  <2> QED
    BY <2>1, <2>2, <2>3, <2>4
<1>1. ASSUME gen' \in Greeted => gen \in Greeted, Target' = Target,
             UNCHANGED <<hand, posted, aqueue, overflowed, seq>>
      PROVE  Ahead'
  BY <1>1 DEF Ahead, OnWay
<1>2. ASSUME Target' = seq, seq' = seq
      PROVE  Ahead'
  <2>1. \A n \in 1..seq : ~ (n > seq)
    BY <1>0
  <2> QED
    BY <1>2, <2>1 DEF Ahead
<1>3. ASSUME NEW p \in Publishers, Stamp(p)
      PROVE  Ahead'
  <2>1. /\ Target' = Target /\ hand[p] = NoEvent /\ seq' = seq + 1
        /\ UNCHANGED <<gen, posted, aqueue, overflowed>>
        /\ gen \in Greeted => gen # "closed"
    BY <1>3 DEF Stamp, Target, Greeted
  <2>2. ASSUME gen \in Greeted
        PROVE  hand'[p].seq = seq + 1 /\ \A q \in Publishers : q # p => hand'[q] = hand[q]
    <3>1. hand' = [hand EXCEPT ![p] = [seq |-> seq + 1, change |-> made + 1]]
      BY <1>3, <2>1, <2>2 DEF Stamp
    <3>2. hand \in [Publishers -> Ours \union {NoEvent}]
      BY DEF Numbered
    <3> QED
      BY <3>1, <3>2
  <2>3. ASSUME gen \in Greeted, ~ overflowed, NEW n \in 1..seq', n > Target
        PROVE  OnWay(n)'
    <3>1. CASE n = seq + 1
      BY <2>2, <2>3, <3>1 DEF OnWay
    <3>2. CASE n # seq + 1
      <4>1. n \in 1..seq /\ n # 0
        BY <1>0, <2>1, <2>3, <3>2
      <4>2. OnWay(n)
        BY <2>3, <4>1 DEF Ahead
      <4>3. \A q \in Publishers : hand[q].seq = n => q # p
        BY <2>1, <4>1 DEF NoEvent
      <4> QED
        BY <2>1, <2>2, <2>3, <4>2, <4>3 DEF OnWay
    <3> QED
      BY <3>1, <3>2
  <2> QED
    BY <2>1, <2>3 DEF Ahead
<1>4. ASSUME NEW p \in Publishers, Post(p)
      PROVE  Ahead'
  <2>1. UNCHANGED <<gen, aqueue, overflowed, seq>> /\ Target' = Target
    BY <1>4 DEF Post, Target
  <2>2. /\ Len(posted) \in Nat /\ Len(posted') = Len(posted) + 1
        /\ \A i \in 1..Len(posted) : posted'[i] = posted[i]
        /\ posted'[Len(posted) + 1] = hand[p]
        /\ \A q \in Publishers : q # p => hand'[q] = hand[q]
    BY <1>4, Posted
  <2>3. Len(posted) + 1 \in 1..Len(posted') /\ \A i \in 1..Len(posted) : i \in 1..Len(posted')
    BY <2>2
  <2>4. ASSUME NEW n \in Int, OnWay(n)
        PROVE  OnWay(n)'
    BY <2>1, <2>2, <2>3, <2>4 DEF OnWay
  <2> QED
    BY <1>0, <2>1, <2>4 DEF Ahead
<1>5. CASE Offer
  <2>1. UNCHANGED <<gen, hand, seq>> /\ Target' = Target
    BY <1>5 DEF Offer, Target
  <2>2. /\ Len(posted) \in Nat \ {0} /\ Len(posted') = Len(posted) - 1
        /\ \A i \in 1..Len(posted') : i + 1 \in 1..Len(posted) /\ 1 < i + 1 /\ posted'[i] = posted[i + 1]
        /\ 1 \in 1..Len(posted) /\ Len(aqueue) \in Nat
        /\ \/ overflowed' /\ aqueue' = aqueue
           \/ /\ overflowed' = overflowed /\ Len(aqueue') = Len(aqueue) + 1
              /\ \A i \in 1..Len(aqueue) : aqueue'[i] = aqueue[i]
              /\ aqueue'[Len(aqueue) + 1] = posted[1]
    BY <1>5, Offered
  <2>3. CASE overflowed'
    BY <2>3 DEF Ahead
  <2>4. CASE ~ overflowed'
    <3>1. /\ overflowed' = overflowed /\ Len(aqueue') = Len(aqueue) + 1
          /\ \A i \in 1..Len(aqueue) : aqueue'[i] = aqueue[i]
          /\ aqueue'[Len(aqueue) + 1] = posted[1]
      BY <2>2, <2>4
    <3>2. Len(aqueue) + 1 \in 1..Len(aqueue') /\ \A i \in 1..Len(aqueue) : i \in 1..Len(aqueue')
      BY <2>2, <3>1
    <3>3. \A i \in 1..Len(posted) : i = 1 \/ (i - 1 \in 1..Len(posted') /\ posted'[i - 1] = posted[i])
      <4>1. ASSUME NEW i \in 1..Len(posted), i # 1
            PROVE  i - 1 \in 1..Len(posted') /\ (i - 1) + 1 = i
        BY <2>2, <4>1
      <4> QED
        BY <2>2, <4>1
    <3>4. ASSUME NEW n \in Int, OnWay(n)
          PROVE  OnWay(n)'
      BY <2>1, <3>1, <3>2, <3>3, <3>4 DEF OnWay
    <3> QED
      BY <1>0, <2>1, <3>1, <3>4 DEF Ahead
  <2> QED
    BY <2>3, <2>4
<1>6. CASE Connect
  BY <1>6 DEF Connect, Ahead, Greeted
<1>7. CASE Greet
  <2>1. Target' = seq /\ seq' = seq
    BY <1>0, <1>7 DEF Greet, WireShaped, Target
  <2> QED
    BY <1>2, <2>1
<1>8. CASE CheckReplay
  <2>1. CASE CanReplay(asked)
    <3>1. Target' = Target /\ UNCHANGED <<hand, posted, aqueue, overflowed, seq>> /\ gen \in Greeted
      BY <1>8, <2>1 DEF CheckReplay, Target, Greeted
    <3> QED
      BY <1>1, <3>1
  <2>2. CASE ~ CanReplay(asked)
    <3>1. Target' = seq /\ seq' = seq
      BY <1>0, <1>8, <2>2 DEF CheckReplay, WireShaped, Target
    <3> QED
      BY <1>2, <3>1
  <2> QED
    BY <2>1, <2>2
<1>9. CASE TakeSnapshot
  <2>1. /\ replay' = SnapshotSince(asked) /\ replay = <<>> /\ gen \in Greeted
        /\ UNCHANGED <<hand, posted, aqueue, overflowed, seq, cursor>>
    BY <1>0, <1>9 DEF TakeSnapshot, WireShaped, Greeted
  <2>2. CASE replay' = <<>>
    BY <1>1, <2>1, <2>2 DEF Target
  <2>3. CASE replay' # <<>>
    <3>1. asked \in Int
      BY BoundsAssumption DEF TypeOK, Cursors, NoCursor
    <3>2. replay'[Len(replay')].seq = seq
      BY <2>1, <2>3, <3>1, Snapshot
    <3> QED
      BY <1>2, <2>1, <2>3, <3>2 DEF Target
  <2> QED
    BY <2>2, <2>3
<1>10. CASE ReplayNext
  <2>1. UNCHANGED <<hand, posted, aqueue, overflowed, seq>> /\ gen \in Greeted
    BY <1>10 DEF ReplayNext, Greeted
  <2>2. CASE replay = <<>>
    BY <1>1, <1>10, <2>1, <2>2 DEF ReplayNext, Target
  <2>3. CASE replay # <<>>
    <3>1. /\ Tail(replay) \in Seq(Ours) /\ Len(Tail(replay)) = Len(replay) - 1
          /\ Len(replay) \in Nat \ {0} /\ Head(replay) = replay[1]
          /\ \A i \in 1..Len(replay) - 1 : Tail(replay)[i] = replay[i + 1]
      BY <2>3, TailOf DEF Numbered
    <3>2. cursor' = replay[1].seq /\ replay' = Tail(replay)
      BY <1>10, <2>3, <3>1 DEF ReplayNext
    <3>3. CASE replay' = <<>>
      <4>1. Len(replay) = 1
        <5>1. Len(replay') = Len(replay) - 1
          BY <3>1, <3>2
        <5>2. Len(replay') = 0 /\ Len(replay) \in Nat
          BY <3>1, <3>3
        <5> QED
          BY <5>1, <5>2
      <4> QED
        BY <1>1, <2>1, <2>3, <3>2, <3>3, <4>1 DEF Target
    <3>4. CASE replay' # <<>>
      <4>1. Len(replay') \in 1..Len(replay) - 1 /\ Len(replay') + 1 = Len(replay)
        BY <3>1, <3>2, <3>4
      <4>2. replay'[Len(replay')] = replay[Len(replay)]
        BY <3>1, <3>2, <4>1
      <4> QED
        BY <1>1, <2>1, <2>3, <3>4, <4>2 DEF Target
    <3> QED
      BY <3>3, <3>4
  <2> QED
    BY <2>2, <2>3
<1>11. CASE ResyncAfterOverflow
  <2>1. Target' = seq /\ seq' = seq
    BY <1>0, <1>11 DEF ResyncAfterOverflow, WireShaped, Target
  <2> QED
    BY <1>2, <2>1
<1>12. CASE Deliver
  <2>1. /\ Len(aqueue) \in Nat \ {0}
        /\ \A i \in 1..Len(aqueue) : i = 1 \/ (i - 1 \in 1..Len(aqueue') /\ aqueue'[i - 1] = aqueue[i])
        /\ Head(aqueue) = aqueue[1] /\ aqueue[1] \in Ours
        /\ replay = <<>> /\ replay' = <<>> /\ gen = "live"
    BY <1>12, Delivered
  <2>2. UNCHANGED <<hand, posted, seq, gen>> /\ ~ overflowed /\ aqueue[1].seq \in Nat
    BY <1>12, <2>1, OursAre DEF Deliver
  <2>3. cursor' \in Nat /\ cursor <= cursor' /\ aqueue[1].seq <= cursor'
    BY <1>0, <1>12, <2>1, <2>2 DEF Deliver
  <2>4. ASSUME NEW n \in 1..seq, n > cursor'
        PROVE  OnWay(n)'
    <3>1. n > Target /\ n # aqueue[1].seq
      <4>1. Target = cursor /\ n \in Int
        BY <1>0, <2>1 DEF Target
      <4>2. n > cursor
        BY <1>0, <2>3, <2>4, <4>1
      <4>3. n # aqueue[1].seq
        BY <2>2, <2>3, <2>4, <4>1
      <4> QED
        BY <4>1, <4>2, <4>3
    <3>2. OnWay(n)
      BY <2>1, <2>2, <3>1 DEF Ahead, Greeted
    <3> QED
      BY <2>1, <2>2, <3>1, <3>2 DEF OnWay
  <2>5. Target' = cursor'
    BY <2>1 DEF Target
  <2> QED
    BY <2>2, <2>4, <2>5 DEF Ahead
<1>13. CASE Receive
  <2>1. UNCHANGED <<gen, hand, posted, aqueue, overflowed, seq, replay, cursor>>
    BY <1>13 DEF Receive, ReceiveHello, ReceiveChange, ReceiveResync
  <2> QED
    BY <1>1, <2>1 DEF Target
<1>14. ASSUME Drop \/ Restart
       PROVE  Ahead'
  <2>1. gen' = "closed"
    BY <1>14 DEF Drop, Restart, Disconnect
  <2> QED
    BY <2>1 DEF Ahead, Greeted
<1>15. CASE UNCHANGED vars
  BY <1>1, <1>15 DEF vars, Target
<1> QED
  BY <1>3, <1>4, <1>5, <1>6, <1>7, <1>8, <1>9, <1>10, <1>11, <1>12, <1>13, <1>14, <1>15
     DEF Next, Generate

\* What is overtaken stays excused.
LEMMA StepBehind ==
  ASSUME TypeOK, Numbered, Staged, Behind, TypeOK', Numbered', [Next]_vars
  PROVE  Behind'
<1> USE DEF busVars, pipeVars, subVars, genVars, clientVars
<1>0. /\ \A i \in 1..Len(posted) : posted[i] \in Ours /\ posted[i].seq \in 1..seq
      /\ \A i \in 1..Len(aqueue) : aqueue[i] \in Ours /\ aqueue[i].seq \in 1..seq
      /\ \A p \in Publishers : hand[p] # NoEvent => hand[p] \in Ours /\ hand[p].seq \in 1..seq
      /\ Len(posted) \in Nat /\ Len(aqueue) \in Nat /\ seq \in Nat
  BY WayNumbers, BoundsAssumption, SMTT(30) DEF TypeOK
<1>1. excused \subseteq excused'
  BY ExcusesStay
<1>2. ASSUME UNCHANGED <<hand, posted, aqueue>>
      PROVE  Behind'
  BY <1>1, <1>2 DEF Behind
<1>3. ASSUME posted' = <<>>, aqueue' = <<>>
      PROVE  Behind'
  BY <1>3 DEF Behind
<1>4. ASSUME NEW p \in Publishers, Stamp(p)
      PROVE  Behind'
  <2>1. UNCHANGED <<posted, aqueue>>
    BY <1>4 DEF Stamp
  <2>2. \A q \in Publishers : q # p => hand'[q] = hand[q]
    BY <1>4 DEF Stamp, Numbered
  <2>3. hand'[p] # NoEvent => hand'[p].seq = seq + 1
    <3>1. hand' = [hand EXCEPT ![p] = IF gen = "closed" THEN NoEvent
                                      ELSE [seq |-> seq + 1, change |-> made + 1]]
      BY <1>4 DEF Stamp
    <3>2. hand \in [Publishers -> Ours \union {NoEvent}]
      BY DEF Numbered
    <3>3. hand'[p] = IF gen = "closed" THEN NoEvent ELSE [seq |-> seq + 1, change |-> made + 1]
      BY <3>1, <3>2
    <3> QED
      BY <3>3
  <2>4. ASSUME NEW i \in 1..Len(aqueue), NEW q \in Publishers, hand'[q] # NoEvent,
               hand'[q].seq < aqueue[i].seq
        PROVE  hand'[q].change \in excused'
    <3>1. q # p
      BY <1>0, <2>3, <2>4
    <3> QED
      BY <1>1, <2>2, <2>4, <3>1 DEF Behind
  <2>5. ASSUME NEW i \in 1..Len(posted), NEW q \in Publishers, hand'[q] # NoEvent,
               hand'[q].seq < posted[i].seq
        PROVE  hand'[q].change \in excused'
    <3>1. q # p
      BY <1>0, <2>3, <2>5
    <3> QED
      BY <1>1, <2>2, <2>5, <3>1 DEF Behind
  <2> QED
    BY <1>1, <2>1, <2>4, <2>5 DEF Behind
<1>5. ASSUME NEW p \in Publishers, Post(p)
      PROVE  Behind'
  <2>1. /\ hand[p] # NoEvent /\ hand[p] \in Ours
        /\ Len(posted) \in Nat /\ Len(posted') = Len(posted) + 1
        /\ \A i \in 1..Len(posted) : posted'[i] = posted[i]
        /\ posted'[Len(posted) + 1] = hand[p]
        /\ hand'[p] = NoEvent
        /\ \A q \in Publishers : q # p => hand'[q] = hand[q]
    BY <1>5, Posted
  <2>2. aqueue' = aqueue /\ \A i \in 1..Len(posted') : i \in 1..Len(posted) \/ i = Len(posted) + 1
    BY <1>5, <2>1 DEF Post
  <2>3. \A q \in Publishers : hand[q] # NoEvent /\ hand[q].seq < hand[p].seq => hand[q].change \in excused'
    BY <1>5 DEF Post, Overtaken
  <2>4. ASSUME NEW i \in 1..Len(posted'), NEW j \in 1..Len(posted'), i < j, posted'[j].seq < posted'[i].seq
        PROVE  posted'[j].change \in excused'
    <3>1. i \in 1..Len(posted)
      BY <2>1, <2>2, <2>4
    <3>2. CASE j \in 1..Len(posted)
      BY <1>1, <2>1, <2>4, <3>1, <3>2 DEF Behind
    <3>3. CASE j = Len(posted) + 1
      BY <1>1, <2>1, <2>4, <3>1, <3>3 DEF Behind
    <3> QED
      BY <2>2, <3>2, <3>3
  <2>5. ASSUME NEW i \in 1..Len(aqueue), NEW j \in 1..Len(posted'), posted'[j].seq < aqueue[i].seq
        PROVE  posted'[j].change \in excused'
    <3>1. CASE j \in 1..Len(posted)
      BY <1>1, <2>1, <2>5, <3>1 DEF Behind
    <3>2. CASE j = Len(posted) + 1
      BY <1>1, <2>1, <2>5, <3>2 DEF Behind
    <3> QED
      BY <2>2, <3>1, <3>2
  <2>6. ASSUME NEW i \in 1..Len(posted'), NEW q \in Publishers, hand'[q] # NoEvent,
               hand'[q].seq < posted'[i].seq
        PROVE  hand'[q].change \in excused'
    <3>1. q # p /\ hand'[q] = hand[q]
      BY <2>1, <2>6
    <3>2. CASE i \in 1..Len(posted)
      BY <1>1, <2>1, <2>6, <3>1, <3>2 DEF Behind
    <3>3. CASE i = Len(posted) + 1
      BY <2>1, <2>3, <2>6, <3>1, <3>3
    <3> QED
      BY <2>2, <3>2, <3>3
  <2>7. ASSUME NEW i \in 1..Len(aqueue), NEW q \in Publishers, hand'[q] # NoEvent,
               hand'[q].seq < aqueue[i].seq
        PROVE  hand'[q].change \in excused'
    <3>1. q # p /\ hand'[q] = hand[q]
      BY <2>1, <2>7
    <3> QED
      BY <1>1, <2>7, <3>1 DEF Behind
  <2>8. \A i, j \in 1..Len(aqueue) :
          i < j /\ aqueue[j].seq < aqueue[i].seq => aqueue[j].change \in excused'
    BY <1>1 DEF Behind
  <2> QED
    BY <2>2, <2>4, <2>5, <2>6, <2>7, <2>8 DEF Behind
<1>6. CASE Offer
  <2>1. /\ Len(posted) \in Nat \ {0} /\ Len(posted') = Len(posted) - 1
        /\ \A i \in 1..Len(posted') : i + 1 \in 1..Len(posted) /\ 1 < i + 1 /\ posted'[i] = posted[i + 1]
        /\ 1 \in 1..Len(posted) /\ Len(aqueue) \in Nat
        /\ \/ overflowed' /\ aqueue' = aqueue
           \/ /\ overflowed' = overflowed /\ Len(aqueue') = Len(aqueue) + 1
              /\ \A i \in 1..Len(aqueue) : aqueue'[i] = aqueue[i]
              /\ aqueue'[Len(aqueue) + 1] = posted[1]
    BY <1>6, Offered
  <2>2. hand' = hand
    BY <1>6 DEF Offer
  <2>3. \A i \in 1..Len(aqueue') :
          \/ i \in 1..Len(aqueue) /\ aqueue'[i] = aqueue[i]
          \/ (\A j \in 1..Len(aqueue) : j < i) /\ i = Len(aqueue') /\ aqueue'[i] = posted[1]
    <3>1. CASE aqueue' = aqueue
      BY <3>1
    <3>2. CASE /\ Len(aqueue') = Len(aqueue) + 1
               /\ \A i \in 1..Len(aqueue) : aqueue'[i] = aqueue[i]
               /\ aqueue'[Len(aqueue) + 1] = posted[1]
      <4>1. \A i \in 1..Len(aqueue') : i \in 1..Len(aqueue) \/ i = Len(aqueue) + 1
        BY <2>1, <3>2
      <4>2. \A j \in 1..Len(aqueue) : j < Len(aqueue) + 1
        BY <2>1
      <4> QED
        BY <3>2, <4>1, <4>2
    <3> QED
      BY <2>1, <3>1, <3>2
  <2>4. Len(aqueue') \in Nat
    BY <2>1
  <2>5. ASSUME NEW i \in 1..Len(aqueue'), NEW j \in 1..Len(aqueue'), i < j, aqueue'[j].seq < aqueue'[i].seq
        PROVE  aqueue'[j].change \in excused'
    <3>1. i # Len(aqueue')
      BY <2>4, <2>5
    <3>2. i \in 1..Len(aqueue) /\ aqueue'[i] = aqueue[i]
      BY <2>3, <3>1
    <3>3. CASE j \in 1..Len(aqueue) /\ aqueue'[j] = aqueue[j]
      BY <1>1, <2>5, <3>2, <3>3 DEF Behind
    <3>4. CASE aqueue'[j] = posted[1]
      BY <1>1, <2>1, <2>5, <3>2, <3>4 DEF Behind
    <3> QED
      BY <2>3, <3>3, <3>4
  <2>6. ASSUME NEW i \in 1..Len(posted'), NEW j \in 1..Len(posted'), i < j, posted'[j].seq < posted'[i].seq
        PROVE  posted'[j].change \in excused'
    <3>1. i + 1 < j + 1
      BY <2>1, <2>6
    <3> QED
      BY <1>1, <2>1, <2>6, <3>1 DEF Behind
  <2>7. ASSUME NEW i \in 1..Len(aqueue'), NEW j \in 1..Len(posted'), posted'[j].seq < aqueue'[i].seq
        PROVE  posted'[j].change \in excused'
    <3>1. j + 1 \in 1..Len(posted) /\ 1 < j + 1 /\ posted'[j] = posted[j + 1]
      BY <2>1
    <3>2. CASE i \in 1..Len(aqueue) /\ aqueue'[i] = aqueue[i]
      BY <1>1, <2>7, <3>1, <3>2 DEF Behind
    <3>3. CASE aqueue'[i] = posted[1]
      BY <1>1, <2>1, <2>7, <3>1, <3>3 DEF Behind
    <3> QED
      BY <2>3, <3>2, <3>3
  <2>8. ASSUME NEW i \in 1..Len(aqueue'), NEW q \in Publishers, hand[q] # NoEvent,
               hand[q].seq < aqueue'[i].seq
        PROVE  hand[q].change \in excused'
    <3>1. CASE i \in 1..Len(aqueue) /\ aqueue'[i] = aqueue[i]
      BY <1>1, <2>8, <3>1 DEF Behind
    <3>2. CASE aqueue'[i] = posted[1]
      BY <1>1, <2>1, <2>8, <3>2 DEF Behind
    <3> QED
      BY <2>3, <3>1, <3>2
  <2>9. \A i \in 1..Len(posted'), q \in Publishers :
          hand[q] # NoEvent /\ hand[q].seq < posted'[i].seq => hand[q].change \in excused'
    BY <1>1, <2>1 DEF Behind
  <2> QED
    BY <2>2, <2>5, <2>6, <2>7, <2>8, <2>9 DEF Behind
<1>7. CASE Deliver
  <2>1. /\ Len(aqueue) \in Nat \ {0} /\ Len(aqueue') = Len(aqueue) - 1
        /\ \A i \in 1..Len(aqueue') : i + 1 \in 1..Len(aqueue) /\ 1 < i + 1 /\ aqueue'[i] = aqueue[i + 1]
    BY <1>7, Delivered
  <2>2. UNCHANGED <<hand, posted>>
    BY <1>7 DEF Deliver
  <2>3. ASSUME NEW i \in 1..Len(aqueue'), NEW j \in 1..Len(aqueue'), i < j, aqueue'[j].seq < aqueue'[i].seq
        PROVE  aqueue'[j].change \in excused'
    <3>1. i + 1 < j + 1
      BY <2>1, <2>3
    <3> QED
      BY <1>1, <2>1, <2>3, <3>1 DEF Behind
  <2>4. \A i \in 1..Len(aqueue'), j \in 1..Len(posted) :
          posted[j].seq < aqueue'[i].seq => posted[j].change \in excused'
    BY <1>1, <2>1 DEF Behind
  <2>5. \A i \in 1..Len(aqueue'), q \in Publishers :
          hand[q] # NoEvent /\ hand[q].seq < aqueue'[i].seq => hand[q].change \in excused'
    BY <1>1, <2>1 DEF Behind
  <2> QED
    BY <1>1, <2>2, <2>3, <2>4, <2>5 DEF Behind
<1>8. CASE ResyncAfterOverflow
  <2>1. aqueue' = <<>> /\ UNCHANGED <<hand, posted>>
    BY <1>8 DEF ResyncAfterOverflow
  <2>2. \A i \in 1..Len(aqueue') : FALSE
    BY <2>1
  <2> QED
    BY <1>1, <2>1, <2>2 DEF Behind
<1>9. ASSUME Drop \/ Restart
      PROVE  Behind'
  BY <1>3, <1>9 DEF Drop, Restart, Disconnect
<1>10. ASSUME Connect \/ Greet \/ CheckReplay \/ TakeSnapshot \/ ReplayNext \/ Receive
       PROVE  Behind'
  <2>1. UNCHANGED <<hand, posted, aqueue>>
    BY <1>10 DEF Connect, Greet, CheckReplay, TakeSnapshot, ReplayNext, Receive, ReceiveHello,
                 ReceiveChange, ReceiveResync
  <2> QED
    BY <1>2, <2>1
<1>11. CASE UNCHANGED vars
  BY <1>2, <1>11 DEF vars
<1> QED
  BY <1>4, <1>5, <1>6, <1>7, <1>8, <1>9, <1>10, <1>11 DEF Next, Generate

----------------------------------------------------------------------------
\* Every change reaches the client, or has fallen in a named hole.

\* The number that this process would have given the event of a change: at most 0 for
\* the changes of an earlier one.
EvSeq(c) == c - (made - seq)

\* The changes the client still has to hear of.
Open == Committed \ (known \union Private \union excused)

InReplay(c) == \E i \in 1..Len(replay) : replay[i].change = c
InWire(c) == \E i \in 1..Len(wire) : IsChange(i) /\ wire[i].change = c

\* A resync frame is coming, and no frame before it takes the client's cursor past the change.
ToResync(c) ==
  \E i \in 1..Len(wire) :
    /\ wire[i].kind = "resync"
    /\ \A j \in 1..Len(wire) :
         j < i /\ (IsChange(j) \/ (IsHello(j) /\ since = NoCursor)) => wire[j].seq < EvSeq(c)

\* The client's cursor has not passed the change, if it says anything.
NotPassed(c) == since = NoCursor \/ stale \/ EvSeq(c) > since

\* The connection still has the change before it.
Covered(c) == InReplay(c) \/ InWire(c) \/ EvSeq(c) > Target \/ ToResync(c)

Due(c) ==
  /\ NotPassed(c)
  /\ gen = "snapshot" => EvSeq(c) > asked
  /\ gen \in {"replay", "live"} => Covered(c)

Reached == mounted => \A c \in Open : Due(c)

\* At first nothing was committed.
LEMMA InitReached == ASSUME Init PROVE Reached
BY DEF Init, Reached

\* The number of an open change is not ahead of the bus.
LEMMA OpenNumber ==
  ASSUME TypeOK, NEW c \in Committed
  PROVE  c \in Int /\ EvSeq(c) \in Int /\ EvSeq(c) <= seq
<1>1. made \in Nat /\ seq \in Nat /\ c \in 1..made
  BY BoundsAssumption DEF TypeOK, Committed
<1> QED
  BY <1>1 DEF EvSeq

\* An event carries the change of its number.
LEMMA OursNumber ==
  ASSUME TypeOK, NEW e \in Ours
  PROVE  EvSeq(e.change) = e.seq
<1>1. made \in Nat /\ seq \in Nat /\ e.seq \in Nat /\ e.change = e.seq + (made - seq)
  BY BoundsAssumption, OursAre DEF TypeOK
<1> QED
  BY <1>1 DEF EvSeq

\* So does a frame.
LEMMA FrameNumber ==
  ASSUME TypeOK, Numbered, NEW i \in 1..Len(wire), IsChange(i)
  PROVE  EvSeq(wire[i].change) = wire[i].seq
<1>1. wire[i] \in OurFrames
  BY DEF Numbered
<1>2. [seq |-> wire[i].seq, change |-> wire[i].change] \in Ours
  BY <1>1 DEF OurFrames, IsChange
<1> QED
  BY <1>2, OursNumber

\* A step that makes no change, and lets the client forget none, opens none.
LEMMA OpenBefore ==
  ASSUME made' = made, known \subseteq known', excused \subseteq excused', NEW c \in Open'
  PROVE  c \in Open /\ c \in Committed /\ c \notin Private
BY DEF Open, Committed

\* What follows when only the connection's own business changes.
LEMMA ReachedSame ==
  ASSUME Reached, UNCHANGED <<made, seq, since, stale, mounted, known, replay, wire, cursor>>,
         excused \subseteq excused',
         gen' \in {"snapshot", "replay", "live"} => gen' = gen /\ asked' = asked
  PROVE  Reached'
<1>1. SUFFICES ASSUME mounted, NEW c \in Open'
      PROVE  Due(c)'
  BY DEF Reached
<1>2. c \in Open
  BY <1>1, OpenBefore
<1>3. EvSeq(c)' = EvSeq(c) /\ Target' = Target
  BY DEF EvSeq, Target
<1>4. NotPassed(c) => NotPassed(c)'
  BY <1>3 DEF NotPassed
<1>5. Covered(c) => Covered(c)'
  BY <1>3 DEF Covered, InReplay, InWire, ToResync, IsChange, IsHello
<1> QED
  BY <1>1, <1>2, <1>3, <1>4, <1>5 DEF Reached, Due

\* A frame that is added takes nothing away.
LEMMA StillCovered ==
  ASSUME TypeOK, Numbered, NEW c,
         Len(wire') >= Len(wire), \A i \in 1..Len(wire) : wire'[i] = wire[i],
         wire \in Seq(OurFrames), wire' \in Seq(OurFrames),
         UNCHANGED <<made, seq, since>>
  PROVE  /\ EvSeq(c)' = EvSeq(c)
         /\ InWire(c) => InWire(c)'
         /\ ToResync(c) => ToResync(c)'
<1>1. Len(wire) \in Nat /\ Len(wire') \in Nat
  OBVIOUS
<1>2. \A i \in 1..Len(wire) : i \in 1..Len(wire')
  BY <1>1
<1>3. EvSeq(c)' = EvSeq(c)
  BY DEF EvSeq
<1>4. ASSUME ToResync(c) PROVE ToResync(c)'
  <2>1. PICK i \in 1..Len(wire) :
          /\ wire[i].kind = "resync"
          /\ \A j \in 1..Len(wire) :
               j < i /\ (IsChange(j) \/ (IsHello(j) /\ since = NoCursor)) => wire[j].seq < EvSeq(c)
    BY <1>4 DEF ToResync
  <2>2. i \in 1..Len(wire') /\ wire'[i].kind = "resync"
    BY <1>2, <2>1
  <2>3. ASSUME NEW j \in 1..Len(wire'), j < i, IsChange(j)' \/ (IsHello(j)' /\ since' = NoCursor)
        PROVE  wire'[j].seq < EvSeq(c)
    <3>1. j \in 1..Len(wire)
      BY <1>1, <2>3
    <3> QED
      BY <2>1, <2>3, <3>1 DEF IsChange, IsHello
  <2> QED
    BY <1>3, <2>2, <2>3 DEF ToResync
<1>5. InWire(c) => InWire(c)'
  BY <1>2 DEF InWire, IsChange
<1> QED
  BY <1>3, <1>4, <1>5

\* Sending does not shorten the wire.
LEMMA SendGrows ==
  ASSUME TypeOK, Numbered, NEW f \in OurFrames, Send(f)
  PROVE  Len(wire') >= Len(wire) /\ \A i \in 1..Len(wire) : wire'[i] = wire[i]
<1>1. Len(wire) \in Nat /\ Len(wire') = Len(wire) + 1 /\ \A i \in 1..Len(wire) : wire'[i] = wire[i]
  BY WireSent
<1> QED
  BY <1>1

\* The event that is sent covers its change, unless the actor may not see it.
LEMMA SentCovers ==
  ASSUME TypeOK, Numbered, NEW e \in Ours, SendChange(e)
  PROVE  /\ Len(wire') >= Len(wire) /\ \A i \in 1..Len(wire) : wire'[i] = wire[i]
         /\ e.change \notin Private => InWire(e.change)'
<1>1. CASE e.change \in Private
  <2>1. wire' = wire /\ Len(wire) \in Nat
    BY <1>1 DEF SendChange, Numbered
  <2> QED
    BY <1>1, <2>1
<1>2. CASE e.change \notin Private
  <2>1. /\ Change(e) \in OurFrames /\ Change(e).kind = "change" /\ Change(e).change = e.change
        /\ Send(Change(e))
    BY <1>2, OursAre DEF SendChange, Change
  <2>2. Len(wire) \in Nat /\ Len(wire') = Len(wire) + 1 /\ wire'[Len(wire) + 1] = Change(e)
    BY <2>1, WireSent
  <2>3. Len(wire) + 1 \in 1..Len(wire')
    BY <2>2
  <2>4. InWire(e.change)'
    BY <2>1, <2>2, <2>3 DEF InWire, IsChange
  <2> QED
    BY <2>1, <2>4, SendGrows
<1> QED
  BY <1>1, <1>2

\* The number tells the change.
LEMMA SameNumber ==
  ASSUME TypeOK, NEW e \in Ours, NEW c \in Committed, e.seq = EvSeq(c)
  PROVE  e.change = c
<1>1. made \in Int /\ seq \in Int
  BY BoundsAssumption DEF TypeOK, Cursors, Changes
<1>2. c \in Int
  BY OpenNumber
<1>3. e.change \in Int
  BY OursAre, BoundsAssumption DEF Changes
<1>4. EvSeq(e.change) = EvSeq(c)
  BY OursNumber
<1> QED
  BY <1>1, <1>2, <1>3, <1>4 DEF EvSeq

\* A change in the snapshot is after the cursor.
LEMMA SnapshotChange ==
  ASSUME TypeOK, Numbered, NEW s \in Int, NEW c \in ChangesIn(SnapshotSince(s))
  PROVE  EvSeq(c) > s /\ \E i \in 1..Len(SnapshotSince(s)) : SnapshotSince(s)[i].change = c
<1> DEFINE q == SnapshotSince(s)
<1>1. q \in Seq(Ours) /\ \A i \in 1..Len(q) : q[i].seq > s
  BY Snapshot
<1>2. c \in ChangesIn(q)
  OBVIOUS
<1> HIDE DEF q
<1>3. PICK i \in 1..Len(q) : q[i].change = c
  BY <1>1, <1>2 DEF ChangesIn, ToSet
<1>4. q[i] \in Ours
  BY <1>1
<1>5. EvSeq(c) > s
  BY <1>1, <1>3, <1>4, OursNumber
<1> QED
  BY <1>3, <1>5 DEF q

\* What can be replayed is in the ring, and the snapshot has it.
LEMMA ReplayHolds ==
  ASSUME TypeOK, Numbered, NEW s \in Int, CanReplay(s), NEW c \in Committed, EvSeq(c) > s
  PROVE  \E i \in 1..Len(SnapshotSince(s)) : SnapshotSince(s)[i].change = c
<1> DEFINE q == SnapshotSince(s)
           n == EvSeq(c)
           k == n - (seq - Len(ring))
<1>1. /\ Len(ring) \in Nat /\ seq \in Nat /\ Len(ring) <= seq /\ n \in Int /\ n <= seq
      /\ \A i \in 1..Len(ring) : ring[i] \in Ours /\ ring[i].seq = seq - Len(ring) + i
  BY BoundsAssumption, OpenNumber, SMTT(30) DEF TypeOK, Numbered
<1>2. n > s
  OBVIOUS
<1>3. \A i \in 1..Len(ring) : ring[i].seq > s => \E j \in 1..Len(q) : q[j] = ring[i]
  BY Snapshot
<1> HIDE DEF q, n
<1>4. ring # <<>> /\ s >= ring[1].seq - 1
  <2>1. ring = <<>> => s = seq
    BY DEF CanReplay
  <2>2. ring # <<>>
    BY <1>1, <1>2, <2>1
  <2> QED
    BY <2>2 DEF CanReplay
<1>5. ring[1].seq = seq - Len(ring) + 1
  <2>1. 1 \in 1..Len(ring)
    BY <1>4 DEF Numbered
  <2> QED
    BY <1>1, <2>1
<1>6. k \in 1..Len(ring) /\ ring[k].seq = n
  <2>1. k \in 1..Len(ring)
    BY <1>1, <1>2, <1>4, <1>5
  <2>2. ring[k].seq = seq - Len(ring) + k
    BY <1>1, <2>1
  <2> QED
    BY <1>1, <2>1, <2>2
<1> HIDE DEF k
<1>7. PICK j \in 1..Len(q) : q[j] = ring[k]
  BY <1>2, <1>3, <1>6
<1>8. ring[k].change = c
  BY <1>1, <1>6, SameNumber DEF n
<1> QED
  BY <1>7, <1>8 DEF q

\* A new change is after everything the connection has covered.
LEMMA StampReached ==
  ASSUME TypeOK, Numbered, Staged, Reached, NEW p \in Publishers, Stamp(p)
  PROVE  Reached'
<1>1. /\ made' = made + 1 /\ seq' = seq + 1
      /\ UNCHANGED <<since, stale, mounted, known, excused, replay, wire, cursor, gen, asked>>
  BY DEF Stamp, subVars, genVars, clientVars
<1>2. SUFFICES ASSUME mounted, NEW c \in Open'
      PROVE  Due(c)'
  BY <1>1 DEF Reached
<1>3. /\ made \in Nat /\ seq \in Nat /\ since \in Int /\ asked \in Int
      /\ Target \in Nat /\ Target <= seq /\ AskedFits /\ ClientFits
  BY BoundsAssumption, TargetBound DEF TypeOK, Cursors, NoCursor, Staged
<1>4. c \in 1..made + 1
  BY <1>1 DEF Open, Committed
<1>5. EvSeq(c)' = EvSeq(c) /\ Target' = Target
  BY <1>1, <1>3, <1>4 DEF EvSeq, Target
<1>6. CASE c \in Open
  <2>1. Due(c)
    BY <1>2, <1>6 DEF Reached
  <2>2. NotPassed(c)'
    BY <1>1, <1>5, <2>1 DEF NotPassed, Due
  <2>3. Covered(c) => Covered(c)'
    BY <1>1, <1>5 DEF Covered, InReplay, InWire, ToResync, IsChange, IsHello
  <2> QED
    BY <1>1, <1>5, <2>1, <2>2, <2>3 DEF Due
<1>7. CASE c \notin Open
  <2>1. c = made + 1
    BY <1>1, <1>3, <1>4, <1>7 DEF Open, Committed
  <2>2. EvSeq(c)' = seq + 1
    BY <1>1, <1>3, <2>1 DEF EvSeq
  <2>3. since' = NoCursor \/ stale' \/ EvSeq(c)' > since'
    BY <1>1, <1>3, <2>2 DEF ClientFits
  <2>4. gen' = "snapshot" => EvSeq(c)' > asked'
    BY <1>1, <1>3, <2>2 DEF AskedFits
  <2>5. EvSeq(c)' > Target'
    BY <1>3, <1>5, <2>2
  <2> QED
    BY <2>3, <2>4, <2>5 DEF Due, NotPassed, Covered
<1> QED
  BY <1>6, <1>7

\* The greeting excuses what it skips.
LEMMA GreetReached ==
  ASSUME TypeOK, Numbered, Staged, Reached, Greet
  PROVE  Reached'
<1>1. /\ UNCHANGED <<made, seq, since, stale, mounted, known>>
      /\ gen' = IF asked = NoCursor THEN "live" ELSE "check"
      /\ excused' = IF asked = NoCursor /\ mounted THEN excused \union Unknown ELSE excused
  BY DEF Greet, busVars, clientVars
<1>2. SUFFICES ASSUME mounted, NEW c \in Open'
      PROVE  Due(c)'
  BY <1>1 DEF Reached
<1>3. c \in Open /\ c \in Unknown
  BY <1>1 DEF Open, Unknown, Committed
<1>4. asked # NoCursor
  BY <1>1, <1>2, <1>3 DEF Open
<1>5. NotPassed(c)'
  BY <1>1, <1>2, <1>3 DEF Reached, Due, NotPassed, EvSeq
<1> QED
  BY <1>1, <1>4, <1>5 DEF Due

\* What can_replay finds it cannot give is asked for by the resync frame.
LEMMA CheckReached ==
  ASSUME TypeOK, Numbered, Staged, Reached, CheckReplay
  PROVE  Reached'
<1>1. UNCHANGED <<made, seq, since, stale, mounted, known, asked, replay>> /\ gen = "check"
      /\ excused \subseteq excused'
  BY DEF CheckReplay, busVars, clientVars
<1>2. SUFFICES ASSUME mounted, NEW c \in Open'
      PROVE  Due(c)'
  BY <1>1 DEF Reached
<1>3. c \in Open /\ c \in Unknown /\ EvSeq(c)' = EvSeq(c) /\ asked = since /\ asked # NoCursor
      /\ asked \in Int /\ WireShaped
  BY <1>1, BoundsAssumption DEF Open, Unknown, Committed, EvSeq, Staged, AskedFits, TypeOK, Cursors, NoCursor
<1>4. NotPassed(c) /\ NotPassed(c)'
  BY <1>1, <1>2, <1>3 DEF Reached, Due, NotPassed
<1>5. CASE CanReplay(asked)
  <2>1. gen' = "snapshot"
        /\ excused' = IF stale THEN excused \union (Unknown \ ChangesIn(SnapshotSince(asked))) ELSE excused
    BY <1>5 DEF CheckReplay
  <2>2. EvSeq(c) > asked
    <3>1. CASE stale
      <4>1. c \in ChangesIn(SnapshotSince(asked))
        BY <1>3, <2>1, <3>1 DEF Open
      <4> QED
        BY <1>3, <4>1, SnapshotChange
    <3>2. CASE ~ stale
      BY <1>3, <1>4, <3>2 DEF NotPassed
    <3> QED
      BY <3>1, <3>2
  <2> QED
    BY <1>1, <1>3, <1>4, <2>1, <2>2 DEF Due
<1>6. CASE ~ CanReplay(asked)
  <2>1. gen' = "live" /\ Send(Resync) /\ Resync \in OurFrames /\ Resync.kind = "resync"
    BY <1>6, OtherFrames DEF CheckReplay, Resync
  <2>2. /\ Len(wire) \in Nat /\ Len(wire') = Len(wire) + 1
        /\ \A i \in 1..Len(wire) : wire'[i] = wire[i]
        /\ wire'[Len(wire) + 1] = Resync
    BY <2>1, WireSent
  <2>3. Len(wire) + 1 \in 1..Len(wire') /\ \A j \in 1..Len(wire') : j < Len(wire) + 1 => j \in 1..Len(wire)
    BY <2>2
  <2>4. \A j \in 1..Len(wire) : wire[j].kind = "hello"
    BY <1>1, <1>3 DEF WireShaped, IsHello
  <2>5. ToResync(c)'
    BY <1>1, <1>3, <2>1, <2>2, <2>3, <2>4 DEF ToResync, IsChange, IsHello
  <2> QED
    BY <1>4, <2>1, <2>5 DEF Due, Covered
<1> QED
  BY <1>5, <1>6

\* The snapshot holds what follows the cursor, or excuses what it lacks.
LEMMA SnapshotReached ==
  ASSUME TypeOK, Numbered, Staged, Reached, TakeSnapshot
  PROVE  Reached'
<1>1. /\ UNCHANGED <<made, seq, since, stale, mounted, known, asked>> /\ gen = "snapshot" /\ gen' = "replay"
      /\ excused \subseteq excused' /\ replay' = SnapshotSince(asked)
      /\ excused' = IF CanReplay(asked)
                    THEN excused
                    ELSE excused \union (Unknown \ ChangesIn(SnapshotSince(asked)))
  BY DEF TakeSnapshot, busVars, clientVars
<1>2. SUFFICES ASSUME mounted, NEW c \in Open'
      PROVE  Due(c)'
  BY <1>1 DEF Reached
<1>3. c \in Open /\ c \in Unknown /\ c \in Committed /\ asked \in Int
  BY <1>1, BoundsAssumption DEF Open, Unknown, Committed, TypeOK, Cursors, NoCursor
<1>4. EvSeq(c) > asked /\ NotPassed(c)'
  BY <1>1, <1>2, <1>3 DEF Reached, Due, NotPassed, EvSeq
<1>5. \E i \in 1..Len(SnapshotSince(asked)) : SnapshotSince(asked)[i].change = c
  <2>1. CASE CanReplay(asked)
    BY <1>3, <1>4, <2>1, ReplayHolds
  <2>2. CASE ~ CanReplay(asked)
    <3>1. c \in ChangesIn(SnapshotSince(asked))
      BY <1>1, <1>3, <2>2 DEF Open
    <3> QED
      BY <1>3, <3>1, SnapshotChange
  <2> QED
    BY <2>1, <2>2
<1>6. InReplay(c)'
  BY <1>1, <1>5 DEF InReplay
<1> QED
  BY <1>1, <1>4, <1>6 DEF Due, Covered

\* A replayed event moves from the snapshot to the wire.
LEMMA ReplayReached ==
  ASSUME TypeOK, Numbered, Staged, Reached, Numbered', ReplayNext
  PROVE  Reached'
<1>1. UNCHANGED <<made, seq, since, stale, mounted, known, asked, excused>> /\ gen = "replay"
      /\ gen' \in {"replay", "live"}
  BY DEF ReplayNext, busVars, clientVars
<1>2. SUFFICES ASSUME mounted, NEW c \in Open'
      PROVE  Due(c)'
  BY <1>1 DEF Reached
<1>3. c \in Open /\ c \notin Private
  BY <1>1, OpenBefore
<1>4. NotPassed(c)' /\ Covered(c)
  BY <1>1, <1>2, <1>3 DEF Reached, Due, NotPassed, EvSeq
<1>5. Covered(c)'
  <2>1. CASE replay = <<>>
    <3>1. UNCHANGED <<cursor, replay, wire>>
      BY <2>1 DEF ReplayNext
    <3> QED
      BY <1>1, <1>4, <3>1 DEF Covered, InReplay, InWire, ToResync, IsChange, IsHello, EvSeq, Target
  <2>2. CASE replay # <<>>
    <3>1. /\ Tail(replay) \in Seq(Ours) /\ Len(Tail(replay)) = Len(replay) - 1
          /\ Len(replay) \in Nat \ {0} /\ Head(replay) = replay[1] /\ replay[1] \in Ours
          /\ \A i \in 1..Len(replay) - 1 : Tail(replay)[i] = replay[i + 1]
      BY <2>2, TailOf DEF Numbered
    <3>8. PICK e \in Ours : e = replay[1]
      BY <3>1
    <3>2. cursor' = e.seq /\ SendChange(e) /\ replay' = Tail(replay)
      BY <2>2, <3>1, <3>8 DEF ReplayNext
    <3>3. /\ Len(wire') >= Len(wire) /\ \A i \in 1..Len(wire) : wire'[i] = wire[i]
          /\ e.change \notin Private => InWire(e.change)'
      BY <3>2, SentCovers
    <3>4. wire \in Seq(OurFrames) /\ wire' \in Seq(OurFrames)
      BY <3>2, SendChangeTypes DEF Numbered
    <3>5. EvSeq(c)' = EvSeq(c) /\ (InWire(c) => InWire(c)') /\ (ToResync(c) => ToResync(c)')
      BY <1>1, <3>3, <3>4, StillCovered
    <3>6. Target' = Target
      <4>1. CASE Len(replay) = 1
        <5>1. replay' = <<>>
          BY <3>1, <3>2, <4>1
        <5> QED
          BY <2>2, <3>2, <3>8, <4>1, <5>1 DEF Target
      <4>2. CASE Len(replay) # 1
        <5>3. Len(replay') = Len(replay) - 1 /\ Len(replay) - 1 # 0
          BY <3>1, <3>2, <4>2
        <5>1. Len(replay') \in 1..Len(replay) - 1 /\ Len(replay') + 1 = Len(replay) /\ replay' # <<>>
          BY <3>1, <5>3
        <5>2. replay'[Len(replay')] = replay[Len(replay)]
          BY <3>1, <3>2, <5>1
        <5> QED
          BY <2>2, <5>1, <5>2 DEF Target
      <4> QED
        BY <4>1, <4>2
    <3>7. ASSUME InReplay(c) PROVE InReplay(c)' \/ InWire(c)'
      <4>1. PICK i \in 1..Len(replay) : replay[i].change = c
        BY <3>7 DEF InReplay
      <4>2. CASE i = 1
        <5>1. e.change = c
          BY <3>8, <4>1, <4>2
        <5> QED
          BY <1>3, <3>3, <5>1
      <4>3. CASE i # 1
        <5>1. i - 1 \in 1..Len(replay) - 1 /\ (i - 1) + 1 = i
          BY <3>1, <4>3
        <5>2. i - 1 \in 1..Len(replay') /\ replay'[i - 1] = replay[i]
          BY <3>1, <3>2, <5>1
        <5> QED
          BY <4>1, <5>2 DEF InReplay
      <4> QED
        BY <4>2, <4>3
    <3> QED
      BY <1>4, <3>5, <3>6, <3>7 DEF Covered
  <2> QED
    BY <2>1, <2>2
<1> QED
  BY <1>1, <1>4, <1>5 DEF Due

\* The resync frame after an overflow comes before the client's cursor can pass
\* what was dropped.
LEMMA OverflowReached ==
  ASSUME TypeOK, Numbered, Staged, Ordered, AboveFloor, Reached, ResyncAfterOverflow
  PROVE  Reached'
<1>1. UNCHANGED <<made, seq, since, stale, mounted, known, asked, excused>>
      /\ gen = "live" /\ gen' = "live" /\ replay = <<>> /\ Send(Resync) /\ WireShaped /\ ClientFits
      /\ cursor \in Nat
  BY BoundsAssumption
     DEF ResyncAfterOverflow, busVars, clientVars, Staged, WireShaped, TypeOK, Cursors
<1>2. SUFFICES ASSUME mounted, NEW c \in Open'
      PROVE  Due(c)'
  BY <1>1 DEF Reached
<1>3. c \in Open /\ c \in Committed
  BY <1>1, OpenBefore
<1>4. NotPassed(c)' /\ Covered(c)
  BY <1>1, <1>2, <1>3 DEF Reached, Due, NotPassed, EvSeq
<1>5. Resync \in OurFrames /\ Resync.kind = "resync"
  BY OtherFrames DEF Resync
<1>6. /\ Len(wire) \in Nat /\ Len(wire') = Len(wire) + 1
      /\ \A i \in 1..Len(wire) : wire'[i] = wire[i]
      /\ wire'[Len(wire) + 1] = Resync
  BY <1>1, <1>5, WireSent
<1>7. EvSeq(c)' = EvSeq(c) /\ (InWire(c) => InWire(c)') /\ (ToResync(c) => ToResync(c)')
  <2>1. wire \in Seq(OurFrames) /\ wire' \in Seq(OurFrames)
    BY <1>1, <1>5, SendTypes DEF Numbered
  <2>2. Len(wire') >= Len(wire)
    BY <1>6
  <2> QED
    BY <1>1, <1>6, <2>1, <2>2, StillCovered
<1>8. ASSUME EvSeq(c) > Target PROVE ToResync(c)'
  <2>1. Len(wire) + 1 \in 1..Len(wire') /\ \A j \in 1..Len(wire') : j < Len(wire) + 1 => j \in 1..Len(wire)
    BY <1>6
  <2>2. EvSeq(c) > cursor /\ EvSeq(c) \in Int
    BY <1>1, <1>3, <1>8, OpenNumber DEF Target
  <2>3. \A j \in 1..Len(wire) : IsChange(j) => wire[j].seq < EvSeq(c)
    <3>1. \A j \in 1..Len(wire) : wire[j].seq \in Nat /\ (IsChange(j) => wire[j].seq <= cursor)
      BY WireNumbers DEF Ordered
    <3> QED
      BY <1>1, <2>2, <3>1
  <2>4. ASSUME NEW j \in 1..Len(wire), IsHello(j), since = NoCursor
        PROVE  wire[j].seq < EvSeq(c)
    <3>1. j = 1 /\ wire # <<>> /\ ~ stale
      BY <1>1, <2>4 DEF WireShaped, ClientFits
    <3>2. Floor = wire[j].seq /\ wire[j].seq \in Nat
      BY <2>4, <3>1, WireNumbers DEF Floor
    <3>3. cursor >= Floor
      BY <1>1, <3>1 DEF AboveFloor, Greeted
    <3> QED
      BY <1>1, <2>2, <3>2, <3>3
  <2>5. \A j \in 1..Len(wire) :
          IsChange(j) \/ (IsHello(j) /\ since = NoCursor) => wire[j].seq < EvSeq(c)
    BY <2>3, <2>4
  <2> QED
    BY <1>1, <1>5, <1>6, <1>7, <2>1, <2>5 DEF ToResync, IsChange, IsHello
<1>9. ~ InReplay(c)
  BY <1>1 DEF InReplay
<1> QED
  BY <1>1, <1>4, <1>7, <1>8, <1>9 DEF Due, Covered

\* What lies between the cursor and the event at the head of the queue was overtaken.
LEMMA HeadOvertakes ==
  ASSUME TypeOK, Numbered, Staged, Ahead, Behind, Deliver,
         NEW c \in Committed, EvSeq(c) > Target, EvSeq(c) < aqueue[1].seq
  PROVE  c \in excused
<1> DEFINE n == EvSeq(c)
<1>1. gen = "live" /\ ~ overflowed
  BY DEF Deliver
<1>2. n \in 1..seq /\ n > Target /\ n < aqueue[1].seq
  BY OpenNumber, TargetBound, BoundsAssumption DEF TypeOK
<1>3. /\ 1 \in 1..Len(aqueue) /\ aqueue[1].seq \in Nat
      /\ \A i \in 1..Len(aqueue) : i = 1 \/ 1 < i
  <2>1. 1 \in 1..Len(aqueue) /\ Len(aqueue) \in Nat /\ aqueue[1] \in Ours
    BY Delivered
  <2> QED
    BY <2>1, OursAre
<1>4. /\ \A i \in 1..Len(posted) : posted[i] \in Ours
      /\ \A i \in 1..Len(aqueue) : aqueue[i] \in Ours
      /\ \A p \in Publishers : hand[p] # NoEvent => hand[p] \in Ours
  BY WayNumbers
<1> HIDE DEF n
<1>5. OnWay(n)
  BY <1>1, <1>2 DEF Ahead, Greeted
<1>6. CASE \E p \in Publishers : hand[p].seq = n
  <2>1. PICK p \in Publishers : hand[p].seq = n
    BY <1>6
  <2>2. hand[p] # NoEvent
    BY <1>2, <2>1 DEF NoEvent
  <2>3. hand[p].change = c
    BY <1>4, <2>1, <2>2, SameNumber DEF n
  <2> QED
    BY <1>2, <1>3, <2>1, <2>2, <2>3 DEF Behind
<1>7. CASE \E i \in 1..Len(posted) : posted[i].seq = n
  <2>1. PICK i \in 1..Len(posted) : posted[i].seq = n
    BY <1>7
  <2>2. posted[i].change = c
    BY <1>4, <2>1, SameNumber DEF n
  <2> QED
    BY <1>2, <1>3, <2>1, <2>2 DEF Behind
<1>8. CASE \E i \in 1..Len(aqueue) : aqueue[i].seq = n
  <2>1. PICK i \in 1..Len(aqueue) : aqueue[i].seq = n
    BY <1>8
  <2>2. aqueue[i].change = c
    BY <1>4, <2>1, SameNumber DEF n
  <2>3. i # 1
    BY <1>2, <1>3, <2>1
  <2> QED
    BY <1>2, <1>3, <2>1, <2>2, <2>3 DEF Behind
<1> QED
  BY <1>5, <1>6, <1>7, <1>8 DEF OnWay

\* A delivered event covers its change; what it overtakes is excused.
LEMMA DeliverReached ==
  ASSUME TypeOK, Numbered, Staged, Ahead, Behind, Reached, Deliver
  PROVE  Reached'
<1>1. /\ UNCHANGED <<made, seq, since, stale, mounted, known, asked, excused, replay>>
      /\ gen = "live" /\ gen' = "live" /\ replay = <<>> /\ cursor \in Nat
  BY BoundsAssumption
     DEF Deliver, busVars, clientVars, Staged, WireShaped, TypeOK, Cursors
<1>2. SUFFICES ASSUME mounted, NEW c \in Open'
      PROVE  Due(c)'
  BY <1>1 DEF Reached
<1>3. c \in Open /\ c \in Committed /\ c \notin Private /\ EvSeq(c) \in Int
  BY <1>1, OpenBefore, OpenNumber
<1>4. NotPassed(c)' /\ Covered(c)
  BY <1>1, <1>2, <1>3 DEF Reached, Due, NotPassed, EvSeq
<1>5. PICK e \in Ours : e = aqueue[1] /\ Head(aqueue) = e
  BY Delivered
<1>6. Covered(c)'
  <2>1. CASE e.seq <= cursor
    <3>1. UNCHANGED <<cursor, wire>>
      BY <1>5, <2>1 DEF Deliver
    <3> QED
      BY <1>1, <1>4, <3>1 DEF Covered, InReplay, InWire, ToResync, IsChange, IsHello, EvSeq, Target
  <2>2. CASE ~ (e.seq <= cursor)
    <3>1. cursor' = e.seq /\ SendChange(e) /\ e.seq \in Nat
      BY <1>5, <2>2, OursAre DEF Deliver
    <3>2. /\ Len(wire') >= Len(wire) /\ \A i \in 1..Len(wire) : wire'[i] = wire[i]
          /\ e.change \notin Private => InWire(e.change)'
      BY <3>1, SentCovers
    <3>3. wire \in Seq(OurFrames) /\ wire' \in Seq(OurFrames)
      BY <3>1, SendChangeTypes DEF Numbered
    <3>4. EvSeq(c)' = EvSeq(c) /\ (InWire(c) => InWire(c)') /\ (ToResync(c) => ToResync(c)')
      BY <1>1, <3>2, <3>3, StillCovered
    <3>5. ~ InReplay(c) /\ Target = cursor /\ Target' = e.seq
      BY <1>1, <3>1 DEF InReplay, Target
    <3>6. ASSUME EvSeq(c) > Target PROVE Covered(c)'
      <4>1. CASE EvSeq(c) < e.seq
        <5>1. c \in excused
          BY <1>3, <1>5, <3>6, <4>1, HeadOvertakes
        <5> QED
          BY <1>3, <5>1 DEF Open
      <4>2. CASE EvSeq(c) = e.seq
        <5>1. e.change = c
          BY <1>3, <4>2, SameNumber
        <5> QED
          BY <1>3, <3>2, <5>1 DEF Covered
      <4>3. CASE EvSeq(c) > e.seq
        BY <3>4, <3>5, <4>3 DEF Covered
      <4> QED
        BY <1>3, <3>1, <4>1, <4>2, <4>3
    <3> QED
      BY <1>4, <3>4, <3>5, <3>6 DEF Covered
  <2> QED
    BY <2>1, <2>2
<1> QED
  BY <1>1, <1>4, <1>6 DEF Due

\* Taking a frame that is neither the change nor a resync leaves it covered.
LEMMA TakenCovers ==
  ASSUME TypeOK, Numbered, Staged, wire # <<>>, wire' = Tail(wire),
         UNCHANGED <<made, seq, replay, cursor>>, NEW c, Covered(c),
         wire[1].kind # "resync", ~ (IsChange(1) /\ wire[1].change = c)
  PROVE  Covered(c)'
<1>1. EvSeq(c)' = EvSeq(c) /\ Target' = Target
  BY DEF EvSeq, Target
<1>2. /\ Len(wire) \in Nat \ {0} /\ Len(wire') = Len(wire) - 1
      /\ \A i \in 1..Len(wire') : i + 1 \in 1..Len(wire) /\ wire'[i] = wire[i + 1]
  BY WireTaken
<1>3. \A i \in 1..Len(wire) : i # 1 => i - 1 \in 1..Len(wire') /\ (i - 1) + 1 = i /\ wire'[i - 1] = wire[i]
  <2>1. \A i \in 1..Len(wire) : i # 1 => i - 1 \in 1..Len(wire') /\ (i - 1) + 1 = i
    BY <1>2
  <2> QED
    BY <1>2, <2>1
<1>4. ASSUME InWire(c) PROVE InWire(c)'
  <2>1. PICK i \in 1..Len(wire) : IsChange(i) /\ wire[i].change = c
    BY <1>4 DEF InWire
  <2>2. i # 1
    BY <2>1
  <2> QED
    BY <1>3, <2>1, <2>2 DEF InWire, IsChange
<1>5. ASSUME ToResync(c) PROVE ToResync(c)'
  <2>1. PICK i \in 1..Len(wire) :
          /\ wire[i].kind = "resync"
          /\ \A j \in 1..Len(wire) :
               j < i /\ (IsChange(j) \/ (IsHello(j) /\ since = NoCursor)) => wire[j].seq < EvSeq(c)
    BY <1>5 DEF ToResync
  <2>2. i # 1
    BY <2>1
  <2>3. i - 1 \in 1..Len(wire') /\ wire'[i - 1].kind = "resync"
    BY <1>3, <2>1, <2>2
  <2>4. ASSUME NEW j \in 1..Len(wire'), j < i - 1, IsChange(j)' \/ (IsHello(j)' /\ since' = NoCursor)
        PROVE  wire'[j].seq < EvSeq(c)
    <3>1. j + 1 \in 1..Len(wire) /\ wire'[j] = wire[j + 1] /\ j + 1 < i /\ j + 1 # 1
      <4>1. j + 1 < i /\ j + 1 # 1
        BY <1>2, <2>4
      <4> QED
        BY <1>2, <4>1
    <3>2. ~ IsHello(j + 1)
      BY <3>1 DEF Staged, WireShaped
    <3>3. IsChange(j + 1)
      BY <2>4, <3>1, <3>2 DEF IsChange, IsHello
    <3> QED
      BY <2>1, <3>1, <3>3
  <2> QED
    BY <1>1, <2>3, <2>4 DEF ToResync
<1>6. InReplay(c) => InReplay(c)'
  BY DEF InReplay
<1> QED
  BY <1>1, <1>4, <1>5, <1>6 DEF Covered

\* The head of the wire is before what is covered: an open change is not passed by it.
LEMMA HeadIsBefore ==
  ASSUME TypeOK, Numbered, Staged, Ordered, AboveFloor, wire # <<>>, NEW c \in Committed, Covered(c),
         \/ IsChange(1) /\ wire[1].change # c
         \/ IsHello(1) /\ since = NoCursor
  PROVE  EvSeq(c) > wire[1].seq
<1>1. /\ WireShaped /\ AskedFits /\ ClientFits /\ cursor \in Nat /\ EvSeq(c) \in Int /\ Target \in Nat
      /\ Len(wire) \in Nat /\ 1 \in 1..Len(wire)
  <2>1. Len(wire) \in Nat /\ 1 \in 1..Len(wire)
    BY DEF Numbered
  <2> QED
    BY <2>1, BoundsAssumption, OpenNumber, TargetBound DEF TypeOK, Cursors, Staged
<1>2. wire[1].seq \in Nat
  BY <1>1, WireNumbers
<1>3. \A i \in 1..Len(wire) : i = 1 \/ 1 < i
  BY <1>1
<1>4. ASSUME InWire(c), IsChange(1), wire[1].change # c PROVE EvSeq(c) > wire[1].seq
  <2>1. PICK i \in 1..Len(wire) : IsChange(i) /\ wire[i].change = c
    BY <1>4 DEF InWire
  <2>2. wire[i].seq = EvSeq(c) /\ i # 1
    BY <1>4, <2>1, FrameNumber
  <2>3. wire[1].seq < wire[i].seq
    BY <1>1, <1>3, <1>4, <2>1, <2>2 DEF Ordered
  <2> QED
    BY <1>1, <1>2, <2>2, <2>3
<1>5. ASSUME IsChange(1), InReplay(c) PROVE EvSeq(c) > wire[1].seq
  <2>1. PICK i \in 1..Len(replay) : replay[i].change = c
    BY <1>5 DEF InReplay
  <2>2. replay[i].seq = EvSeq(c)
    BY <2>1, ReplayNumbers, OursNumber
  <2>3. wire[1].seq < replay[i].seq
    BY <1>1, <1>5 DEF Ordered
  <2> QED
    BY <1>1, <1>2, <2>2, <2>3
<1>6. ASSUME IsChange(1), EvSeq(c) > Target PROVE EvSeq(c) > wire[1].seq
  <2>1. wire[1].seq <= Target
    <3>1. CASE replay = <<>>
      BY <1>1, <1>6, <3>1 DEF Ordered, Target
    <3>2. CASE replay # <<>>
      <4>1. Len(replay) \in 1..Len(replay)
        BY <3>2 DEF Numbered
      <4>2. wire[1].seq < replay[Len(replay)].seq /\ Target = replay[Len(replay)].seq
        BY <1>1, <1>6, <3>2, <4>1 DEF Ordered, Target
      <4> QED
        BY <1>1, <1>2, <4>2
    <3> QED
      BY <3>1, <3>2
  <2> QED
    BY <1>1, <1>2, <1>6, <2>1
<1>7. ASSUME ToResync(c) PROVE EvSeq(c) > wire[1].seq
  <2>1. PICK i \in 1..Len(wire) :
          /\ wire[i].kind = "resync"
          /\ \A j \in 1..Len(wire) :
               j < i /\ (IsChange(j) \/ (IsHello(j) /\ since = NoCursor)) => wire[j].seq < EvSeq(c)
    BY <1>7 DEF ToResync
  <2>2. i # 1
    BY <2>1 DEF IsChange, IsHello
  <2>3. wire[1].seq < EvSeq(c)
    BY <1>1, <1>3, <2>1, <2>2
  <2> QED
    BY <1>1, <1>2, <2>3
<1>8. CASE IsChange(1) /\ wire[1].change # c
  BY <1>4, <1>5, <1>6, <1>7, <1>8 DEF Covered
<1>9. CASE IsHello(1) /\ since = NoCursor
  <2>1. gen = "live" /\ replay = <<>> /\ ~ stale /\ Floor = wire[1].seq /\ Target = cursor
    BY <1>1, <1>9 DEF AskedFits, WireShaped, ClientFits, Floor, Target
  <2>2. cursor >= Floor
    BY <2>1 DEF AboveFloor, Greeted
  <2>3. ~ InReplay(c)
    BY <2>1 DEF InReplay
  <2>4. EvSeq(c) > Target => EvSeq(c) > wire[1].seq
    BY <1>1, <1>2, <2>1, <2>2
  <2>5. ASSUME InWire(c) PROVE EvSeq(c) > wire[1].seq
    <3>1. PICK i \in 1..Len(wire) : IsChange(i) /\ wire[i].change = c
      BY <2>5 DEF InWire
    <3>2. wire[i].seq = EvSeq(c) /\ wire[i].seq > Floor
      BY <2>1, <3>1, FrameNumber DEF AboveFloor
    <3> QED
      BY <2>1, <3>2
  <2> QED
    BY <1>7, <2>3, <2>4, <2>5 DEF Covered
<1> QED
  BY <1>8, <1>9

\* What the client receives takes its cursor past no change it has not read.
LEMMA ReceiveReached ==
  ASSUME TypeOK, Numbered, Staged, Ordered, AboveFloor, Reached, Receive
  PROVE  Reached'
<1>1. wire # <<>> /\ wire' = Tail(wire) /\ UNCHANGED <<made, seq, gen, asked, replay, cursor>>
  BY DEF Receive, ReceiveHello, ReceiveChange, ReceiveResync, busVars, genVars
<1>2. 1 \in 1..Len(wire) /\ Head(wire) = wire[1] /\ gen \in Greeted /\ WireShaped /\ AskedFits /\ ClientFits
  BY <1>1, WireTaken DEF Staged, WireShaped
<1>3. CASE ReceiveHello
  <2>1. /\ known' = (IF mounted THEN known ELSE Committed) /\ excused' = excused
        /\ since' = (IF since = NoCursor THEN wire[1].seq ELSE since)
        /\ stale' = (stale /\ since # NoCursor) /\ IsHello(1)
    BY <1>2, <1>3 DEF ReceiveHello, IsHello
  <2>2. SUFFICES ASSUME NEW c \in Open'
        PROVE  Due(c)'
    BY DEF Reached
  <2>3. mounted /\ c \in Open /\ c \in Committed
    BY <1>1, <2>1 DEF Open, Committed
  <2>4. Due(c)
    BY <2>3 DEF Reached
  <2>5. EvSeq(c)' = EvSeq(c)
    BY <1>1 DEF EvSeq
  <2>6. NotPassed(c)'
    <3>1. CASE since = NoCursor
      <4>1. gen = "live"
        BY <1>1, <1>2, <2>1, <3>1 DEF AskedFits
      <4>2. EvSeq(c) > wire[1].seq
        BY <1>1, <2>1, <2>3, <2>4, <3>1, <4>1, HeadIsBefore DEF Due
      <4> QED
        BY <2>1, <2>5, <3>1, <4>2 DEF NotPassed
    <3>2. CASE since # NoCursor
      BY <2>1, <2>4, <2>5, <3>2 DEF Due, NotPassed
    <3> QED
      BY <3>1, <3>2
  <2>7. Covered(c) => Covered(c)'
    <3>1. wire[1].kind # "resync" /\ ~ IsChange(1)
      BY <2>1 DEF IsHello, IsChange
    <3> QED
      BY <1>1, <3>1, TakenCovers
  <2> QED
    BY <1>1, <2>4, <2>5, <2>6, <2>7 DEF Due
<1>4. CASE ReceiveChange
  <2>1. /\ known' = known \union ({wire[1].change} \ Unscoped)
        /\ excused' = excused \union ({wire[1].change} \intersect Unscoped \intersect Unknown)
        /\ mounted' = mounted /\ IsChange(1)
        /\ \/ since' = wire[1].seq /\ stale' = FALSE
           \/ since' = since /\ stale' = stale
    BY <1>2, <1>4 DEF ReceiveChange, IsChange
  <2>2. SUFFICES ASSUME mounted, NEW c \in Open'
        PROVE  Due(c)'
    BY <2>1 DEF Reached
  <2>3. c \in Open /\ c \in Committed /\ c # wire[1].change
    BY <1>1, <2>1 DEF Open, Committed, Unknown
  <2>4. gen \in {"replay", "live"}
    BY <1>2, <2>1 DEF WireShaped, IsHello, IsChange
  <2>5. NotPassed(c) /\ Covered(c) /\ EvSeq(c)' = EvSeq(c)
    BY <1>1, <2>2, <2>3, <2>4 DEF Reached, Due, EvSeq
  <2>6. EvSeq(c) > wire[1].seq
    BY <1>1, <2>1, <2>3, <2>5, HeadIsBefore
  <2>7. NotPassed(c)'
    BY <2>1, <2>5, <2>6 DEF NotPassed
  <2>8. Covered(c)'
    <3>1. wire[1].kind # "resync" /\ ~ (IsChange(1) /\ wire[1].change = c)
      BY <2>1, <2>3 DEF IsChange
    <3> QED
      BY <1>1, <2>5, <3>1, TakenCovers
  <2> QED
    BY <1>1, <2>4, <2>7, <2>8 DEF Due
<1>5. CASE ReceiveResync
  <2>1. \A c : c \notin Open'
    BY <1>1, <1>5 DEF ReceiveResync, Open, Unknown, Committed
  <2> QED
    BY <2>1 DEF Reached
<1> QED
  BY <1>3, <1>4, <1>5 DEF Receive

\* Every step keeps every open change before the client.
LEMMA StepReached ==
  ASSUME TypeOK, Numbered, Staged, Ordered, AboveFloor, Ahead, Behind, Reached, Numbered', [Next]_vars
  PROVE  Reached'
<1> USE DEF busVars, pipeVars, subVars, genVars, clientVars
<1>0. excused \subseteq excused'
  BY ExcusesStay
<1>1. ASSUME NEW p \in Publishers, Stamp(p) \/ Post(p)
      PROVE  Reached'
  <2>1. CASE Stamp(p)
    BY <2>1, StampReached
  <2>2. CASE Post(p)
    BY <1>0, <2>2, ReachedSame DEF Post
  <2> QED
    BY <1>1, <2>1, <2>2
<1>2. CASE Offer
  BY <1>0, <1>2, ReachedSame DEF Offer
<1>3. CASE Connect
  BY <1>0, <1>3, ReachedSame DEF Connect
<1>4. CASE Generate
  BY <1>4, GreetReached, CheckReached, SnapshotReached, ReplayReached, OverflowReached, DeliverReached
     DEF Generate
<1>5. CASE Receive
  BY <1>5, ReceiveReached
<1>6. CASE Drop
  <2>1. gen' = "closed" /\ UNCHANGED <<made, seq, since, stale, mounted, known, excused>>
    BY <1>6 DEF Drop, Disconnect
  <2> QED
    BY <2>1 DEF Reached, Due, NotPassed, EvSeq, Open, Committed
<1>7. CASE Restart
  <2>1. gen' = "closed" /\ stale' = (since # NoCursor) /\ since' = since
    BY <1>7 DEF Restart, Disconnect
  <2> QED
    BY <2>1 DEF Reached, Due, NotPassed
<1>8. CASE UNCHANGED vars
  BY <1>0, <1>8, ReachedSame DEF vars
<1> QED
  BY <1>1, <1>2, <1>3, <1>4, <1>5, <1>6, <1>7, <1>8 DEF Next

----------------------------------------------------------------------------
\* The theorems.

EventInv ==
  /\ TypeOK /\ Numbered
  /\ Staged /\ Ordered /\ AboveFloor
  /\ Ahead /\ Behind /\ Reached

\* Every reachable state satisfies the invariant.
LEMMA EventInductive == Spec => []EventInv
<1>1. Init => EventInv
  BY InitTypes, InitStaged, InitOrdered, InitAhead, InitReached DEF EventInv
<1>2. EventInv /\ [Next]_vars => EventInv'
  <2> SUFFICES ASSUME EventInv, [Next]_vars
               PROVE  EventInv'
    OBVIOUS
  <2>1. TypeOK /\ Numbered /\ Staged /\ Ordered /\ AboveFloor /\ Ahead /\ Behind /\ Reached
    BY DEF EventInv
  <2>2. TypeOK'
    BY <2>1, StepTypes
  <2>3. Numbered'
    BY <2>1, <2>2, StepNumbered
  <2>4. Staged'
    BY <2>1, <2>2, StepStaged
  <2>5. Ordered'
    BY <2>1, <2>2, <2>3, StepOrdered
  <2>6. AboveFloor'
    BY <2>1, <2>2, <2>3, <2>4, StepAboveFloor
  <2>7. Ahead' /\ Behind'
    BY <2>1, <2>2, <2>3, StepAhead, StepBehind
  <2>8. Reached'
    BY <2>1, <2>3, StepReached
  <2> QED
    BY <2>2, <2>3, <2>4, <2>5, <2>6, <2>7, <2>8 DEF EventInv
<1> QED
  BY <1>1, <1>2, PTL DEF Spec

\* What is on the way is in the set that the properties speak of.
LEMMA OnTheWayOf ==
  ASSUME TypeOK, NEW n, OnWay(n)
  PROVE  n \in OnTheWay
<1> DEFINE s == posted \o aqueue
<1>1. /\ posted \in Seq(Events) /\ aqueue \in Seq(Events) /\ Len(posted) \in Nat /\ Len(aqueue) \in Nat
      /\ s \in Seq(Events) /\ Len(s) = Len(posted) + Len(aqueue)
      /\ \A i \in 1..Len(posted) : s[i] = posted[i]
      /\ \A i \in 1..Len(aqueue) : s[Len(posted) + i] = aqueue[i]
  BY DEF TypeOK
<1>2. OnTheWay = {hand[p].seq : p \in Publishers} \union {e.seq : e \in ToSet(s)}
  BY DEF OnTheWay
<1> HIDE DEF s
<1>3. \A i \in 1..Len(s) : s[i] \in ToSet(s)
  BY <1>1 DEF ToSet
<1>4. CASE \E p \in Publishers : hand[p].seq = n
  BY <1>2, <1>4
<1>5. CASE \E i \in 1..Len(posted) : posted[i].seq = n
  <2>1. PICK i \in 1..Len(posted) : posted[i].seq = n
    BY <1>5
  <2>2. i \in 1..Len(s)
    BY <1>1, <2>1
  <2>3. posted[i] \in ToSet(s)
    BY <1>1, <1>3, <2>2
  <2> QED
    BY <1>2, <2>1, <2>3
<1>6. CASE \E i \in 1..Len(aqueue) : aqueue[i].seq = n
  <2>1. PICK i \in 1..Len(aqueue) : aqueue[i].seq = n
    BY <1>6
  <2>2. Len(posted) + i \in 1..Len(s)
    BY <1>1, <2>1
  <2>3. aqueue[i] \in ToSet(s)
    BY <1>1, <1>3, <2>2
  <2> QED
    BY <1>2, <2>1, <2>3
<1> QED
  BY <1>4, <1>5, <1>6 DEF OnWay

\* Every variable of the bus, the connection and the client stays in its type, the
\* ring and the queue within their sizes.
THEOREM EventTypes == Spec => []TypeOK
<1>1. EventInv => TypeOK
  BY DEF EventInv
<1> QED
  BY <1>1, EventInductive, PTL

\* A change frame always moves the client's cursor on: the replay of a reconnect and
\* the live queue of the connection never send a number twice or out of order.
THEOREM FramesMoveOn == Spec => []ChangesMoveOn
<1>1. EventInv => ChangesMoveOn
  <2> SUFFICES ASSUME EventInv, wire # <<>>, Head(wire).kind = "change", since # NoCursor, ~ stale
               PROVE  Head(wire).seq > since
    BY DEF ChangesMoveOn
  <2>1. TypeOK /\ Numbered /\ AboveFloor
    BY DEF EventInv
  <2>2. 1 \in 1..Len(wire) /\ Head(wire) = wire[1]
    BY <2>1 DEF Numbered
  <2>3. IsChange(1) /\ Floor = since
    BY <2>2 DEF IsChange, Floor
  <2> QED
    BY <2>1, <2>2, <2>3 DEF AboveFloor
<1> QED
  BY <1>1, EventInductive, PTL

\* What is ahead of a live connection's cursor is on its way, or the overflow flag
\* stands for it: no interleaving of stamping, posting and offering drops an event
\* in silence.
THEOREM AheadIsKept == Spec => []NothingAheadIsLost
<1>1. EventInv => NothingAheadIsLost
  <2> SUFFICES ASSUME EventInv, gen = "live", ~ overflowed, NEW n \in (cursor + 1)..seq
               PROVE  n \in OnTheWay
    BY DEF NothingAheadIsLost
  <2>1. TypeOK /\ Staged /\ Ahead
    BY DEF EventInv
  <2>2. Target = cursor /\ cursor \in Nat /\ seq \in Nat
    BY <2>1, BoundsAssumption DEF Staged, WireShaped, Target, TypeOK, Cursors
  <2>3. n \in 1..seq /\ n > Target
    BY <2>2
  <2>4. OnWay(n)
    BY <2>1, <2>3 DEF Ahead, Greeted
  <2> QED
    BY <2>1, <2>4, OnTheWayOf
<1> QED
  BY <1>1, EventInductive, PTL

\* A client that has received all that was sent knows every change it may see, but
\* for those that fell in a hole named at its action: overflow, gap and reconnect
\* lose nothing else.
THEOREM HolesAreAll == Spec => []NothingElseMissed
<1>1. EventInv => NothingElseMissed
  <2> SUFFICES ASSUME EventInv, Quiet, NEW c \in Unknown, c \notin Private, c \notin excused
               PROVE  FALSE
    BY DEF NothingElseMissed
  <2>1. TypeOK /\ Numbered /\ Staged /\ Ahead /\ Reached
    BY DEF EventInv
  <2>2. gen = "live" /\ ~ overflowed /\ wire = <<>> /\ OnTheWay \subseteq {0}
    BY DEF Quiet
  <2>3. mounted /\ replay = <<>>
    BY <2>1, <2>2 DEF Staged, ClientFits, WireShaped, Greeted
  <2>4. c \in Open /\ c \in Committed
    BY DEF Open, Unknown
  <2>5. Covered(c)
    BY <2>1, <2>2, <2>3, <2>4 DEF Reached, Due
  <2>6. EvSeq(c) > Target
    BY <2>2, <2>3, <2>5 DEF Covered, InReplay, InWire, ToResync
  <2>7. EvSeq(c) \in 1..seq
    BY <2>1, <2>4, <2>6, OpenNumber, TargetBound, BoundsAssumption DEF TypeOK
  <2>8. OnWay(EvSeq(c))
    BY <2>1, <2>2, <2>6, <2>7 DEF Ahead, Greeted
  <2>9. EvSeq(c) \in OnTheWay
    BY <2>1, <2>8, OnTheWayOf
  <2> QED
    BY <2>2, <2>7, <2>9
<1> QED
  BY <1>1, EventInductive, PTL
=============================================================================
