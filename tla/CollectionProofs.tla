-------------------------- MODULE CollectionProofs --------------------------
(***************************************************************************)
(* Proofs about what a model writes of a collection: its summary           *)
(* (SummaryDebounce) and its coverage line (CoverageRefresh).              *)
(***************************************************************************)
EXTENDS SummaryDebounce, CoverageRefresh, TLAPS

----------------------------------------------------------------------------
\* The summary of a collection.

\* No change is being called in, no timer runs and no consolidation waits or works.
SummaryQuiet ==
  /\ \A k \in Changes : call[k].pc \in {"unused", "done"}
  /\ \A j \in Consolidations : run[j].pc = "unused"

\* When all is quiet the summary is made of what takes part now: whoever skips a
\* consolidation leaves another one that will read the change, or loses it in a way named.
\* (The safety part of SummaryCatchesUp.)
QuietSummaryIsCurrent == SummaryQuiet => summary = Basis \/ losses # {}

\* The timer that is armed is the window's.
TimersOfWindow ==
  /\ \A k \in Changes : call[k].pc = "armed" => window.open /\ window.timer = k
  /\ window.open /\ window.timer # 0 => call[window.timer].pc = "armed"

\* A change is on its way to a consolidation that has yet to begin; with force, one
\* that no comparison of snapshots can stop.
OnItsWay(force) ==
  \/ \E k \in Changes : call[k].pc \in {"ensure", "arm"} /\ (force => call[k].force)
  \/ window.open /\ (force => window.force)
  \/ \E k \in Changes : call[k].pc = "check" /\ (force => call[k].popped.force)

\* The same, or a consolidation is to come or under way.
WillConsolidate(force) ==
  \/ OnItsWay(force)
  \/ \E k \in Changes : call[k].pc = "compare" /\ (force => call[k].popped.force)
  \/ \E j \in Consolidations : run[j].pc \in {"queued", "running"}

\* Made of the text as it is, or of nothing; made of something just if something
\* takes part.
SaysTheText(s) == s \in {0, text}
SaysTheMember(s) == s # 0 <=> member

\* A running consolidation that has read something else has a change behind it on its
\* way; so has a summary made of something else, unless a consolidation will replace it.
Followed ==
  losses = {} =>
    /\ ~ OnItsWay(TRUE) =>
         \A j \in Consolidations : run[j].pc = "running" => SaysTheText(run[j].read)
    /\ ~ OnItsWay(FALSE) =>
         \A j \in Consolidations : run[j].pc = "running" => SaysTheMember(run[j].read)
    /\ ~ WillConsolidate(TRUE) => SaysTheText(summary)
    /\ ~ WillConsolidate(FALSE) => SaysTheMember(summary)

CallStates == [pc : CallPcs, before : BOOLEAN, force : BOOLEAN, popped : Windows]
RunStates == [pc : {"unused", "queued", "running"}, read : Nat]

SummaryTyped ==
  /\ member \in BOOLEAN /\ text \in Nat \ {0} /\ summary \in Nat
  /\ window \in Windows
  /\ call \in [Changes -> CallStates]
  /\ run \in [Consolidations -> RunStates]
  /\ extras \in Nat
  /\ losses \subseteq Losses

HasTimer == window.open => window.timer # 0 \/ \E k \in Changes : call[k].pc = "arm"

SummaryInv == SummaryTyped /\ HasTimer /\ TimersOfWindow /\ Followed

\* The records that steps write.
LEMMA SummaryRecords ==
  /\ Closed \in Windows /\ ~ Closed.open /\ ~ Closed.force
  /\ NoCall.pc = "unused" /\ ~ NoCall.force
  /\ \A pc \in CallPcs :
       /\ [NoCall EXCEPT !.pc = pc] \in CallStates
       /\ [NoCall EXCEPT !.pc = pc].pc = pc
<1>1. Closed \in Windows /\ ~ Closed.open /\ ~ Closed.force
  BY SummaryBoundsAssumption DEF Closed, Windows
<1> QED
  BY <1>1 DEF NoCall, CallPcs, CallStates

\* Changes are numbered from one.
LEMMA ChangeNumbers ==
  /\ Changes \subseteq 0..MaxChanges /\ 0 \notin Changes
  /\ \A n \in 0..MaxChanges : n # 0 => n \in Changes
BY SummaryBoundsAssumption DEF Changes

\* What Basis says.
LEMMA BasisSays ==
  ASSUME SummaryTyped
  PROVE  Basis \in Nat /\ SaysTheText(Basis) /\ SaysTheMember(Basis)
BY DEF SummaryTyped, Basis, SaysTheText, SaysTheMember

\* At first the summary is current.
LEMMA SummaryInitInv == ASSUME SummaryInit PROVE SummaryInv
<1>1. SummaryTyped
  BY SummaryRecords DEF SummaryInit, SummaryTyped, Basis, NoCall, CallPcs, CallStates, RunStates, Idle, Losses
<1>2. HasTimer /\ TimersOfWindow
  BY SummaryRecords DEF SummaryInit, HasTimer, TimersOfWindow
<1>3. Followed
  <2>1. SaysTheText(summary) /\ SaysTheMember(summary)
    BY <1>1, BasisSays DEF SummaryInit, SummaryTyped, SaysTheText, SaysTheMember, Basis
  <2>2. \A j \in Consolidations : run[j].pc # "running"
    BY DEF SummaryInit, Idle
  <2> QED
    BY <2>1, <2>2 DEF Followed
<1> QED
  BY <1>1, <1>2, <1>3 DEF SummaryInv

\* Every call is left as it is, but for one.
CallsBut(k) == \A i \in Changes : i # k => call'[i] = call[i]

\* A new call is made.
LEMMA CalledStep ==
  ASSUME SummaryInv, NEW k \in Changes, NEW force \in BOOLEAN, Called(k, force)
  PROVE  /\ call' \in [Changes -> CallStates]
         /\ call[k].pc = "unused" /\ call'[k].pc = "ensure" /\ call'[k].force = force /\ CallsBut(k)
<1> DEFINE o == [NoCall EXCEPT !.pc = "ensure", !.before = member, !.force = force]
<1>1. NoCall \in CallStates
      /\ "ensure" \in CallPcs /\ member \in BOOLEAN
  BY SummaryRecords DEF NoCall, CallPcs, CallStates, SummaryInv, SummaryTyped
<1>2. o \in CallStates
  BY <1>1 DEF CallStates
<1>3. o.pc = "ensure" /\ o.force = force
  BY <1>1 DEF CallStates
<1>4. call[k].pc = "unused" /\ call' = [call EXCEPT ![k] = o]
  BY DEF Called
<1> HIDE DEF o
<1> QED
  BY <1>2, <1>3, <1>4 DEF CallsBut, SummaryInv, SummaryTyped

\* A change that is called in keeps the invariant.
LEMMA ToggleStep ==
  ASSUME SummaryInv, NEW k \in Changes, Toggle(k) \/ Resummarize(k)
  PROVE  SummaryInv'
<1>1. /\ SummaryTyped /\ HasTimer /\ TimersOfWindow /\ Followed
      /\ UNCHANGED <<summary, window, run, extras, losses>>
  BY DEF SummaryInv, Toggle, Resummarize
<1>2. PICK force \in BOOLEAN : /\ Called(k, force)
                               /\ member' \in BOOLEAN /\ text' \in Nat \ {0}
                               /\ text' = text \/ force
  <2>1. CASE Toggle(k)
    BY <1>1, <2>1 DEF Toggle, SummaryTyped
  <2>2. CASE Resummarize(k)
    <3>1. text + 1 \in Nat \ {0}
      BY <1>1 DEF SummaryTyped
    <3> QED
      BY <1>1, <2>2, <3>1 DEF Resummarize, SummaryTyped
  <2> QED
    BY <2>1, <2>2
<1>3. /\ call' \in [Changes -> CallStates]
      /\ call[k].pc = "unused" /\ call'[k].pc = "ensure" /\ call'[k].force = force /\ CallsBut(k)
  BY <1>2, CalledStep
<1>4. SummaryTyped'
  BY <1>1, <1>2, <1>3 DEF SummaryTyped
<1>5. HasTimer'
  BY <1>1, <1>3 DEF HasTimer, CallsBut
<1>6. TimersOfWindow'
  <2>1. window \in Windows
    BY <1>1 DEF SummaryTyped
  <2>2. window.timer # 0 => window.timer \in Changes
    BY <2>1, ChangeNumbers DEF Windows
  <2> QED
    BY <1>1, <1>3, <2>2 DEF TimersOfWindow, CallsBut
<1>7. Followed'
  <2>1. OnItsWay(FALSE)' /\ (text' # text => OnItsWay(TRUE)')
    BY <1>2, <1>3 DEF OnItsWay
  <2>2. OnItsWay(TRUE) => OnItsWay(TRUE)'
    BY <1>1, <1>3 DEF OnItsWay, CallsBut
  <2>3. WillConsolidate(FALSE)' /\ (text' # text => WillConsolidate(TRUE)')
    BY <2>1 DEF WillConsolidate
  <2>4. WillConsolidate(TRUE) => WillConsolidate(TRUE)'
    BY <1>1, <1>3, <2>2 DEF WillConsolidate, CallsBut
  <2> QED
    BY <1>1, <2>1, <2>2, <2>3, <2>4 DEF Followed, SaysTheText
<1> QED
  BY <1>4, <1>5, <1>6, <1>7 DEF SummaryInv

\* One call moves on.
LEMMA CallMoved ==
  ASSUME SummaryTyped, NEW k \in Changes, NEW o \in CallStates, call' = [call EXCEPT ![k] = o]
  PROVE  call' \in [Changes -> CallStates] /\ call'[k] = o /\ CallsBut(k)
BY DEF SummaryTyped, CallsBut

\* A call that moves to another place keeps the rest of what it is.
LEMMA CallAt ==
  ASSUME SummaryTyped, NEW k \in Changes, NEW pc \in CallPcs, call' = [call EXCEPT ![k].pc = pc]
  PROVE  /\ call' \in [Changes -> CallStates] /\ CallsBut(k)
         /\ call'[k].pc = pc /\ call'[k].force = call[k].force /\ call'[k].popped = call[k].popped
<1> DEFINE o == [call[k] EXCEPT !.pc = pc]
<1>1. call[k] \in CallStates
  BY DEF SummaryTyped
<1>2. o \in CallStates /\ o.pc = pc /\ o.force = call[k].force /\ o.popped = call[k].popped
  BY <1>1 DEF CallStates
<1>3. call' = [call EXCEPT ![k] = o]
  OBVIOUS
<1> HIDE DEF o
<1> QED
  BY <1>2, <1>3, CallMoved

\* A call that ends.
LEMMA CallDone ==
  ASSUME SummaryTyped, NEW k \in Changes, call' = [call EXCEPT ![k] = [NoCall EXCEPT !.pc = "done"]]
  PROVE  call' \in [Changes -> CallStates] /\ CallsBut(k) /\ call'[k].pc = "done"
BY SummaryRecords, CallMoved DEF CallPcs

\* A step after which as much is on its way, and nothing else changes.
LEMMA FollowedStill ==
  ASSUME Followed, UNCHANGED <<member, text, summary, run, losses>>,
         \A force \in BOOLEAN : /\ OnItsWay(force) => OnItsWay(force)'
                                /\ WillConsolidate(force) => WillConsolidate(force)'
  PROVE  Followed'
BY DEF Followed, SaysTheText, SaysTheMember

\* When a loss is named there is nothing to show.
LEMMA Lost == ASSUME losses' # {} PROVE Followed'
BY DEF Followed

\* A call that opens the window, or finds it open.
LEMMA EnsureStep ==
  ASSUME SummaryInv, NEW k \in Changes, EnsureWindow(k)
  PROVE  SummaryInv'
<1>1. /\ SummaryTyped /\ HasTimer /\ TimersOfWindow /\ Followed
      /\ call[k].pc = "ensure" /\ call' = [call EXCEPT ![k].pc = "arm"]
      /\ UNCHANGED <<member, text, summary, run, extras, losses>>
  BY DEF SummaryInv, EnsureWindow
<1>2. /\ call' \in [Changes -> CallStates] /\ CallsBut(k)
      /\ call'[k].pc = "arm" /\ call'[k].force = call[k].force
  BY <1>1, CallAt DEF CallPcs
<1>3. /\ window' \in Windows /\ window'.open
      /\ window.open => window' = window
      /\ ~ window.open => window'.timer = 0
  <2>1. CASE window.open
    BY <1>1, <2>1 DEF EnsureWindow, SummaryTyped
  <2>2. CASE ~ window.open
    <3>1. window' = [open |-> TRUE, timer |-> 0, before |-> call[k].before,
                     force |-> call[k].force, was |-> summary]
      BY <2>2 DEF EnsureWindow
    <3>2. call[k].before \in BOOLEAN /\ call[k].force \in BOOLEAN /\ summary \in Nat /\ 0 \in 0..MaxChanges
      BY <1>1, SummaryBoundsAssumption DEF SummaryTyped, CallStates
    <3> QED
      BY <2>2, <3>1, <3>2 DEF Windows
  <2> QED
    BY <2>1, <2>2
<1>4. SummaryTyped' /\ HasTimer'
  BY <1>1, <1>2, <1>3 DEF SummaryTyped, HasTimer
<1>5. TimersOfWindow'
  <2>1. window.timer # 0 => window.timer \in Changes
    BY <1>1, ChangeNumbers DEF Windows, SummaryTyped
  <2> QED
    BY <1>1, <1>2, <1>3, <2>1 DEF TimersOfWindow, CallsBut
<1>6. \A force \in BOOLEAN : OnItsWay(force) => OnItsWay(force)'
  BY <1>1, <1>2, <1>3 DEF OnItsWay, CallsBut
<1>7. \A force \in BOOLEAN : WillConsolidate(force) => WillConsolidate(force)'
  BY <1>1, <1>2, <1>6 DEF WillConsolidate, CallsBut
<1> QED
  BY <1>1, <1>4, <1>5, <1>6, <1>7, FollowedStill DEF SummaryInv

\* A call that arms the window's timer.
LEMMA ArmStep ==
  ASSUME SummaryInv, NEW k \in Changes, ArmTimer(k)
  PROVE  SummaryInv'
<1> DEFINE armed == [NoCall EXCEPT !.pc = "armed"]
           done == [NoCall EXCEPT !.pc = "done"]
<1>1. /\ SummaryTyped /\ TimersOfWindow /\ Followed
      /\ call[k].pc = "arm" /\ window.open
      /\ window' = [window EXCEPT !.timer = k, !.force = @ \/ call[k].force]
      /\ call' = [i \in Changes |->
                    IF i = k THEN armed
                    ELSE IF i = window.timer /\ call[i].pc = "armed" THEN done
                    ELSE call[i]]
      /\ UNCHANGED <<member, text, summary, run, extras, losses>>
  BY DEF SummaryInv, ArmTimer
<1>2. armed \in CallStates /\ armed.pc = "armed" /\ done \in CallStates /\ done.pc = "done"
  BY SummaryRecords DEF CallPcs
<1> HIDE DEF armed, done
<1>3. /\ window' \in Windows /\ window'.open /\ window'.timer = k
      /\ window.force \/ call[k].force => window'.force
  <2>1. /\ window \in Windows /\ k \in 0..MaxChanges /\ call[k].force \in BOOLEAN
        /\ (window.force \/ call[k].force) \in BOOLEAN
    BY <1>1, ChangeNumbers DEF SummaryTyped, CallStates
  <2>2. PICK f \in BOOLEAN : f = (window.force \/ call[k].force)
    BY <2>1
  <2>3. window' = [window EXCEPT !.timer = k, !.force = f]
    BY <1>1, <2>2
  <2>4. [window EXCEPT !.timer = k, !.force = f] \in Windows
    BY <2>1, <2>2 DEF Windows
  <2>5. window'.open = window.open /\ window'.timer = k /\ window'.force = f
    BY <2>1, <2>3 DEF Windows
  <2> QED
    BY <1>1, <2>2, <2>3, <2>4, <2>5
<1>4. call' \in [Changes -> CallStates]
  BY <1>1, <1>2 DEF SummaryTyped
<1>5. k # 0 /\ call'[k].pc = "armed"
  BY <1>1, <1>2, ChangeNumbers
<1>6. \A i \in Changes : i # k => \/ call'[i] = call[i] /\ call[i].pc # "armed"
                                  \/ call[i].pc = "armed" /\ call'[i].pc = "done"
  BY <1>1, <1>2 DEF TimersOfWindow
<1>7. SummaryTyped' /\ HasTimer'
  BY <1>1, <1>3, <1>4, <1>5 DEF SummaryTyped, HasTimer
<1>8. TimersOfWindow'
  BY <1>3, <1>5, <1>6 DEF TimersOfWindow
<1>9. \A force \in BOOLEAN : OnItsWay(force) => OnItsWay(force)'
  <2>1. ASSUME NEW force \in BOOLEAN, OnItsWay(force)
        PROVE  OnItsWay(force)'
    <3>1. CASE \E i \in Changes : call[i].pc \in {"ensure", "arm"} /\ (force => call[i].force)
      BY <1>3, <1>6, <3>1 DEF OnItsWay
    <3>2. CASE window.open /\ (force => window.force)
      BY <1>3, <3>2 DEF OnItsWay
    <3>3. CASE \E i \in Changes : call[i].pc = "check" /\ (force => call[i].popped.force)
      BY <1>1, <1>6, <3>3 DEF OnItsWay
    <3> QED
      BY <2>1, <3>1, <3>2, <3>3 DEF OnItsWay
  <2> QED
    BY <2>1
<1>10. \A force \in BOOLEAN : WillConsolidate(force) => WillConsolidate(force)'
  <2>1. \A i \in Changes : call[i].pc = "compare" => call'[i] = call[i]
    BY <1>1, <1>6
  <2> QED
    BY <1>1, <1>9, <2>1 DEF WillConsolidate
<1> QED
  BY <1>1, <1>7, <1>8, <1>9, <1>10, FollowedStill DEF SummaryInv

\* A call that finds its window gone.
LEMMA MissStep ==
  ASSUME SummaryInv, NEW k \in Changes, MissWindow(k)
  PROVE  SummaryInv'
<1>1. /\ SummaryTyped /\ TimersOfWindow /\ call[k].pc = "arm" /\ ~ window.open
      /\ call' = [call EXCEPT ![k] = [NoCall EXCEPT !.pc = "done"]]
      /\ losses' = losses \union {"unscheduled"}
      /\ UNCHANGED <<member, text, summary, window, run, extras>>
  BY DEF SummaryInv, MissWindow, Lose
<1>2. call' \in [Changes -> CallStates] /\ CallsBut(k) /\ call'[k].pc = "done"
  BY <1>1, CallDone
<1>3. SummaryTyped' /\ HasTimer' /\ TimersOfWindow'
  BY <1>1, <1>2 DEF SummaryTyped, HasTimer, TimersOfWindow, CallsBut, Losses
<1> QED
  BY <1>1, <1>3, Lost DEF SummaryInv

\* A call past its window that moves on leaves the window and its timer as they are.
LEMMA WindowLeft ==
  ASSUME SummaryInv, NEW k \in Changes, window' = window, CallsBut(k),
         call[k].pc \notin {"arm", "armed"}, call'[k].pc # "armed"
  PROVE  HasTimer' /\ TimersOfWindow'
<1>1. window.timer # 0 => window.timer \in Changes
  BY ChangeNumbers DEF Windows, SummaryInv, SummaryTyped
<1> QED
  BY <1>1 DEF SummaryInv, HasTimer, TimersOfWindow, CallsBut

\* A snapshot that cannot be taken, before the window or after it.
LEMMA UnreadStep ==
  ASSUME SummaryInv, NEW k \in Changes, FailSnapshot(k) \/ FailCompare(k)
  PROVE  SummaryInv'
<1>1. /\ SummaryTyped /\ call[k].pc \in {"ensure", "compare"} /\ extras' = extras + 1
      /\ call' = [call EXCEPT ![k] = [NoCall EXCEPT !.pc = "done"]]
      /\ losses' = losses \union {"unread"}
      /\ UNCHANGED <<member, text, summary, window, run>>
  BY DEF SummaryInv, FailSnapshot, FailCompare, Extra, Lose
<1>2. call' \in [Changes -> CallStates] /\ CallsBut(k) /\ call'[k].pc = "done"
  BY <1>1, CallDone
<1>3. SummaryTyped'
  BY <1>1, <1>2 DEF SummaryTyped, Losses
<1>4. HasTimer' /\ TimersOfWindow'
  BY <1>1, <1>2, WindowLeft
<1> QED
  BY <1>1, <1>3, <1>4, Lost DEF SummaryInv

\* A timer that pops its window.
LEMMA FireStep ==
  ASSUME SummaryInv, NEW k \in Changes, Fire(k)
  PROVE  SummaryInv'
<1> DEFINE w == [window EXCEPT !.timer = 0]
           o == [NoCall EXCEPT !.pc = "check", !.popped = w]
<1>1. /\ SummaryTyped /\ TimersOfWindow /\ Followed
      /\ call[k].pc = "armed" /\ window' = Closed
      /\ UNCHANGED <<member, text, summary, run, extras, losses>>
  BY DEF SummaryInv, Fire
<1>2. window.open /\ window.timer = k
  BY <1>1 DEF TimersOfWindow
<1>3. call' = [call EXCEPT ![k] = o]
  BY <1>2 DEF Fire
<1>4. w \in Windows /\ w.force = window.force
  BY <1>1, SummaryBoundsAssumption DEF SummaryTyped, Windows
<1> HIDE DEF w
<1>5. o \in CallStates /\ o.pc = "check" /\ o.popped = w
  <2>1. NoCall \in CallStates /\ "check" \in CallPcs
    BY SummaryRecords DEF NoCall, CallPcs, CallStates
  <2> QED
    BY <1>4, <2>1 DEF CallStates
<1> HIDE DEF o
<1>6. call' \in [Changes -> CallStates] /\ call'[k] = o /\ CallsBut(k)
  BY <1>1, <1>3, <1>5, CallMoved
<1>7. SummaryTyped' /\ HasTimer'
  BY <1>1, <1>6, SummaryRecords DEF SummaryTyped, HasTimer
<1>8. TimersOfWindow'
  BY <1>1, <1>2, <1>5, <1>6, SummaryRecords DEF TimersOfWindow, CallsBut
<1>9. \A force \in BOOLEAN : OnItsWay(force) => OnItsWay(force)'
  <2>1. ASSUME NEW force \in BOOLEAN, OnItsWay(force)
        PROVE  OnItsWay(force)'
    <3>1. CASE \E i \in Changes : call[i].pc \in {"ensure", "arm"} /\ (force => call[i].force)
      BY <1>1, <1>6, <3>1 DEF OnItsWay, CallsBut
    <3>2. CASE window.open /\ (force => window.force)
      BY <1>4, <1>5, <1>6, <3>2 DEF OnItsWay
    <3>3. CASE \E i \in Changes : call[i].pc = "check" /\ (force => call[i].popped.force)
      BY <1>1, <1>6, <3>3 DEF OnItsWay, CallsBut
    <3> QED
      BY <2>1, <3>1, <3>2, <3>3 DEF OnItsWay
  <2> QED
    BY <2>1
<1>10. \A force \in BOOLEAN : WillConsolidate(force) => WillConsolidate(force)'
  BY <1>1, <1>6, <1>9 DEF WillConsolidate, CallsBut
<1> QED
  BY <1>1, <1>7, <1>8, <1>9, <1>10, FollowedStill DEF SummaryInv

\* When no consolidation is outdated, each has read what would be read now.
LEMMA NoneOutdated ==
  ASSUME SummaryTyped, ~ Outdated
  PROVE  \A j \in Consolidations : run[j].pc = "running" =>
           SaysTheText(run[j].read) /\ SaysTheMember(run[j].read)
BY BasisSays DEF Outdated

\* A timer that skips because a consolidation is active.
LEMMA SkipStep ==
  ASSUME SummaryInv, NEW k \in Changes, SkipActive(k)
  PROVE  SummaryInv'
<1>1. /\ SummaryTyped /\ call[k].pc = "check" /\ Consolidating
      /\ call' = [call EXCEPT ![k] = [NoCall EXCEPT !.pc = "done"]]
      /\ losses' = losses \union (IF Outdated THEN {"skipped"} ELSE {})
      /\ UNCHANGED <<member, text, summary, window, run, extras>>
  BY DEF SummaryInv, SkipActive, Lose
<1>2. call' \in [Changes -> CallStates] /\ CallsBut(k) /\ call'[k].pc = "done"
  BY <1>1, CallDone
<1>3. SummaryTyped'
  BY <1>1, <1>2 DEF SummaryTyped, Losses
<1>4. HasTimer' /\ TimersOfWindow'
  BY <1>1, <1>2, WindowLeft
<1>5. CASE Outdated
  <2>1. losses' # {}
    BY <1>1, <1>5
  <2> QED
    BY <1>3, <1>4, <2>1, Lost DEF SummaryInv
<1>6. CASE ~ Outdated
  <2>1. WillConsolidate(TRUE)' /\ WillConsolidate(FALSE)'
    BY <1>1 DEF WillConsolidate, Consolidating
  <2>2. \A j \in Consolidations : run[j].pc = "running" =>
          SaysTheText(run[j].read) /\ SaysTheMember(run[j].read)
    BY <1>1, <1>6, NoneOutdated
  <2>3. Followed'
    BY <1>1, <2>1, <2>2 DEF Followed, SaysTheText, SaysTheMember
  <2> QED
    BY <1>3, <1>4, <2>3 DEF SummaryInv
<1> QED
  BY <1>5, <1>6

\* A timer that finds no consolidation.
LEMMA GoOnStep ==
  ASSUME SummaryInv, NEW k \in Changes, GoOn(k)
  PROVE  SummaryInv'
<1>1. /\ SummaryTyped /\ Followed /\ call[k].pc = "check" /\ ~ Consolidating
      /\ call' = [call EXCEPT ![k].pc = "compare"]
      /\ UNCHANGED <<member, text, summary, window, run, extras, losses>>
  BY DEF SummaryInv, GoOn
<1>2. /\ call' \in [Changes -> CallStates] /\ CallsBut(k)
      /\ call'[k].pc = "compare" /\ call'[k].popped = call[k].popped
  BY <1>1, CallAt DEF CallPcs
<1>3. SummaryTyped'
  BY <1>1, <1>2 DEF SummaryTyped
<1>4. HasTimer' /\ TimersOfWindow'
  BY <1>1, <1>2, WindowLeft
<1>5. \A force \in BOOLEAN : WillConsolidate(force) => WillConsolidate(force)'
  <2>1. ASSUME NEW force \in BOOLEAN, WillConsolidate(force)
        PROVE  WillConsolidate(force)'
    <3>1. CASE \E i \in Changes : call[i].pc \in {"ensure", "arm"} /\ (force => call[i].force)
      BY <1>1, <1>2, <3>1 DEF WillConsolidate, OnItsWay, CallsBut
    <3>2. CASE window.open /\ (force => window.force)
      BY <1>1, <3>2 DEF WillConsolidate, OnItsWay
    <3>3. CASE \E i \in Changes : call[i].pc \in {"check", "compare"} /\ (force => call[i].popped.force)
      BY <1>1, <1>2, <3>3 DEF WillConsolidate, OnItsWay, CallsBut
    <3>4. CASE \E j \in Consolidations : run[j].pc \in {"queued", "running"}
      BY <1>1, <3>4 DEF WillConsolidate
    <3> QED
      BY <2>1, <3>1, <3>2, <3>3, <3>4 DEF WillConsolidate, OnItsWay
  <2> QED
    BY <2>1
<1>6. \A j \in Consolidations : run'[j].pc # "running"
  BY <1>1 DEF Consolidating
<1>7. Followed'
  BY <1>1, <1>5, <1>6 DEF Followed, SaysTheText, SaysTheMember
<1> QED
  BY <1>3, <1>4, <1>7 DEF SummaryInv

\* A timer that sees no net change.
LEMMA NoNetStep ==
  ASSUME SummaryInv, NEW k \in Changes, NoNetChange(k)
  PROVE  SummaryInv'
<1> DEFINE popped == call[k].popped
           Missed == popped.before # (popped.was # 0) \/ popped.was # summary \/ Outdated
<1>1. /\ SummaryTyped /\ Followed /\ call[k].pc = "compare"
      /\ ~ popped.force /\ popped.before = member
      /\ call' = [call EXCEPT ![k] = [NoCall EXCEPT !.pc = "done"]]
      /\ losses' = losses \union (IF Missed THEN {"netZero"} ELSE {})
      /\ UNCHANGED <<member, text, summary, window, run, extras>>
  BY DEF SummaryInv, NoNetChange, NetChange, Lose
<1>2. call' \in [Changes -> CallStates] /\ CallsBut(k) /\ call'[k].pc = "done"
  BY <1>1, CallDone
<1>3. SummaryTyped'
  BY <1>1, <1>2 DEF SummaryTyped, Losses
<1>4. HasTimer' /\ TimersOfWindow'
  BY <1>1, <1>2, WindowLeft
<1>5. CASE Missed
  <2>1. losses' # {}
    BY <1>1, <1>5
  <2> QED
    BY <1>3, <1>4, <2>1, Lost DEF SummaryInv
<1>6. CASE ~ Missed
  <2>1. losses' = losses /\ SaysTheMember(summary)
    BY <1>1, <1>6 DEF SaysTheMember
  <2>2. \A j \in Consolidations : run[j].pc = "running" =>
          SaysTheText(run[j].read) /\ SaysTheMember(run[j].read)
    BY <1>1, <1>6, NoneOutdated
  <2>3. OnItsWay(TRUE) => OnItsWay(TRUE)'
    BY <1>1, <1>2 DEF OnItsWay, CallsBut
  <2>4. WillConsolidate(TRUE) => WillConsolidate(TRUE)'
    BY <1>1, <1>2, <2>3 DEF WillConsolidate, CallsBut
  <2>5. Followed'
    BY <1>1, <2>1, <2>2, <2>4 DEF Followed, SaysTheText, SaysTheMember
  <2> QED
    BY <1>3, <1>4, <2>5 DEF SummaryInv
<1> QED
  BY <1>5, <1>6

\* A consolidation that is queued.
LEMMA QueueStep ==
  ASSUME SummaryTyped, NEW j \in Consolidations, Queue(j)
  PROVE  /\ run' \in [Consolidations -> RunStates] /\ run'[j].pc = "queued"
         /\ \A i \in Consolidations : run'[i].pc = "running" =>
              run[i].pc = "running" /\ run'[i].read = run[i].read
BY DEF SummaryTyped, Queue, RunStates

\* A timer that creates a consolidation.
LEMMA CreateStep ==
  ASSUME SummaryInv, NEW k \in Changes, NEW j \in Consolidations, CreateConsolidation(k, j)
  PROVE  SummaryInv'
<1>1. /\ SummaryTyped /\ Followed /\ call[k].pc = "compare" /\ Queue(j)
      /\ call' = [call EXCEPT ![k] = [NoCall EXCEPT !.pc = "done"]]
      /\ UNCHANGED <<member, text, summary, window, extras, losses>>
  BY DEF SummaryInv, CreateConsolidation
<1>2. call' \in [Changes -> CallStates] /\ CallsBut(k) /\ call'[k].pc = "done"
  BY <1>1, CallDone
<1>3. /\ run' \in [Consolidations -> RunStates] /\ run'[j].pc = "queued"
      /\ \A i \in Consolidations : run'[i].pc = "running" =>
           run[i].pc = "running" /\ run'[i].read = run[i].read
  BY <1>1, QueueStep
<1>4. SummaryTyped'
  BY <1>1, <1>2, <1>3 DEF SummaryTyped
<1>5. HasTimer' /\ TimersOfWindow'
  BY <1>1, <1>2, WindowLeft
<1>6. WillConsolidate(TRUE)' /\ WillConsolidate(FALSE)'
  BY <1>3 DEF WillConsolidate
<1>7. \A force \in BOOLEAN : OnItsWay(force) => OnItsWay(force)'
  BY <1>1, <1>2 DEF OnItsWay, CallsBut
<1>8. Followed'
  BY <1>1, <1>3, <1>6, <1>7 DEF Followed, SaysTheText, SaysTheMember
<1> QED
  BY <1>4, <1>5, <1>8 DEF SummaryInv

\* A step that leaves the calls and the window alone leaves as much on its way.
LEMMA CallsLeft ==
  ASSUME SummaryInv, UNCHANGED <<call, window>>
  PROVE  /\ HasTimer' /\ TimersOfWindow'
         /\ \A force \in BOOLEAN : OnItsWay(force) <=> OnItsWay(force)'
BY DEF SummaryInv, HasTimer, TimersOfWindow, OnItsWay

\* A consolidation that a user asks for.
LEMMA UserStep ==
  ASSUME SummaryInv, NEW j \in Consolidations, UserConsolidates(j)
  PROVE  SummaryInv'
<1>1. /\ SummaryTyped /\ Followed /\ Queue(j) /\ extras' = extras + 1
      /\ UNCHANGED <<member, text, summary, window, call, losses>>
  BY DEF SummaryInv, UserConsolidates, Extra
<1>2. /\ run' \in [Consolidations -> RunStates] /\ run'[j].pc = "queued"
      /\ \A i \in Consolidations : run'[i].pc = "running" =>
           run[i].pc = "running" /\ run'[i].read = run[i].read
  BY <1>1, QueueStep
<1>3. SummaryTyped'
  BY <1>1, <1>2 DEF SummaryTyped
<1>4. /\ HasTimer' /\ TimersOfWindow'
      /\ \A force \in BOOLEAN : OnItsWay(force) <=> OnItsWay(force)'
  BY <1>1, CallsLeft
<1>5. WillConsolidate(TRUE)' /\ WillConsolidate(FALSE)'
  BY <1>2 DEF WillConsolidate
<1>6. Followed'
  BY <1>1, <1>2, <1>4, <1>5 DEF Followed, SaysTheText, SaysTheMember
<1> QED
  BY <1>3, <1>4, <1>6 DEF SummaryInv

\* A consolidation that reads.
LEMMA BeginStep ==
  ASSUME SummaryInv, NEW j \in Consolidations, BeginConsolidation(j)
  PROVE  SummaryInv'
<1>1. /\ SummaryTyped /\ Followed
      /\ run' = [run EXCEPT ![j] = [pc |-> "running", read |-> Basis]]
      /\ UNCHANGED <<member, text, summary, window, call, extras, losses>>
  BY DEF SummaryInv, BeginConsolidation
<1>2. Basis \in Nat /\ SaysTheText(Basis) /\ SaysTheMember(Basis)
  BY <1>1, BasisSays
<1>3. [pc |-> "running", read |-> Basis] \in RunStates
  BY <1>2 DEF RunStates
<1>4. /\ run' \in [Consolidations -> RunStates]
      /\ run'[j].pc = "running" /\ run'[j].read = Basis
      /\ \A i \in Consolidations : i # j => run'[i] = run[i]
  BY <1>1, <1>3 DEF SummaryTyped
<1>5. SummaryTyped'
  BY <1>1, <1>4 DEF SummaryTyped
<1>6. /\ HasTimer' /\ TimersOfWindow'
      /\ \A force \in BOOLEAN : OnItsWay(force) <=> OnItsWay(force)'
  BY <1>1, CallsLeft
<1>7. WillConsolidate(TRUE)' /\ WillConsolidate(FALSE)'
  BY <1>4 DEF WillConsolidate
<1>8. Followed'
  BY <1>1, <1>2, <1>4, <1>6, <1>7 DEF Followed, SaysTheText, SaysTheMember
<1> QED
  BY <1>5, <1>6, <1>8 DEF SummaryInv

\* A consolidation that ends no longer runs; the others do as before.
LEMMA RunEnds ==
  ASSUME SummaryTyped, NEW j \in Consolidations, run' = [run EXCEPT ![j] = Idle]
  PROVE  /\ run' \in [Consolidations -> RunStates] /\ run'[j].pc # "running"
         /\ \A i \in Consolidations : i # j => run'[i] = run[i]
<1>1. Idle \in RunStates /\ Idle.pc # "running"
  BY DEF Idle, RunStates
<1> QED
  BY <1>1 DEF SummaryTyped

\* A consolidation that stores nothing.
LEMMA FailStep ==
  ASSUME SummaryInv, NEW j \in Consolidations, FailConsolidation(j)
  PROVE  SummaryInv'
<1>1. /\ SummaryTyped
      /\ extras' = extras + 1 /\ run' = [run EXCEPT ![j] = Idle]
      /\ losses' = losses \union {"failed"}
      /\ UNCHANGED <<member, text, summary, window, call>>
  BY DEF SummaryInv, FailConsolidation, Extra, Lose
<1>2. run' \in [Consolidations -> RunStates]
  BY <1>1, RunEnds
<1>3. SummaryTyped'
  BY <1>1, <1>2 DEF SummaryTyped, Losses
<1>4. HasTimer' /\ TimersOfWindow'
  BY <1>1, CallsLeft
<1> QED
  BY <1>1, <1>3, <1>4, Lost DEF SummaryInv

\* A consolidation that stores what it made and closes the window.
LEMMA StoreStep ==
  ASSUME SummaryInv, NEW j \in Consolidations, StoreSummary(j)
  PROVE  SummaryInv'
<1> DEFINE done == [NoCall EXCEPT !.pc = "done"]
<1>1. /\ SummaryTyped /\ HasTimer /\ TimersOfWindow /\ Followed
      /\ run[j].pc = "running" /\ summary' = run[j].read /\ window' = Closed
      /\ call' = IF window.open /\ window.timer # 0 /\ call[window.timer].pc = "armed"
                 THEN [call EXCEPT ![window.timer] = done] ELSE call
      /\ run' = [run EXCEPT ![j] = Idle]
      /\ losses' = losses \union (IF window.open /\ Outdated THEN {"cleared"} ELSE {})
      /\ UNCHANGED <<member, text, extras>>
  BY DEF SummaryInv, StoreSummary, Lose
<1>2. done \in CallStates /\ done.pc = "done"
  BY SummaryRecords DEF CallPcs
<1> HIDE DEF done
<1>3. /\ run' \in [Consolidations -> RunStates] /\ run'[j].pc # "running"
      /\ \A i \in Consolidations : i # j => run'[i] = run[i]
  BY <1>1, RunEnds
<1>4. window.timer # 0 => window.timer \in Changes
  BY <1>1, ChangeNumbers DEF Windows, SummaryTyped
<1>5. call' \in [Changes -> CallStates]
  BY <1>1, <1>2, <1>4 DEF SummaryTyped
<1>6. SummaryTyped' /\ HasTimer'
  <2>1. summary' \in Nat
    BY <1>1 DEF SummaryTyped, RunStates
  <2> QED
    BY <1>1, <1>3, <1>5, <2>1, SummaryRecords DEF SummaryTyped, HasTimer, Losses
<1>7. TimersOfWindow'
  <2>1. \A i \in Changes : call'[i].pc # "armed"
    <3>1. SUFFICES ASSUME NEW i \in Changes, call[i].pc = "armed"
                   PROVE  call'[i].pc # "armed"
      BY <1>1, <1>2, <1>4 DEF SummaryTyped
    <3>2. window.open /\ window.timer = i /\ i # 0
      BY <1>1, <3>1, ChangeNumbers DEF TimersOfWindow
    <3> QED
      BY <1>1, <1>2, <3>1, <3>2 DEF SummaryTyped
  <2> QED
    BY <1>1, <2>1, SummaryRecords DEF TimersOfWindow
<1>8. CASE window.open /\ Outdated
  <2>1. losses' # {}
    BY <1>1, <1>8
  <2> QED
    BY <1>6, <1>7, <2>1, Lost DEF SummaryInv
<1>9. CASE window.open /\ ~ Outdated
  <2>1. \A i \in Consolidations : run[i].pc = "running" =>
          SaysTheText(run[i].read) /\ SaysTheMember(run[i].read)
    BY <1>1, <1>9, NoneOutdated
  <2>2. SaysTheText(summary)' /\ SaysTheMember(summary)'
    BY <1>1, <2>1 DEF SaysTheText, SaysTheMember
  <2>3. Followed'
    BY <1>1, <1>3, <2>1, <2>2 DEF Followed, SaysTheText, SaysTheMember
  <2> QED
    BY <1>6, <1>7, <2>3 DEF SummaryInv
<1>10. CASE ~ window.open
  <2>1. call' = call /\ losses' = losses /\ ~ window'.open
    BY <1>1, <1>10, SummaryRecords
  <2>2. \A force \in BOOLEAN : OnItsWay(force) <=> OnItsWay(force)'
    BY <1>10, <2>1 DEF OnItsWay
  <2>3. \A force \in BOOLEAN : ~ WillConsolidate(force)' => ~ OnItsWay(force)
    BY <2>2 DEF WillConsolidate
  <2>4. \A i \in Consolidations : run'[i].pc = "running" => run[i].pc = "running" /\ run'[i] = run[i]
    BY <1>3
  <2>5. Followed'
    BY <1>1, <2>1, <2>2, <2>3, <2>4 DEF Followed, SaysTheText, SaysTheMember
  <2> QED
    BY <1>6, <1>7, <2>5 DEF SummaryInv
<1> QED
  BY <1>8, <1>9, <1>10

\* Every step keeps the invariant.
LEMMA SummaryStep ==
  ASSUME SummaryInv, [SummaryNext]_summaryState
  PROVE  SummaryInv'
<1>1. CASE UNCHANGED summaryState
  BY <1>1, CallsLeft DEF summaryState, SummaryInv, SummaryTyped, Followed, WillConsolidate,
     SaysTheText, SaysTheMember
<1>2. ASSUME NEW k \in Changes, Toggle(k) \/ Resummarize(k)
      PROVE  SummaryInv'
  BY <1>2, ToggleStep
<1>3. ASSUME NEW k \in Changes, Debounce(k)
      PROVE  SummaryInv'
  BY <1>3, UnreadStep, EnsureStep, ArmStep, MissStep, FireStep, SkipStep, GoOnStep, NoNetStep, CreateStep DEF Debounce
<1>4. ASSUME NEW j \in Consolidations, UserConsolidates(j) \/ Consolidate(j)
      PROVE  SummaryInv'
  BY <1>4, UserStep, BeginStep, StoreStep, FailStep DEF Consolidate
<1> QED
  BY <1>1, <1>2, <1>3, <1>4 DEF SummaryNext

\* A quiet debounce has no open window: nothing is on its way.
LEMMA QuietIsSettled ==
  ASSUME SummaryInv
  PROVE  SummaryTypeOK /\ QuietSummaryIsCurrent
<1>1. SummaryTyped /\ HasTimer /\ TimersOfWindow /\ Followed
  BY DEF SummaryInv
<1>2. SummaryTypeOK
  BY <1>1 DEF SummaryTyped, HasTimer, SummaryTypeOK, CallStates, RunStates
<1>3. ASSUME SummaryQuiet, losses = {}
      PROVE  summary = Basis
  <2>1. window.open => window.timer \in Changes \union {0}
    BY <1>1, ChangeNumbers DEF SummaryTyped, Windows
  <2>2. ~ window.open
    BY <1>1, <1>3, <2>1 DEF SummaryQuiet, HasTimer, TimersOfWindow
  <2>3. ~ WillConsolidate(TRUE) /\ ~ WillConsolidate(FALSE)
    BY <1>3, <2>2 DEF SummaryQuiet, WillConsolidate, OnItsWay
  <2>4. SaysTheText(summary) /\ SaysTheMember(summary)
    BY <1>1, <1>3, <2>3 DEF Followed
  <2> QED
    BY <1>1, <2>4 DEF SaysTheText, SaysTheMember, Basis, SummaryTyped
<1> QED
  BY <1>2, <1>3 DEF QuietSummaryIsCurrent

\* Once no call, timer or consolidation is left, the collection's summary is made of what
\* takes part, unless a change was lost in one of the ways named (schedule_debounced_consolidate,
\* _do_consolidate, clear_debounce).
THEOREM SummaryIsCurrent == SummarySpec => []QuietSummaryIsCurrent
<1>1. SummaryInit => SummaryInv
  BY SummaryInitInv
<1>2. SummaryInv /\ [SummaryNext]_summaryState => SummaryInv'
  BY SummaryStep
<1>3. SummaryInv => QuietSummaryIsCurrent
  BY QuietIsSettled
<1> QED
  BY <1>1, <1>2, <1>3, PTL DEF SummarySpec

\* The state of the debounce is well-formed; an open window without a timer has its call
\* under way.
THEOREM SummaryTypes == SummarySpec => []SummaryTypeOK
<1>1. SummaryInit => SummaryInv
  BY SummaryInitInv
<1>2. SummaryInv /\ [SummaryNext]_summaryState => SummaryInv'
  BY SummaryStep
<1>3. SummaryInv => SummaryTypeOK
  BY QuietIsSettled
<1> QED
  BY <1>1, <1>2, <1>3, PTL DEF SummarySpec

----------------------------------------------------------------------------
\* The coverage line of a collection.

\* A generation never runs in a cooling period: only the holder of the lock
\* begins and ends one.
GenerationIsWarm == owner # NoOwner => ~cooling

\* Somebody will see to a change the line does not have: a task or a request
\* that has yet to count the others, one on its way to update_coverage, the
\* generation under way if it read the files as they are, or the timer.
SomeoneWill ==
  \/ Undecided # {}
  \/ \E q \in Requests : actor[q] = "changed"
  \/ \E a \in Actors : actor[a] = "update"
  \/ read = files /\ \E a \in Actors : actor[a] = "generate"
  \/ cooling /\ dirty

PassedOn == neglects = {} /\ covered # files => SomeoneWill

\* The line is never ahead of the files, nor of what is being written.
NeverAhead ==
  /\ covered <= files
  /\ owner # NoOwner => covered <= read /\ read <= files

\* The timer does not count tasks, nor does it trigger.
TimerIsTimer == actor[Timer] \in {"off", "waiting", "fired", "generate"}

TimerKept == CoolingHasTimer /\ TimerIsTimer /\ GenerationIsWarm

CoverageInv ==
  CoverageTypeOK /\ CoolingHasTimer /\ TimerIsTimer /\ GenerationIsWarm /\ NeverAhead /\ PassedOn

\* The timer is no task and no request, and NoOwner is nobody.
LEMMA Distinct ==
  /\ Timer \notin CoverageTasks /\ Timer \notin Requests
  /\ Timer \in Actors /\ NoOwner \notin Actors
  BY CoverageSetsAssumption DEF CoverageTasks, Actors

\* CoverageInit has nothing to see to.
LEMMA InitCoverageInv == CoverageInit => CoverageInv
  <1> SUFFICES ASSUME CoverageInit PROVE CoverageInv
    OBVIOUS
  <1>1. CoverageTypeOK
    BY Distinct DEF CoverageInit, CoverageTypeOK, ActorPcs
  <1>2. CoolingHasTimer /\ TimerIsTimer /\ GenerationIsWarm /\ NeverAhead /\ PassedOn
    BY Distinct DEF CoverageInit, CoolingHasTimer, TimerIsTimer, GenerationIsWarm, NeverAhead, PassedOn
  <1> QED
    BY <1>1, <1>2 DEF CoverageInv

\* Every step keeps the types and the lock: only its holder generates.
LEMMA TypeStep ==
  ASSUME CoverageInv, [CoverageNext]_coverageState
  PROVE  CoverageTypeOK'
  <1> USE Distinct DEF CoverageInv, CoverageTypeOK, ActorPcs, Goto, Neglect, After, Neglects
  <1>1. ASSUME NEW a \in Actors, CreateIngest(a) PROVE CoverageTypeOK'
    BY <1>1 DEF CreateIngest
  <1>2. ASSUME NEW a \in Actors, ChangeFiles(a) PROVE CoverageTypeOK'
    BY <1>2 DEF ChangeFiles
  <1>3. ASSUME NEW a \in Actors, AskRefresh(a) \/ DeleteQuietly(a) PROVE CoverageTypeOK'
    <2>1. CASE AskRefresh(a)
      BY <2>1 DEF AskRefresh
    <2>2. CASE DeleteQuietly(a)
      BY <2>2 DEF DeleteQuietly
    <2> QED
      BY <1>3, <2>1, <2>2
  <1>4. ASSUME NEW a \in Actors, CountOthers(a) PROVE CoverageTypeOK'
    BY <1>4 DEF CountOthers
  <1>5. ASSUME NEW a \in Actors, MarkDirty(a) \/ Defer(a) \/ Complete(a) PROVE CoverageTypeOK'
    BY <1>5 DEF MarkDirty, Defer, Complete
  <1>6. ASSUME NEW a \in Actors, Update(a) PROVE CoverageTypeOK'
    BY <1>6 DEF Update, Generate
  <1>7. ASSUME NEW a \in Actors, Finish(a) PROVE CoverageTypeOK'
    BY <1>7 DEF Finish, EnterCooling
  <1>8. ASSUME NEW a \in Actors, FailGeneration(a) PROVE CoverageTypeOK'
    <2>1. CASE EnterCooling(a)
      <3>1. neglects' \subseteq Neglects /\ faults' \in Nat /\ UNCHANGED <<files, covered>>
        BY <1>8 DEF FailGeneration
      <3>2. actor' \in [Actors -> ActorPcs] /\ \A b \in Actors : owner' = b <=> actor'[b] = "generate"
        BY <1>8, <2>1 DEF FailGeneration, EnterCooling
      <3> QED
        BY <2>1, <3>1, <3>2 DEF EnterCooling
    <2>2. CASE ~ EnterCooling(a)
      BY <1>8, <2>2 DEF FailGeneration
    <2> QED
      BY <2>1, <2>2
  <1>9. ASSUME NEW t \in CoverageTasks, EndWithoutTrigger(t) PROVE CoverageTypeOK'
    BY <1>9 DEF EndWithoutTrigger, Undecided, Actors
  <1>10. CASE TimerFires
    BY <1>10 DEF TimerFires
  <1>11. CASE EndCooling
    <2>1. neglects' \subseteq Neglects /\ cooling' = FALSE /\ UNCHANGED <<files, covered, faults>>
      BY <1>11 DEF EndCooling
    <2>2. CASE dirty /\ ActiveTasks = {}
      <3>1. Generate(Timer) /\ owner = NoOwner
        BY <1>11, <2>2 DEF EndCooling
      <3> QED
        BY <2>1, <3>1 DEF Generate
    <2>3. CASE ~ (dirty /\ ActiveTasks = {})
      <3>1. Goto(Timer, "off") /\ UNCHANGED <<read, owner, dirty>> /\ actor[Timer] = "fired"
        BY <1>11, <2>3 DEF EndCooling
      <3> QED
        BY <2>1, <3>1
    <2> QED
      BY <2>2, <2>3
  <1>12. CASE UNCHANGED coverageState
    BY <1>12 DEF coverageState
  <1>13. CASE OverwriteLine
    BY <1>13 DEF OverwriteLine
  <1> QED
    BY <1>1, <1>2, <1>3, <1>4, <1>5, <1>6, <1>7, <1>8, <1>9, <1>10, <1>11, <1>12, <1>13
       DEF CoverageNext, Trigger

\* The timer moves with the cooling flag, and both only with the lock at hand.
LEMMA CoolingStep ==
  ASSUME CoverageInv, [CoverageNext]_coverageState
  PROVE  TimerKept'
  <1> USE Distinct DEF CoverageInv, CoverageTypeOK, CoolingHasTimer, TimerIsTimer, GenerationIsWarm, TimerKept, Goto, After
  <1>1. ASSUME NEW a \in Actors,
               CreateIngest(a) \/ ChangeFiles(a) \/ AskRefresh(a) \/ DeleteQuietly(a)
        PROVE  TimerKept'
    BY <1>1 DEF CreateIngest, ChangeFiles, AskRefresh, DeleteQuietly
  <1>2. ASSUME NEW a \in Actors, CountOthers(a) PROVE TimerKept'
    BY <1>2 DEF CountOthers
  <1>3. ASSUME NEW a \in Actors, MarkDirty(a) \/ Defer(a) \/ Complete(a)
        PROVE  TimerKept'
    BY <1>3 DEF MarkDirty, Defer, Complete
  <1>4. ASSUME NEW a \in Actors, Update(a) PROVE TimerKept'
    BY <1>4 DEF Update, Generate
  <1>5. ASSUME NEW a \in Actors, Finish(a) PROVE TimerKept'
    BY <1>5 DEF Finish, EnterCooling
  <1>6. ASSUME NEW a \in Actors, FailGeneration(a) PROVE TimerKept'
    <2>1. CASE EnterCooling(a)
      BY <1>6, <2>1 DEF FailGeneration, EnterCooling
    <2>2. CASE ~ EnterCooling(a)
      BY <1>6, <2>2 DEF FailGeneration
    <2> QED
      BY <2>1, <2>2
  <1>7. ASSUME NEW t \in CoverageTasks, EndWithoutTrigger(t)
        PROVE  TimerKept'
    BY <1>7 DEF EndWithoutTrigger, Undecided, Actors
  <1>8. CASE TimerFires
    BY <1>8 DEF TimerFires
  <1>9. CASE EndCooling
    <2>1. cooling' = FALSE /\ (Generate(Timer) \/ Goto(Timer, "off"))
      BY <1>9 DEF EndCooling
    <2> QED
      BY <2>1 DEF Generate
  <1>10. CASE UNCHANGED coverageState
    BY <1>10 DEF coverageState
  <1>11. CASE OverwriteLine
    BY <1>11 DEF OverwriteLine
  <1> QED
    BY <1>1, <1>2, <1>3, <1>4, <1>5, <1>6, <1>7, <1>8, <1>9, <1>10, <1>11 DEF CoverageNext, Trigger

\* Files only grow in number; the holder of the lock writes the line, others an older one.
LEMMA AheadStep ==
  ASSUME CoverageInv, [CoverageNext]_coverageState
  PROVE  NeverAhead'
  <1> USE Distinct DEF CoverageInv, CoverageTypeOK, NeverAhead
  <1>1. ASSUME NEW a \in Actors,
               CreateIngest(a) \/ ChangeFiles(a) \/ AskRefresh(a) \/ DeleteQuietly(a)
        PROVE  NeverAhead'
    BY <1>1 DEF CreateIngest, ChangeFiles, AskRefresh, DeleteQuietly
  <1>2. ASSUME NEW a \in Actors, CountOthers(a) \/ MarkDirty(a) \/ Defer(a) \/ Complete(a)
        PROVE  NeverAhead'
    BY <1>2 DEF CountOthers, MarkDirty, Defer, Complete
  <1>3. ASSUME NEW a \in Actors, Update(a) PROVE NeverAhead'
    BY <1>3 DEF Update, Generate
  <1>4. ASSUME NEW a \in Actors, Finish(a) PROVE NeverAhead'
    BY <1>4 DEF Finish, EnterCooling
  <1>5. ASSUME NEW a \in Actors, FailGeneration(a) PROVE NeverAhead'
    BY <1>5 DEF FailGeneration, EnterCooling
  <1>6. ASSUME NEW t \in CoverageTasks, EndWithoutTrigger(t) PROVE NeverAhead'
    BY <1>6 DEF EndWithoutTrigger
  <1>7. CASE TimerFires
    BY <1>7 DEF TimerFires
  <1>8. CASE EndCooling
    BY <1>8 DEF EndCooling, Generate
  <1>9. CASE UNCHANGED coverageState
    BY <1>9 DEF coverageState
  <1>10. CASE OverwriteLine
    BY <1>10 DEF OverwriteLine
  <1> QED
    BY <1>1, <1>2, <1>3, <1>4, <1>5, <1>6, <1>7, <1>8, <1>9, <1>10 DEF CoverageNext, Trigger

\* Whoever stops seeing to a change leaves somebody else who will, or it is
\* one of the neglects.
LEMMA PassedOnStep ==
  ASSUME CoverageInv, [CoverageNext]_coverageState
  PROVE  PassedOn'
  <1> SUFFICES ASSUME neglects' = {}, covered' # files'
               PROVE  SomeoneWill'
    BY DEF PassedOn
  <1> USE Distinct DEF CoverageInv, CoverageTypeOK, Goto, After, SomeoneWill, Undecided
  <1>1. ASSUME NEW a \in Actors, CreateIngest(a) PROVE SomeoneWill'
    BY <1>1 DEF CreateIngest
  <1>2. ASSUME NEW a \in Actors, ChangeFiles(a) PROVE SomeoneWill'
    BY <1>2 DEF ChangeFiles, Actors
  <1>3. ASSUME NEW a \in Actors, AskRefresh(a) PROVE SomeoneWill'
    BY <1>3 DEF AskRefresh
  <1>4. ASSUME NEW a \in Actors, DeleteQuietly(a) PROVE SomeoneWill'
    BY <1>4 DEF DeleteQuietly, Neglect
  <1>5. ASSUME NEW a \in Actors, CountOthers(a) PROVE SomeoneWill'
    <2>1. CASE ActiveTasks \ {a} = {}
      BY <1>5, <2>1 DEF CountOthers
    <2>2. CASE ActiveTasks \ {a} # {}
      <3>1. Undecided \ {a} # {}
        BY <1>5, <2>2 DEF CountOthers, Neglect
      <3>2. PICK t \in CoverageTasks : t # a /\ actor[t] \in {"pending", "changed"}
        BY <3>1
      <3>3. actor'[t] = actor[t]
        BY <1>5, <3>2 DEF CountOthers, Actors
      <3> QED
        BY <3>2, <3>3
    <2> QED
      BY <2>1, <2>2
  <1>6. neglects = {} /\ covered # files => SomeoneWill
    BY DEF PassedOn
  <1>7. ASSUME NEW a \in Actors, MarkDirty(a) \/ Defer(a) \/ Complete(a) PROVE SomeoneWill'
    <2>1. CASE MarkDirty(a)
      <3>1. neglects = {} /\ covered # files /\ actor[a] = "defer" /\ UNCHANGED <<files, read, cooling>>
        BY <2>1 DEF MarkDirty
      <3>2. dirty' /\ \A b \in Actors : b # a => actor'[b] = actor[b]
        BY <2>1 DEF MarkDirty
      <3> QED
        BY <1>6, <3>1, <3>2 DEF Actors
    <2>2. CASE Defer(a)
      BY <2>2 DEF Defer
    <2>3. CASE Complete(a)
      <3>1. neglects = {} /\ covered # files /\ actor[a] = "handled" /\ UNCHANGED <<files, read, cooling, dirty>>
        BY <2>3 DEF Complete
      <3>2. \A b \in Actors : b # a => actor'[b] = actor[b]
        BY <2>3 DEF Complete
      <3> QED
        BY <1>6, <3>1, <3>2 DEF Actors
    <2> QED
      BY <1>7, <2>1, <2>2, <2>3
  <1>8. ASSUME NEW a \in Actors, Update(a) PROVE SomeoneWill'
    BY <1>8 DEF Update, Generate
  <1>9. ASSUME NEW a \in Actors, Finish(a) PROVE SomeoneWill'
    <2>1. owner = a /\ ~ cooling /\ read # files
      BY <1>9 DEF Finish, EnterCooling, GenerationIsWarm
    <2>2. neglects = {} /\ covered # files
      BY <1>9, <2>1 DEF Finish, EnterCooling, NeverAhead
    <2>3. \/ \E t \in CoverageTasks : actor[t] \in {"pending", "changed"}
          \/ \E q \in Requests : actor[q] = "changed"
          \/ \E b \in Actors : actor[b] = "update"
      BY <1>6, <2>1, <2>2
    <2>4. \A b \in Actors : b # a /\ b # Timer => actor'[b] = actor[b]
      BY <1>9 DEF Finish, EnterCooling
    <2>5. actor[a] = "generate" /\ actor[Timer] \notin {"update"}
      BY <1>9 DEF Finish, TimerIsTimer
    <2> QED
      BY <2>3, <2>4, <2>5 DEF Actors
  <1>10. ASSUME NEW a \in Actors, FailGeneration(a) PROVE SomeoneWill'
    BY <1>10 DEF FailGeneration, Neglect
  <1>11. ASSUME NEW t \in CoverageTasks, EndWithoutTrigger(t) PROVE SomeoneWill'
    BY <1>6, <1>11 DEF EndWithoutTrigger, Neglect, Actors
  <1>12. CASE TimerFires
    BY <1>6, <1>12 DEF TimerFires
  <1>13. CASE EndCooling
    <2>1. CASE dirty /\ ActiveTasks = {}
      BY <1>13, <2>1 DEF EndCooling, Generate
    <2>2. CASE ~ (dirty /\ ActiveTasks = {})
      <3>1. neglects = {} /\ covered # files /\ UNCHANGED <<files, read>>
        BY <1>13, <2>2 DEF EndCooling, Neglect
      <3>2. actor[Timer] = "fired" /\ \A b \in Actors : b # Timer => actor'[b] = actor[b]
        BY <1>13, <2>2 DEF EndCooling
      <3>3. CASE dirty
        <4>1. Undecided # {} \/ \E t \in CoverageTasks : actor[t] = "update"
          BY <1>13, <2>2, <3>3 DEF EndCooling, Neglect
        <4> QED
          BY <4>1, <3>2 DEF Actors
      <3>4. CASE ~ dirty
        BY <1>6, <3>1, <3>2, <3>4 DEF Actors
      <3> QED
        BY <3>3, <3>4
    <2> QED
      BY <2>1, <2>2
  <1>14. CASE UNCHANGED coverageState
    BY <1>6, <1>14 DEF coverageState
  <1>15. CASE OverwriteLine
    BY <1>15 DEF OverwriteLine, Neglect
  <1> QED
    BY <1>1, <1>2, <1>3, <1>4, <1>5, <1>7, <1>8, <1>9, <1>10, <1>11, <1>12, <1>13, <1>14, <1>15
       DEF CoverageNext, Trigger

\* All of it holds of every behaviour.
LEMMA CoverageInvariant == CoverageSpec => []CoverageInv
  <1>1. CoverageInv /\ [CoverageNext]_coverageState => CoverageInv'
    BY TypeStep, CoolingStep, AheadStep, PassedOnStep DEF CoverageInv, TimerKept
  <1> QED
    BY <1>1, InitCoverageInv, PTL DEF CoverageSpec

\* Catalog._lock is held by exactly the thread or task that generates.
THEOREM CoverageTypeCorrect == CoverageSpec => []CoverageTypeOK
  BY CoverageInvariant, PTL DEF CoverageInv

\* A cooling period always has a timer that ends it.
THEOREM CoolingEnds == CoverageSpec => []CoolingHasTimer
  BY CoverageInvariant, PTL DEF CoverageInv

\* When nothing is under way the coverage line is that of the files, but for
\* the named neglects: whoever could have seen to a change has done so.
THEOREM NothingPassedOver == CoverageSpec => []QuietCoverageIsCurrent
  <1>1. CoverageInv => QuietCoverageIsCurrent
    <2> SUFFICES ASSUME CoverageInv, CoverageQuiet, neglects = {}
                 PROVE  covered = files
      BY DEF QuietCoverageIsCurrent
    <2>1. ~ SomeoneWill
      BY Distinct DEF CoverageInv, CoolingHasTimer, CoverageQuiet, SomeoneWill, Undecided, Actors
    <2> QED
      BY <2>1 DEF CoverageInv, PassedOn
  <1> QED
    BY <1>1, CoverageInvariant, PTL
=============================================================================
