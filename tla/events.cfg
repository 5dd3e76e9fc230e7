\* Two publishing threads, a ring of two, a queue of one; two broken connections and a
\* restart; change 3 is hidden from the actor, change 2 is not
\* re-read on a resync, the event of change 4 names no collection.
SPECIFICATION FairSpec
CONSTANTS
  p1 = p1
  p2 = p2
  Publishers = {p1, p2}
  RingSize = 2
  QueueSize = 1
  Private = {3}
  Unreconciled = {2}
  Unscoped = {4}
  MaxChanges = 4
  MaxDrops = 2
  MaxRestarts = 1
INVARIANTS TypeOK ChangesMoveOn NothingAheadIsLost NothingElseMissed
PROPERTY ChangesArrive
CHECK_DEADLOCK FALSE
