\* One publisher, nothing evicted, no restart: a resync, then a broken connection.
SPECIFICATION Spec
CONSTANTS
  p1 = p1
  Publishers = {p1}
  RingSize = 3
  QueueSize = 1
  Private = {}
  Unreconciled = {}
  Unscoped = {}
  MaxChanges = 3
  MaxDrops = 1
  MaxRestarts = 0
INVARIANT NothingMissed
CHECK_DEADLOCK FALSE
