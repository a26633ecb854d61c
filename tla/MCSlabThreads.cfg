SPECIFICATION EitherSpec
CONSTANTS
  Threads = {t1, t2, t3}
  NoThread = NoThread
  Capacity = 2
  MaxSlabs = 2
  Callers = {c1, c2}
  Slot = {s1, s2}
  NoSlot = NoSlot
  MaxTracked = 2
INVARIANTS TypeOK ExclusiveOwnership NothingLost
  ThreadTypeOK RecordOutlivesDriver TrackedWhileRunning
PROPERTIES OwnReturnAccepted FailsOnlyWhenExhausted MutexReleased ImplementsPool
  CallProtocol StopHonoured
CHECK_DEADLOCK FALSE
