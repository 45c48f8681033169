SPECIFICATION OpenFairSpec
CONSTANTS
  a1 = a1  wake1 = wake1  done1 = done1  sync = sync
  AioTasks = {a1}
  Soon = {sync, wake1, done1}
  Own = {sync, wake1, done1}
  Asyncs = {}
  Waiters = {}
  Threaded = {}
  Timers = {}
  WakeOf <- MCWakeOf
  DoneOf <- MCDoneOf
  SyncHandle = sync
  ExitStop = ExitStop
  EarlyStop = TRUE
  Unbounded = Unbounded
  QueueLen = Unbounded
  MaxTime = 0
  NoHandle = NoHandle
PROPERTY ShutdownCompletes
CHECK_DEADLOCK FALSE
