SPECIFICATION FairSpec
CONSTANTS
  x1 = x1  a1 = a1  t1 = t1  t2 = t2
  ExitStop = ExitStop
  Soon = {}
  Threaded = {x1}
  Timers = {t1, t2}
  Asyncs = {a1}
  Waiters = {}
  Unbounded = Unbounded
  QueueLen = Unbounded
  MaxTime = 1
  NoHandle = NoHandle
PROPERTIES TimerOrder ExitLeavesNothing Served
CHECK_DEADLOCK FALSE
