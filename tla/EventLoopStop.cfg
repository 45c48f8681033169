SPECIFICATION SigSpec
CONSTANTS
  g1 = g1  g2 = g2  x1 = x1  a1 = a1  w1 = w1
  ExitStop = ExitStop
  Soon = {}
  Threaded = {g1, g2, x1}
  Signals = {g1, g2}
  Timers = {}
  Asyncs = {a1}
  Waiters = {w1}
  Unbounded = Unbounded
  QueueLen = 2
  MaxTime = 0
  NoHandle = NoHandle
INVARIANTS NoHandleLost ParkedMeansIdle OriginalRestored
PROPERTIES StopBarrier ImplementsContract CallsRegistered
SYMMETRY SignalsSymmetry
CHECK_DEADLOCK FALSE
