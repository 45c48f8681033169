SPECIFICATION ExitFairSpec
CONSTANTS
  a1 = a1  wake1 = wake1  done1 = done1  sync = sync  s1 = s1  t1 = t1
  gen1 = gen1  sentinel = sentinel  fin1 = fin1  close1 = close1
  closeS = closeS  set1 = set1  fin2 = fin2
  AioTasks = {a1}
  Soon = {sync, s1, wake1, done1, fin1, close1, closeS, set1, fin2}
  Own = {sync, wake1, done1, fin1, close1, closeS, set1, fin2}
  Asyncs = {t1}
  Waiters = {}
  Threaded = {}
  Timers = {}
  WakeOf <- MCWakeOf
  DoneOf <- MCDoneOf
  SyncHandle = sync
  Gens = {gen1}
  Sentinel = sentinel
  FinStart = fin1
  CloseOf <- MCCloseOf
  SetEvent = set1
  FinDone = fin2
  ExitStop = ExitStop
  EarlyStop = TRUE
  MayFail = TRUE
  Unbounded = Unbounded
  QueueLen = Unbounded
  MaxTime = 0
  NoHandle = NoHandle
INVARIANTS NobodyWaitsForSleeper FinalizersStart
PROPERTIES SubmittedRunFirst ExitCompletes CancellationGetsIn
CHECK_DEADLOCK FALSE
