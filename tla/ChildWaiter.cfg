SPECIFICATION FairSpec
CONSTANTS
  t1 = t1  t2 = t2  t3 = t3  p1 = p1  p2 = p2  w1 = w1  w2 = w2  w3 = w3
  Task = {t1, t2, t3}
  Pid = {p1, p2}
  Waiter = {w1, w2, w3}
  Waits <- MCWaits
  MayRetry = {t2}
  Elsewhere = TRUE
  Births <- MCBirths
  NoWaiter = NoWaiter
INVARIANTS AloneGetsStatus OwnStatus
PROPERTIES ExitIsNoticed
CHECK_DEADLOCK FALSE
