SPECIFICATION FairSpec
CONSTANTS
  Fd = {f1}
  Handle = {h1, h2}
  Callback = {c1}
  NoHandle = NoHandle
  NoPlace = NoPlace
INVARIANTS NeverBusy RegisteredIsWatched
PROPERTIES ServedBetweenCalls ReadyIsServed
CHECK_DEADLOCK FALSE
