SPECIFICATION Spec
CONSTANTS
  Callback = {}
  MaxRuns = 2
  DoStop = DoStop
  NoHandle = NoHandle
INVARIANT StopsOwnCall
CHECK_DEADLOCK FALSE
