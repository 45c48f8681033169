SPECIFICATION FairSpec
CONSTANTS
  Callback = {c1}
  MaxRuns = 3
  DoStop = DoStop
  NoHandle = NoHandle
INVARIANTS StopPendingIsQueued SysExitIsNotStop
PROPERTIES CompletedIsReturned CallEnds
CHECK_DEADLOCK FALSE
