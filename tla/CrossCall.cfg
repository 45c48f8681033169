SPECIFICATION CrossFairSpec
CONSTANTS
  Handle = {f1, r1}
  WithFuture = {f1}
  LeafKind <- Kinds
  MaxWidth = 2
INVARIANTS FutureFollowsTask FutureTellsOutcome CancelStaysLocal ErrorsSurface
  NothingOutlivesCall RightCancellation LoneErrorIsBare
PROPERTY CancelGetsThrough
CHECK_DEADLOCK FALSE
