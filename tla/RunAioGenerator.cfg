SPECIFICATION FairSpec
CONSTANTS
  Consumer = {c1, c2}
  MaxItems = 2
  Handling = {c1}
  Exposed = {c2}
  Fatal = {c2}
INVARIANTS NoStrayReschedule EveryItemYielded
PROPERTY CancelEndsWait
CHECK_DEADLOCK FALSE
