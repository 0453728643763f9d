SPECIFICATION FairSpec
CONSTANTS
  p1 = p1
  p2 = p2
  Players = {p1, p2}
  Hazards <- LaunchOrder
  MaxBoots = 1
PROPERTIES
  GrabFailureRetries
CHECK_DEADLOCK FALSE
