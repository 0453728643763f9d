SPECIFICATION Spec
CONSTANTS
  p1 = p1
  p2 = p2
  p3 = p3
  Players = {p1, p2, p3}
  Hazards <- EveryHazard
  MaxBoots = 2
  NoOne = NoOne
INVARIANTS
  HolderKeepsBallGrabbed
  AtMostOneHolder
  OneMessageInFlight
  SlotMeansGrabbing
  TimersFollowState
PROPERTIES
  OnlyHolderDrops
  ImplementsToken
CHECK_DEADLOCK FALSE
