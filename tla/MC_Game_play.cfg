SPECIFICATION FairSpec
CONSTANTS
  p1 = p1
  p2 = p2
  p3 = p3
  Players = {p1, p2, p3}
  Hazards <- NoHazards
  MaxBoots = 1
INVARIANTS
  NobodyStuck
PROPERTIES
  EveryPlayerLeaves
  BallRestsAgain
