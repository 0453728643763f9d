SPECIFICATION FairSpec
CONSTANTS
  Alices = {a1, a2}
  Bobs = {b1, b2}
  Others = {o1}
  MaxCalls = 2
  NoOne = NoOne
CHECK_DEADLOCK FALSE
INVARIANTS
  OneOpenRing
  AliceRingsAtBob
  RefusedByAnother
  SilenceHasAReason
  RingUnderWay
PROPERTIES
  AliceHearsSomething
