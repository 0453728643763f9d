SPECIFICATION FairSpec
CONSTANTS
  ring = ring
  hangup = hangup
  Methods = {ring, hangup}
  Idle = Idle
  MaxCalls = 3
INVARIANTS
  SlotHasItsCallback
  NoStaleReply
  OpenCallsTracked
PROPERTIES
  OneOutcome
  EveryCallEnds
