SPECIFICATION Spec
CONSTANTS
  Clients = {c1, c2}
  Hazards = {}
CHECK_DEADLOCK FALSE
INVARIANTS
  RunCompletesCall
