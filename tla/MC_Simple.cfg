SPECIFICATION FairSpec
CONSTANTS
  Clients = {c1, c2}
  Hazards = {"early", "stop", "timeout", "send", "fail"}
CHECK_DEADLOCK FALSE
INVARIANTS
  SecondCallRefused
  ObjectsAreKnown
  InstancesAnswer
PROPERTIES
  ClientsExit
