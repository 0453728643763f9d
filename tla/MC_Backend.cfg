SPECIFICATION Spec
CONSTANTS
  p1 = p1
  p2 = p2
  Procs = {p1, p2}
  Addresses <- SomeAddresses
  Letters <- TwoLetters
  MaxLength = 6
  NoOne = NoOne
SYMMETRY ProcSymmetry
INVARIANTS
  ServersReachable
  ObjectsAlive
  NothingLeftBehind
  ContextIsCurrent
  FieldsAreTheAddress
