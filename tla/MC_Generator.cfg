SPECIFICATION Spec
CONSTANTS
  Half <- MCHalf
  FloatStep = 2
  Interfaces <- MCInterfaces
  Types <- MCTypes
  Samples <- MCSamples
  MaxEdits = 1
  MaxFailures = 1
  Missing = Missing
INVARIANTS
  AllOrNothing
  SuccessIsComplete
  ValuesArrive
