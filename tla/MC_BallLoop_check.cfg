SPECIFICATION Spec
CONSTANTS
  Sources <- BusSources
INVARIANTS
  CheckReportsReady
