SPECIFICATION FairSpec
CONSTANTS
  Sources <- BusSources
INVARIANTS
  OnlyLeftoversDisable
  NeverSleepsUnwatched
  SingleEventsNeverBusy
PROPERTIES
  EverySourceServed
