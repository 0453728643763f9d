SPECIFICATION FairSpec
CONSTANTS
  Sources <- BusSources
INVARIANTS
  NeverBusy
  NeverSleepsOnWork
PROPERTIES
  EverySourceServed
