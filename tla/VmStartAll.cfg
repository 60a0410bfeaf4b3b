\* One address, one snapshot, and two tries to deliver a config.
CONSTANTS
  MaxConns = 2
SPECIFICATION FairSpec
INVARIANTS
  NothingLeaks
  InitSurvives
PROPERTIES
  KeepsSlot
  ShutdownReachesApp
