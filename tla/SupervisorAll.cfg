\* Either kind of VMM; more clients than the channel has room for.
CONSTANTS
  Clients = {c1, c2, c3}
  c1 = c1
  c2 = c2
  c3 = c3
  Kinds = {"graceful", "force", "park"}
  Cap = 1
  Adopted = {FALSE, TRUE}
  Faults = {"end", "api", "disk"}
SPECIFICATION FairSpec
CHECK_DEADLOCK FALSE
INVARIANTS
  ParkAnswerTrue
  OwnEndRecorded
PROPERTIES
  EveryoneAnswered
  ForceOvertakes
