SPECIFICATION FairSpec
CONSTANTS
  Targets = {a, b}
  NoUser = nobody
  Refused = {b}
  MaxListens = 3
  MaxFaults = 1
  MaxNews = 1
  MaxMismatches = 1
  MaxUnread = 1
INVARIANTS NoAssertFails AcceptedAreFresh OnlineIsHonest
PROPERTY ViewsCatchUp
CHECK_DEADLOCK FALSE
