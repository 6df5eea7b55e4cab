SPECIFICATION ClientFairSpec
CONSTANTS
  Targets = {a, b}
  NoUser = nobody
  Refused = {b}
  MaxListens = 2
  MaxFaults = 0
  MaxNews = 0
  MaxMismatches = 0
  MaxUnread = 1
PROPERTY UnknownEnds
CHECK_DEADLOCK FALSE
