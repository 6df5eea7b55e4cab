SPECIFICATION FairSpec
CONSTANTS
  Text = {a, b}
  Blank = blank
  Draft = {l1}
  Shared = 0
  MaxSync = 2
  MaxRemote = 0
  MaxReject = 0
  MaxCrash = 0
PROPERTIES MainUnblocks ConfirmedLands
