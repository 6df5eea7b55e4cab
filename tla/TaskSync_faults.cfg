SPECIFICATION Spec
CONSTANTS
  Text = {a, b}
  Blank = blank
  Draft = {l1}
  Shared = 1
  MaxSync = 1
  MaxRemote = 1
  MaxReject = 1
  MaxCrash = 1
SYMMETRY Symmetry
CONSTRAINT OneKindOfFault
INVARIANTS ConfirmedIsSafe SettledMirrors
PROPERTIES OnlySnapshotDetaches ImplementsContract
