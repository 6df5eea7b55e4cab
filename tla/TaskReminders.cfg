CONSTANTS
  Doc = {d1, d2}
  Draft = {l1}
  MaxRequest = 4
  MaxCrash = 1
SYMMETRY Symmetry
SPECIFICATION Spec
INVARIANTS NoSharedReminder RemindersAreAccounted ListedAreReminded StoreIsNotStale
