\* Two users of one device: two authentications in any overlap, one confirmed tap,
\* one change on another device, rejected listener or refused token, one relaunch.
SPECIFICATION Spec
CONSTANTS
  User = {u1, u2}
  Nobody = Nobody
  Shared = 1
  MaxAuth = 2
  MaxEdit = 1
  MaxCloud = 1
  MaxCrash = 1
SYMMETRY Symmetry
INVARIANTS ListIsTheUsers StoreIsOneUsers
PROPERTIES TasksGoToTheirAuthor OnlyUnfilledListsMoveDocuments
