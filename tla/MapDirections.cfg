SPECIFICATION Spec
CONSTANT MaxAsked = 4
CHECK_DEADLOCK FALSE
INVARIANT LatestRouteFits
