SPECIFICATION Spec
INVARIANTS SearchEnds OpenBoardIsUndecided CheckIsRight
