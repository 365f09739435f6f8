CONSTANTS
    Positions <- MCPositions
    MaxPlies = 3
SPECIFICATION Spec
INVARIANTS
    RightsFitBoard
    KingsSafe
    UndoIsExact
    MemoIsFresh
    SanResolves
