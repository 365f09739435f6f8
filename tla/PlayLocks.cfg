CONSTANTS
    a = a
    b = b
    c = c
    d = d
    e = e
    f = f
    g = g
    Moves <- MCMoves
    Legal <- MCLegal
    Trying <- MCTrying
    MaxPlies = 4
SPECIFICATION Spec
CHECK_DEADLOCK FALSE
INVARIANT LocksOfThisTurn
