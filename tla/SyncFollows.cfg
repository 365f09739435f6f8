CONSTANTS
    Marks = {"a", "b"}
    Mine = 1
    Openings <- MCOpenings
    Window = 2
    MaxPlies = 2
    MaxChanges = 3
    MaxDrops = 1
    MaxFetches = 1
SPECIFICATION FairSpec
CHECK_DEADLOCK FALSE
INVARIANTS TypeOK NothingMissed
PROPERTIES OrdersAreEarned CatchesUp
