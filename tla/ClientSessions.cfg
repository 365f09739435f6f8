CONSTANTS
    MaxSessions = 2
    MaxTokens = 3
    MaxDrops = 1
SPECIFICATION FairSpec
INVARIANTS
    SeatHasOneSession
    FlagsFollowServer
PROPERTIES
    TakesOverNothing
    LeavingEnds
CHECK_DEADLOCK FALSE
