CONSTANTS
    Initial = 3
    Increment = 1
    Gifts <- MCGifts
    MaxPlies = 2
    MaxTime = 4
    Me = "white"
    MaxFrames = 2
SPECIFICATION MirrorSpec
CHECK_DEADLOCK FALSE
INVARIANTS SecondsAddUp RunsForMover NobodyGrowsRich 
