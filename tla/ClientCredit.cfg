\* The opponent's ply credits its increment twice on the client.
CONSTANTS
    Initial = 3
    Increment = 1
    Gifts <- NoGifts
    MaxPlies = 2
    MaxTime = 4
    Me = "white"
    MaxFrames = 2
SPECIFICATION MirrorSpec
CHECK_DEADLOCK FALSE
INVARIANT StandingClockIsServers
