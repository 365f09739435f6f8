\* Three players on three time controls, room for two, one request suspended at a time.
CONSTANTS
    Players = {alice, bob, carol}
    TimeControls = {blitz, rapid, classical}
    Requests = {q1}
    Rooms = {r1, r2, r3}
    MaxRooms = 2
SPECIFICATION FairSpec
INVARIANTS IndexAgrees NobodyWaitsPast
PROPERTIES PlaceForPlace WaitEnds
