\* A window closing on a game that has just begun.
CONSTANTS
    A = alice
    B = bob
    Grace = 1
    HeartbeatTimeout = 1
    PregameGrace = 1
    IdleWindow = 1
    RematchIdle = 1
    RematchCap = 1
    MaxPlies = 0
    MaxGames = 2
    MaxLate = 1
SPECIFICATION Spec
PROPERTY LiveRoomKept
