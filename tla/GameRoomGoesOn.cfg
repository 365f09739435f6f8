\* What must happen to a game under way and to a finished room: every violating behaviour stays inside.
CONSTANTS
    A = alice
    B = bob
    Grace = 1
    HeartbeatTimeout = 1
    PregameGrace = 1
    IdleWindow = 1
    RematchIdle = 2
    RematchCap = 2
    MaxPlies = 2
    MaxGames = 1
    MaxLate = 1
SPECIFICATION FairSpec
CONSTRAINT UntilForgotten
PROPERTIES AwayPlayerIsDecided OpeningGoesOn FinishedRoomGoes
