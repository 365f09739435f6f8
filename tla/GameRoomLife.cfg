\* A game up to its result; an opening, through its rematch, until it is forgotten.
CONSTANTS
    A = alice
    B = bob
    Grace = 2
    HeartbeatTimeout = 1
    PregameGrace = 1
    IdleWindow = 1
    RematchIdle = 1
    RematchCap = 1
    MaxPlies = 3
    MaxGames = 2
    MaxLate = 1
SPECIFICATION Spec
SYMMETRY Interchangeable
CONSTRAINT GamesFollowed
INVARIANTS PresenceAgrees SeriesIsFair
PROPERTIES GraceRunsOn AbandonedWasAway ResultStands RematchByConsent
