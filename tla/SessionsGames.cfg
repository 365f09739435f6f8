\* Three sockets in all, a game and its rematch.
CONSTANTS
    A = alice
    B = bob
    Tasks = {t1, t2}
    MaxSockets = 3
    MaxGames = 2
SPECIFICATION Spec
SYMMETRY Interchangeable
CONSTRAINT PlainRematch
INVARIANTS NewestIsFiled ConnectedHasSocket ToldIsHeard PairHearsOfStart
