--------------------------- MODULE MCMatchmaking ---------------------------
(* Matchmaking for TLC. *)
EXTENDS Matchmaking, TLC

\* No player, request, room or time control is named in Matchmaking.
Interchangeable ==
    Permutations(Players) \cup Permutations(Requests) \cup Permutations(Rooms)
        \cup Permutations(TimeControls)
=============================================================================
