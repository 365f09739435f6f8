------------------------------- MODULE Turns -------------------------------
(***************************************************************************)
(* What a room promises about the moves of one game, whatever goes on in   *)
(* its handlers: the sides take turns, a move is one the position allows,  *)
(* a move missed in a skill check is not played before a ply has landed or *)
(* gone, a miss leaves another move, and only the whole last ply goes.     *)
(***************************************************************************)
EXTENDS Integers, Sequences

CONSTANTS
    Moves,      \* (from, to) pairs
    Legal,      \* for each number of plies, the moves of the side to move
    MaxPlies    \* bound: plies on the board

VARIABLES
    hist,       \* the moves on the board
    missed,     \* the moves missed at the present turn
    over        \* the game has its result

vars == <<hist, missed, over>>

Opposite(c) == IF c = "white" THEN "black" ELSE "white"
MoverAt(n) == IF n % 2 = 0 THEN "white" ELSE "black"

\* The moves of the side to move.  What is legal depends on the number of plies only,
\* but for the move the side has just made: its piece has left the first square.
Available(h) ==
    Legal[Len(h)] \ (IF Len(h) >= 2 THEN {h[Len(h) - 1]} ELSE {})

Init == hist = <<>> /\ missed = {} /\ over = FALSE

Play ==
    /\ ~over
    /\ \E mv \in Available(hist) \ missed : hist' = Append(hist, mv)
    /\ missed' = {}
    /\ UNCHANGED over

\* A skill check is lost: the move goes, another one is left.
Miss ==
    /\ ~over
    /\ \E mv, other \in Available(hist) \ missed :
          mv # other /\ missed' = missed \cup {mv}
    /\ UNCHANGED <<hist, over>>

Undo ==
    /\ ~over /\ hist # <<>>
    /\ hist' = SubSeq(hist, 1, Len(hist) - 1)
    /\ missed' = {}
    /\ UNCHANGED over

End ==
    /\ ~over /\ over' = TRUE
    /\ UNCHANGED <<hist, missed>>

Next == Play \/ Miss \/ Undo \/ End
Spec == Init /\ [][Next]_vars
=============================================================================
