------------------------------- MODULE MCPlay -------------------------------
(* Play for TLC: four plies, two captures to miss on the first. *)
EXTENDS Play, TLC

CONSTANTS a, b, c, d, e, f, g

MCMoves == {a, b, c, d, e, f, g}
MCLegal == 0 :> {a, b, c} @@ 1 :> {d, e} @@ 2 :> {a, f} @@ 3 :> {d, g} @@ 4 :> {}
MCTrying == {a, b, d}
=============================================================================
