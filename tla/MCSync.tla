------------------------------- MODULE MCSync -------------------------------
(* Sync for TLC: two kinds of move, a game one ply under way. *)
EXTENDS Sync

MCOpenings == {<<"a">>}
=============================================================================
