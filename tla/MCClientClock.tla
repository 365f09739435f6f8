--------------------------- MODULE MCClientClock ---------------------------
(* ClientClock for TLC: three units a side, one of increment, gifts of one or two. *)
EXTENDS ClientClock

MCGifts == {1, 2}
NoGifts == {}
=============================================================================
