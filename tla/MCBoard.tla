------------------------------- MODULE MCBoard -------------------------------
(***************************************************************************)
(* Board for TLC: positions in which the next few plies castle to either   *)
(* side, lose the castling rook where it stands, take in passing with and  *)
(* without a pin, promote onto a corner, mate, run into the fifty-move     *)
(* rule, and put three knights, one pinned, before one square.             *)
(***************************************************************************)
EXTENDS Board, TLC

LOCAL W(type) == [type |-> type, color |-> White]
LOCAL B(type) == [type |-> type, color |-> Black]

LOCAL Castle ==
    [board |-> <<7, 4>> :> W("king") @@ <<7, 7>> :> W("rook")
               @@ <<0, 4>> :> B("king") @@ <<0, 0>> :> B("rook") @@ <<6, 5>> :> B("knight"),
     turn |-> White, rights |-> {"WK", "BQ"}, ep |-> None, half |-> 0]

LOCAL Passing ==
    [board |-> <<3, 0>> :> W("king") @@ <<3, 1>> :> W("pawn")
               @@ <<1, 6>> :> B("king") @@ <<1, 2>> :> B("pawn") @@ <<3, 7>> :> B("rook"),
     turn |-> Black, rights |-> {}, ep |-> None, half |-> 0]

LOCAL Taking ==
    [board |-> <<4, 0>> :> W("king") @@ <<3, 1>> :> W("pawn")
               @@ <<1, 6>> :> B("king") @@ <<1, 2>> :> B("pawn"),
     turn |-> Black, rights |-> {}, ep |-> None, half |-> 0]

LOCAL Promoting ==
    [board |-> <<2, 4>> :> W("king") @@ <<7, 7>> :> W("rook") @@ <<1, 1>> :> W("pawn")
               @@ <<0, 4>> :> B("king") @@ <<0, 0>> :> B("rook"),
     turn |-> White, rights |-> {"BQ"}, ep |-> None, half |-> 98]

LOCAL Knights ==
    [board |-> <<5, 7>> :> W("king") @@ <<7, 1>> :> W("knight") @@ <<5, 1>> :> W("knight")
               @@ <<7, 5>> :> W("knight") @@ <<0, 7>> :> B("king") @@ <<5, 0>> :> B("rook"),
     turn |-> White, rights |-> {}, ep |-> None, half |-> 98]

MCPositions == {Castle, Passing, Taking, Promoting, Knights}
=============================================================================
