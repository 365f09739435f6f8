---------------------------- MODULE MCGameRoom ----------------------------
(* GameRoom for TLC: two players, deadlines of one or two ticks. *)
EXTENDS GameRoom, TLC

\* The two players are interchangeable.
Interchangeable == Permutations(Players)

ResignedByWhite == [reason |-> "resignation", winner |-> "black"]

\* No handler is left behind on a displaced socket.
NoneLate == \A p \in Players : late[p] = Idle

\* Follow a game up to its result, and one that white resigns before a ply until its
\* room is forgotten: how a finished room goes on does not depend on how it was finished.
\* A handler left on a displaced socket is followed in the opening's first two plies.
UntilForgotten ==
    /\ inTable
    /\ Live \/ (pliesEver = 0 /\ result = ResignedByWhite)
    /\ pliesEver >= 2 => NoneLate

\* What is followed of a handler left on a displaced socket: a first ply announced
\* slowly, while nothing else is suspended and both players are connected.
SlowFirstPly ==
    /\ pliesEver <= 1 /\ sweep = "idle"
    /\ \A p \in Players : /\ connected[p] /\ handler[p] = Idle /\ ~leaving[p]
                          /\ late[p].doing \in {"idle", "move", "stale"}

\* The shorter a game the further it is followed: one of two plies or more up to its
\* result, one of a single ply until the room is forgotten or a rematch is offered,
\* one without a ply on through its rematch, and so is one whose ply is announced late.
GamesFollowed ==
    /\ inTable
    /\ pliesEver >= 2 => Live
    /\ pliesEver >= 1 => offered = {} \/ \E p \in Players : late[p].doing = "move"
    /\ games > 1 => pliesEver = 0
    /\ NoneLate \/ SlowFirstPly
=============================================================================
