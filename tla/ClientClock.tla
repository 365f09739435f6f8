----------------------------- MODULE ClientClock -----------------------------
(***************************************************************************)
(* A client's copy of the server's clock.  Both sides run the same clock   *)
(* code; the client's counts down on its own and is set by every frame     *)
(* that carries the server's: a ply, a takeback, a gift, the snapshot of a *)
(* rebuild.                                                                *)
(*                                                                         *)
(* Frames keep their order and take what time they take.  A rebuild is one *)
(* step: which frames it holds back and replays is in Sync.  What a client *)
(* does after the result is left out.                                      *)
(***************************************************************************)
EXTENDS ChessClock

CONSTANTS
    Me,         \* the client's color
    MaxFrames   \* bound: frames on their way, each direction

ASSUME ClientClockAssumption == Me \in Colors /\ MaxFrames \in Nat

VARIABLES
    mine,       \* the client's clock
    plies,      \* the length of the client's history
    rebuilding, \* the client has asked for the state
    up,         \* frames on their way to the server
    wire        \* frames on their way to the client

serverVars == <<now, clock, snapshots, over, thought>>
clientVars == <<mine, plies, rebuilding, up, wire>>
mirrorVars == <<serverVars, clientVars>>

Frames == [kind : {"move", "back", "gift", "rejected"}, ply : Nat, mates : BOOLEAN,
           remaining : [Colors -> Nat], running_for : Colors \cup {Nobody}]
Orders == [kind : {"move"}, mates : BOOLEAN] \cup [kind : {"gift"}, seconds : Gifts]

-----------------------------------------------------------------------------
(* The server's frames *)

\* clock_snapshot, of the clock as the change has left it.
Frame(kind, mates) ==
    [kind |-> kind, ply |-> Len(snapshots'), mates |-> mates,
     remaining |-> clock'.remaining, running_for |-> clock'.running_for]

Tells(kind, mates) == wire' = Append(wire, Frame(kind, mates))

OpponentMoves(mates) ==
    /\ ToMove # Me /\ Len(wire) < MaxFrames
    /\ Move(mates) /\ Tells("move", mates)
    /\ UNCHANGED <<mine, plies, rebuilding, up>>

TakesBack ==
    /\ Len(wire) < MaxFrames
    /\ Takeback /\ Tells("back", FALSE)
    /\ UNCHANGED <<mine, plies, rebuilding, up>>

OpponentGives(seconds) ==
    /\ Len(wire) < MaxFrames
    /\ GiveTime(Opponent(Me), seconds) /\ Tells("gift", FALSE)
    /\ UNCHANGED <<mine, plies, rebuilding, up>>

\* handle_move refuses what is out of turn or, with a flag down, illegal.
TakeMove(mates) ==
    \/ ToMove = Me /\ Move(mates) /\ Tells("move", mates)
    \/ /\ ~over /\ (ToMove # Me \/ clock.flagged # Nobody)
       /\ UNCHANGED serverVars /\ Tells("rejected", FALSE)

\* The server takes the next frame of the client's.
Receive ==
    /\ up # <<>> /\ Len(wire) < MaxFrames
    /\ up' = Tail(up)
    /\ \/ Head(up).kind = "move" /\ TakeMove(Head(up).mates)
       \/ Head(up).kind = "gift" /\ GiveTime(Me, Head(up).seconds) /\ Tells("gift", FALSE)
    /\ UNCHANGED <<mine, plies, rebuilding>>

\* What changes the server's clock without a word to the client.
Silently == (TimePasses \/ Sweep \/ End) /\ UNCHANGED clientVars

-----------------------------------------------------------------------------
(* The client's clock *)

\* Mutant of RestoreFromServer: the countdown goes on from the old anchor.
RestoreKeepingAnchor(k, f) ==
    [k EXCEPT !.remaining = f.remaining, !.running_for = f.running_for,
              !.last_tick_at = IF f.running_for = Nobody THEN Never
                               ELSE IF @ = Never THEN now ELSE @]

\* The server's times, counted down from now; a flag the client has seen fall stays down.
RestoreFromServer(k, f) ==
    [k EXCEPT !.remaining = f.remaining, !.running_for = f.running_for,
              !.last_tick_at = IF f.running_for = Nobody THEN Never ELSE now]

\* The auxiliary seconds credited are the server's, and not counted here.
Uncounted(k) == [k EXCEPT !.credited = Zero]

\* A ply that lands on the client's board settles the client's clock.
Settled(k, mover, mates) == IF mates THEN Stop(k) ELSE Uncounted(OnMoveMade(k, mover))

Given(k, c, seconds) == Uncounted(AddTime(k, c, seconds))

Rebuild == rebuilding' = TRUE /\ UNCHANGED <<mine, plies>>

\* _apply_remote_move_payload: an own ply that comes back only sets the clock; the
\* opponent's sets it and lands, unless the client has seen a flag fall.  A ply of the
\* number of the client's last may be another one than that, and is a gap then.
OnMove(f) ==
    LET set == RestoreFromServer(mine, f)
    IN  \/ f.ply = plies /\ mine' = set /\ UNCHANGED <<plies, rebuilding>>
        \/ /\ f.ply = plies + 1 /\ mine.flagged = Nobody
           /\ mine' = Settled(set, MoverAt(plies), f.mates)
           /\ plies' = f.ply /\ UNCHANGED rebuilding
        \/ f.ply = plies + 1 /\ mine.flagged # Nobody /\ mine' = set
           /\ rebuilding' = TRUE /\ UNCHANGED plies
        \/ f.ply # plies + 1 /\ Rebuild

\* on_takeback: the client's own undo puts a clock without a flag back, then it is set.
\* A ply replayed in a rebuild has no clock to put back, and a flag stays down.
OnTakeback(f) ==
    \/ /\ f.ply = plies - 1
       /\ \E flag \in {Nobody, mine.flagged} :
            mine' = RestoreFromServer([mine EXCEPT !.flagged = flag], f)
       /\ plies' = f.ply /\ UNCHANGED rebuilding
    \/ f.ply # plies - 1 /\ Rebuild

OnGiveTime(f) == mine' = RestoreFromServer(mine, f) /\ UNCHANGED <<plies, rebuilding>>

Deliver ==
    /\ ~over /\ ~rebuilding /\ wire # <<>>
    /\ wire' = Tail(wire)
    /\ \/ Head(wire).kind = "move" /\ OnMove(Head(wire))
       \/ Head(wire).kind = "back" /\ OnTakeback(Head(wire))
       \/ Head(wire).kind = "gift" /\ OnGiveTime(Head(wire))
       \/ Head(wire).kind = "rejected" /\ Rebuild
    /\ UNCHANGED <<serverVars, up>>

Fresh == [remaining |-> [c \in Colors |-> Initial], running_for |-> "white",
          last_tick_at |-> now, flagged |-> Nobody, credited |-> Zero]

\* post_resume charges the clock, and the client starts a new one from what it sends.
\* What the client had sent is refused or has landed by then.
Rebuilt ==
    /\ ~over /\ rebuilding /\ up = <<>>
    /\ Resume
    /\ mine' = RestoreFromServer(Fresh, Frame("resumed", FALSE))
    /\ plies' = Len(snapshots)
    /\ rebuilding' = FALSE /\ wire' = <<>>
    /\ UNCHANGED up

\* The clock runs down with every frame drawn.
ClientTicks ==
    /\ ~over
    /\ mine.flagged = Nobody /\ mine' = Tick(mine)
    /\ UNCHANGED <<serverVars, plies, rebuilding, up, wire>>

\* A ply of the player's is on the board, and on the clock, before the server has it.
MyMove(mates) ==
    /\ ~over /\ ~rebuilding /\ mine.flagged = Nobody
    /\ MoverAt(plies) = Me /\ plies < MaxPlies /\ Len(up) < MaxFrames
    /\ mine' = Settled(mine, Me, mates)
    /\ plies' = plies + 1
    /\ up' = Append(up, [kind |-> "move", mates |-> mates])
    /\ UNCHANGED <<serverVars, rebuilding, wire>>

\* A gift is on the giver's own clocks while the button is held; a hold called off stays
\* there and is not reported.
MyGift(seconds) ==
    /\ ~over /\ ~rebuilding /\ mine.flagged = Nobody
    /\ Len(up) < MaxFrames
    /\ mine' = Given(mine, Opponent(Me), seconds)
    /\ up' \in {up, Append(up, [kind |-> "gift", seconds |-> seconds])}
    /\ UNCHANGED <<serverVars, plies, rebuilding, wire>>

-----------------------------------------------------------------------------

MirrorInit ==
    /\ Init
    /\ mine = clock /\ plies = 0 /\ rebuilding = FALSE
    /\ up = <<>> /\ wire = <<>>

MirrorNext ==
    \/ \E mates \in BOOLEAN : OpponentMoves(mates) \/ MyMove(mates)
    \/ TakesBack \/ Receive \/ Silently
    \/ \E seconds \in Gifts : OpponentGives(seconds) \/ MyGift(seconds)
    \/ Deliver \/ Rebuilt \/ ClientTicks

MirrorSpec == MirrorInit /\ [][MirrorNext]_mirrorVars

-----------------------------------------------------------------------------
(* Properties *)

\* The client has heard everything, and nothing it has done is still on its way.
Quiet == up = <<>> /\ wire = <<>> /\ ~rebuilding

Live == ~over /\ clock.flagged = Nobody

\* What a side has left, counted down to now.
Left(k, c) == k.remaining[c] - (IF k.running_for = c THEN now - k.last_tick_at ELSE 0)

\* Clock.restore_from_server: the seconds a frame was in flight are charged to nobody twice.
\* The client counts down for the same side as the server, and never shows less than there is.
ShowsNoLess ==
    Quiet /\ Live /\ mine.flagged = Nobody =>
        /\ mine.running_for = clock.running_for
        /\ \A c \in Colors : Left(mine, c) >= Left(clock, c)

\* game.py _apply_clock_snap: only the server decides the remaining time of an online game.
\* The side whose clock stands still has what the server says.
StandingClockIsServers ==
    Quiet /\ Live /\ mine.flagged = Nobody =>
        \A c \in Colors \ {clock.running_for} : mine.remaining[c] = clock.remaining[c]

\* Clock.restore_from_server calls the server's clock the last word: a client that has heard
\* everything of a game under way has no flag down.
NoFlagButServers == Quiet /\ Live => mine.flagged = Nobody
=============================================================================
