------------------------------ MODULE GameRoom ------------------------------
(***************************************************************************)
(* The life of one game room on the server, from the moment two players    *)
(* are paired until the room is forgotten: presence of the two sockets,    *)
(* the disconnect grace, the opening's idle windows, the one result, the   *)
(* series score, the rematch window and the background sweep.              *)
(*                                                                         *)
(* The server is one asyncio loop, so code between two awaits is one       *)
(* action; a coroutine suspended in a send is a value of `handler`, `late`, *)
(* `leaving` or `sweep` and its remainder is an action of its own.         *)
(*                                                                         *)
(* Every stamp of the code is kept as its age, `now - stamp`, because that *)
(* is all the code ever reads.  An age stops counting at the deadline it   *)
(* is compared with, so time is unbounded.  Off is an unset stamp.         *)
(***************************************************************************)
EXTENDS Integers, FiniteSets

CONSTANTS
    A, B,               \* the two client_uuids paired in this room
    Grace,              \* GRACE_SECONDS, also POST_GAME_DISCONNECT_GRACE
    HeartbeatTimeout,   \* HEARTBEAT_TIMEOUT_SECONDS
    PregameGrace,       \* PREGAME_CONNECT_GRACE_SECONDS
    IdleWindow,         \* seconds of every row of IDLE_WINDOW_BY_PLIES
    RematchIdle,        \* REMATCH_IDLE_SECONDS
    RematchCap,         \* REMATCH_ABSOLUTE_CAP_SECONDS
    MaxPlies,           \* bound: moves played in one game, takebacks included
    MaxGames,           \* bound: games played in the room
    MaxLate             \* bound: handlers suspended on displaced sockets

ASSUME PlayersAssumption == A # B
ASSUME TimersAssumption ==
    /\ Grace \in Nat \ {0} /\ HeartbeatTimeout \in Nat \ {0}
    /\ PregameGrace \in Nat \ {0} /\ IdleWindow \in Nat \ {0}
    /\ RematchIdle \in Nat \ {0} /\ RematchCap \in Nat \ {0}
ASSUME BoundsAssumption == MaxPlies \in Nat /\ MaxGames \in Nat \ {0}
                        /\ MaxLate \in Nat

Off == -1
Players == {A, B}
Colors == {"white", "black"}
Other(p) == IF p = A THEN B ELSE A
Opp(c) == IF c = "white" THEN "black" ELSE "white"

Reasons == {"mate", "draw", "timeout", "resignation", "abandonment", "aborted"}
NoResult == [reason |-> "none", winner |-> "none"]
Results == [reason : Reasons, winner : Colors \cup {"none"}]

VARIABLES
    inTable,          \* the room is in RoomManager._active
    white,            \* the player in the white seat
    present,          \* a socket is filed for the player
    connected,        \* PlayerSlot.connected
    disconnectedFor,  \* age of PlayerSlot.disconnected_at
    seenFor,          \* age of PlayerSlot.last_seen
    atResult,         \* PlayerSlot.at_result
    hist,             \* len(backend.move_history)
    pliesEver,        \* Room.plies_ever
    over,             \* what game_result() says of the position itself
    flagged,          \* Clock.flagged
    idleFor,          \* age of Room.idle_since
    startedFor,       \* age of Room.started_at
    result,           \* Room.result
    endedFor,         \* age of Room.ended_at
    activeFor,        \* age of Room.last_rematch_activity_at
    offered,          \* Room.rematch_offered_by
    score,            \* Room.series_scores, in half points
    games,            \* observer: games started in the room
    decided,          \* observer: games that ended with a point to share
    handler,          \* the handler suspended on the player's newest socket
    late,             \* the handler suspended on a socket displaced before it
    leaving,          \* the player's POST /matchmake awaits its farewell send
    sweep,            \* where Sweep.step_all is suspended
    shortlist         \* colours the running sweep step still has to visit

slotVars == <<present, connected, disconnectedFor, seenFor, atResult>>
boardVars == <<hist, pliesEver, over, flagged>>
endVars == <<result, endedFor, activeFor, score, decided>>
seriesVars == <<white, offered, games, startedFor>>
taskVars == <<handler, late, leaving>>
sweepVars == <<sweep, shortlist>>
vars == <<inTable, slotVars, boardVars, idleFor, endVars, seriesVars,
          taskVars, sweepVars>>

-----------------------------------------------------------------------------
Seat(c) == IF c = "white" THEN white ELSE Other(white)
ColorOf(p) == IF p = white THEN "white" ELSE "black"
ToMove == IF hist % 2 = 0 THEN "white" ELSE "black"
Live == result = NoResult

\* Mutant: the window of the second ply is forgotten.
WindowOffByOne(n) == IF n = 0 THEN "aborted"
                     ELSE IF n = 2 THEN "resignation" ELSE "none"

\* IDLE_WINDOW_BY_PLIES: what becomes of a game whose mover sits still.
WindowAt(n) == IF n \in {0, 1} THEN "aborted"
               ELSE IF n = 2 THEN "resignation" ELSE "none"

\* Positions by what game_result() says of the board: a mate or a stalemate
\* leaves no move, any other draw may be played on until it is announced.
Positions == {"no", "mate", "stalemate", "draw"}
Stuck == over \in {"mate", "stalemate"}

\* Backend.game_result: no legal move counts before a flag, a flag before any
\* other draw.
Verdict(flag) ==
    IF over = "mate" THEN [reason |-> "mate", winner |-> Opp(ToMove)]
    ELSE IF over = "stalemate" THEN [reason |-> "draw", winner |-> "none"]
    ELSE IF flag # "none" THEN [reason |-> "timeout", winner |-> Opp(flag)]
    ELSE IF over = "draw" THEN [reason |-> "draw", winner |-> "none"]
    ELSE NoResult

Older(age, limit) == IF age = Off \/ age >= limit THEN age ELSE age + 1

\* A suspended handler: what it was doing and, once the board it moved on was
\* replaced, what that board says of its game.
Doing(what) == [doing |-> what, says |-> NoResult]
Idle == Doing("idle")

\* touch_seen: only a room still in the table is touched.
Heard(p) == seenFor' = IF inTable THEN [seenFor EXCEPT ![p] = 0] ELSE seenFor

\* Mutant: a draw gives each side a whole point.
AwardDrawWhole(r) ==
    IF r.reason = "aborted" THEN score
    ELSE IF r.winner # "none" THEN [score EXCEPT ![Seat(r.winner)] = @ + 2]
    ELSE [p \in Players |-> score[p] + 2]

\* _award_series, in half points: nothing for an abort, one for the winner,
\* a half each for a draw.
Award(r) ==
    IF r.reason = "aborted" THEN score
    ELSE IF r.winner # "none" THEN [score EXCEPT ![Seat(r.winner)] = @ + 2]
    ELSE [p \in Players |-> score[p] + 1]

\* An ending by time or abandonment before any ply is recorded as an abort.
Recorded(reason, winner) ==
    IF pliesEver = 0 /\ reason \in {"timeout", "abandonment"}
    THEN [reason |-> "aborted", winner |-> "none"]
    ELSE [reason |-> reason, winner |-> winner]

\* Mutant: a later caller overwrites the result.
FinalizeAgain(reason, winner) ==
    IF inTable
    THEN LET r == Recorded(reason, winner) IN
         /\ result' = r
         /\ endedFor' = 0
         /\ activeFor' = 0
         /\ disconnectedFor' = [p \in Players |->
                IF disconnectedFor[p] = Off THEN Off ELSE 0]
         /\ idleFor' = Off
         /\ atResult' = [p \in Players |-> TRUE]
         /\ score' = Award(r)
         /\ decided' = IF r.reason = "aborted" THEN decided ELSE decided + 1
    ELSE UNCHANGED <<endVars, disconnectedFor, idleFor, atResult>>

\* RoomManager.finalize_result: the first caller writes the result, a later
\* one changes nothing.
Finalize(reason, winner) ==
    IF inTable /\ Live
    THEN LET r == Recorded(reason, winner) IN
         /\ result' = r
         /\ endedFor' = 0
         /\ activeFor' = 0
         /\ disconnectedFor' = [p \in Players |->
                IF disconnectedFor[p] = Off THEN Off ELSE 0]
         /\ idleFor' = Off
         /\ atResult' = [p \in Players |-> TRUE]
         /\ score' = Award(r)
         /\ decided' = IF r.reason = "aborted" THEN decided ELSE decided + 1
    ELSE UNCHANGED <<endVars, disconnectedFor, idleFor, atResult>>

Init ==
    /\ inTable = TRUE
    /\ white \in Players
    \* The waiting player may have connected, or connected and dropped again,
    \* while still queued; the one just paired has no socket yet.
    /\ \E q \in Players, up \in BOOLEAN, gone \in {Off} \cup 0..Grace :
         /\ up => gone = Off
         /\ present = [p \in Players |-> p = q /\ up]
         /\ connected = present
         /\ disconnectedFor = [p \in Players |-> IF p = q THEN gone ELSE Off]
    /\ seenFor = [p \in Players |-> 0]
    /\ atResult = [p \in Players |-> FALSE]
    /\ hist = 0 /\ pliesEver = 0 /\ over = "no" /\ flagged = "none"
    /\ idleFor = 0 /\ startedFor = 0
    /\ result = NoResult /\ endedFor = Off /\ activeFor = Off
    /\ offered = {}
    /\ score = [p \in Players |-> 0]
    /\ games = 1 /\ decided = 0
    /\ handler = [p \in Players |-> Idle] /\ late = handler
    /\ leaving = [p \in Players |-> FALSE]
    /\ sweep = "idle" /\ shortlist = {}

-----------------------------------------------------------------------------
(* Sockets *)

\* A displaced socket leaves no trace but a handler suspended on it, which goes
\* on by itself.  Bound: one such handler for a player.
Supersede(p) ==
    /\ handler[p] = Idle \/ /\ late[p] = Idle
                            /\ Cardinality({q \in Players : late[q] # Idle}) < MaxLate
    /\ handler' = [handler EXCEPT ![p] = Idle]
    /\ late' = [late EXCEPT ![p] = IF handler[p] = Idle THEN @ ELSE handler[p]]

\* Mutant: a reconnect forgets to clear the disconnect stamp.
ConnectKeepingStamp(p) ==
    /\ inTable
    /\ present' = [present EXCEPT ![p] = TRUE]
    /\ connected' = [connected EXCEPT ![p] = TRUE]
    /\ seenFor' = [seenFor EXCEPT ![p] = 0]
    /\ Supersede(p)
    /\ UNCHANGED <<inTable, disconnectedFor, atResult, boardVars, idleFor, endVars,
                   seriesVars, leaving, sweepVars>>

\* _ws_session up to its first await: mark_connected and connections.add.
Connect(p) ==
    /\ inTable
    /\ present' = [present EXCEPT ![p] = TRUE]
    /\ connected' = [connected EXCEPT ![p] = TRUE]
    /\ disconnectedFor' = [disconnectedFor EXCEPT ![p] = Off]
    /\ seenFor' = [seenFor EXCEPT ![p] = 0]
    /\ Supersede(p)
    /\ UNCHANGED <<inTable, atResult, boardVars, idleFor, endVars, seriesVars,
                   leaving, sweepVars>>

\* Mutant: a player already marked away is stamped anew.
MarkedAnew(p) ==
    IF inTable
    THEN /\ connected' = [connected EXCEPT ![p] = FALSE]
         /\ disconnectedFor' = [disconnectedFor EXCEPT ![p] = 0]
    ELSE UNCHANGED <<connected, disconnectedFor>>

\* mark_disconnected: an unknown room or a seat already marked is left alone.
Marked(p) ==
    IF inTable /\ connected[p]
    THEN /\ connected' = [connected EXCEPT ![p] = FALSE]
         /\ disconnectedFor' = [disconnectedFor EXCEPT ![p] = 0]
    ELSE UNCHANGED <<connected, disconnectedFor>>

\* The filed socket goes: the session's finally block, or a failed send.
Disconnect(p) ==
    /\ present[p]
    /\ present' = [present EXCEPT ![p] = FALSE]
    /\ Marked(p)
    /\ UNCHANGED <<inTable, seenFor, atResult, boardVars, idleFor, endVars,
                   seriesVars, taskVars, sweepVars>>

\* A socket is read only while its previous frame's handler has returned.
Speaks(p) == present[p] /\ handler[p] = Idle

\* The send that the suspended handler h of p awaits returns.
Returns(p, h) ==
    \/ handler[p] = h /\ handler' = [handler EXCEPT ![p] = Idle] /\ UNCHANGED late
    \/ late[p] = h /\ late' = [late EXCEPT ![p] = Idle] /\ UNCHANGED handler

\* _touch_idle_window, after any message of IDLE_ACTIVITY_TYPES.
TouchIdle(p) ==
    IF Live /\ idleFor # Off /\ WindowAt(pliesEver) = "resignation" /\ Seat(ToMove) = p
    THEN idleFor' = 0 ELSE UNCHANGED idleFor

\* A frame that only proves the player is there: a ping.
Ping(p) ==
    /\ Speaks(p)
    /\ Heard(p)
    /\ UNCHANGED <<inTable, present, connected, disconnectedFor, atResult,
                   boardVars, idleFor, endVars, seriesVars, taskVars, sweepVars>>

\* A deliberate act that leaves the game as it is: chat, marks, an offer.
Act(p) ==
    /\ Speaks(p)
    /\ Heard(p)
    /\ TouchIdle(p)
    /\ UNCHANGED <<inTable, present, connected, disconnectedFor, atResult,
                   boardVars, endVars, seriesVars, taskVars, sweepVars>>

-----------------------------------------------------------------------------
(* Playing *)

\* _apply_move up to the broadcast of move_applied.
Move(p) ==
    /\ Speaks(p)
    /\ Live /\ ~Stuck /\ Seat(ToMove) = p
    /\ pliesEver < MaxPlies
    /\ hist' = hist + 1
    /\ pliesEver' = pliesEver + 1
    /\ over' \in Positions
    /\ flagged' \in IF flagged = "none" THEN {"none", ColorOf(p)} ELSE {flagged}
    /\ idleFor' = IF WindowAt(pliesEver + 1) = "none" THEN Off ELSE 0
    /\ handler' = [handler EXCEPT ![p] = Doing("move")]
    /\ Heard(p)
    /\ UNCHANGED <<inTable, present, connected, disconnectedFor, atResult,
                   endVars, seriesVars, late, leaving, sweepVars>>

\* The broadcast returned: the game_result of the board the ply was played on
\* is read, be that board replaced by now, and the room's game is ended by it.
MoveSent(p) ==
    /\ \E h \in {handler[p], late[p]} :
         /\ h.doing \in {"move", "stale"}
         /\ Returns(p, h)
         /\ LET v == IF h.doing = "move" THEN Verdict(flagged) ELSE h.says IN
            IF v # NoResult THEN Finalize(v.reason, v.winner)
            ELSE UNCHANGED <<endVars, disconnectedFor, idleFor, atResult>>
    /\ UNCHANGED <<inTable, present, connected, seenFor, boardVars, seriesVars,
                   leaving, sweepVars>>

\* handle_takeback_response accepting the offer of the side not to move, up
\* to the broadcast of takeback_applied.
AcceptTakeback(p) ==
    /\ Speaks(p)
    /\ handler[Other(p)] = Idle
    /\ Live /\ Seat(ToMove) = p /\ hist > 0
    /\ hist' = hist - 1
    /\ over' = "no"
    /\ flagged' \in {"none", flagged}
    /\ handler' = [handler EXCEPT ![p] = Doing("takeback")]
    /\ Heard(p)
    /\ UNCHANGED <<inTable, present, connected, disconnectedFor, atResult,
                   pliesEver, idleFor, endVars, seriesVars, late, leaving, sweepVars>>

\* The broadcast returned: the window of a game still live is re-armed.
TakebackSent(p) ==
    /\ Returns(p, Doing("takeback"))
    /\ idleFor' = IF Live /\ WindowAt(pliesEver) # "none" THEN 0 ELSE idleFor
    /\ UNCHANGED <<inTable, slotVars, boardVars, endVars, seriesVars, leaving,
                   sweepVars>>

Resign(p) ==
    /\ Speaks(p)
    /\ Live
    /\ Finalize("resignation", Opp(ColorOf(p)))
    /\ Heard(p)
    /\ UNCHANGED <<inTable, present, connected, boardVars, seriesVars, taskVars,
                   sweepVars>>

\* handle_draw_response or a crossing handle_draw_offer: p agrees to the
\* opponent's standing offer.
AgreeDraw(p) ==
    /\ Speaks(p)
    /\ Live
    /\ Finalize("draw", "none")
    /\ Heard(p)
    /\ UNCHANGED <<inTable, present, connected, boardVars, seriesVars, taskVars,
                   sweepVars>>
-----------------------------------------------------------------------------
(* The result screen *)

\* A ply still being announced belongs to the board that is replaced.
Outdated(h) ==
    IF h.doing = "move" THEN [doing |-> "stale", says |-> Verdict(flagged)] ELSE h

\* reset_for_rematch: the same room, the colours swapped, a clean game.  A
\* player who is not connected starts with a fresh grace period.
Reset ==
    /\ games < MaxGames
    /\ games' = games + 1
    /\ white' = Other(white)
    /\ hist' = 0 /\ pliesEver' = 0 /\ over' = "no" /\ flagged' = "none"
    /\ idleFor' = 0 /\ startedFor' = 0
    /\ result' = NoResult /\ endedFor' = Off /\ activeFor' = Off
    /\ offered' = {}
    /\ atResult' = [p \in Players |-> FALSE]
    /\ disconnectedFor' = [p \in Players |-> IF connected[p] THEN Off ELSE 0]
    /\ handler' = [p \in Players |-> Outdated(handler[p])]
    /\ late' = [p \in Players |-> Outdated(late[p])]
    /\ UNCHANGED <<score, decided>>

\* Mutant: the rematch starts although the opponent's socket is away.
RestartAnyway(p, asked) ==
    IF inTable
    THEN Reset
    ELSE /\ offered' = IF present[Other(p)] THEN asked ELSE asked \ {ColorOf(p)}
         /\ activeFor' = 0
         /\ UNCHANGED <<white, games, startedFor, boardVars, idleFor, atResult,
                        disconnectedFor, result, endedFor, score, decided, handler, late>>

\* _restart_rematch for the player p whose click completed the pair, with
\* `asked` the offers standing: an absent opponent costs p their own offer,
\* a room already forgotten restarts nothing.
Restart(p, asked) ==
    IF present[Other(p)] /\ inTable
    THEN Reset
    ELSE /\ offered' = IF present[Other(p)] THEN asked ELSE asked \ {ColorOf(p)}
         /\ activeFor' = 0
         /\ UNCHANGED <<white, games, startedFor, boardVars, idleFor, atResult,
                        disconnectedFor, result, endedFor, score, decided, handler, late>>

RequestRematch(p) ==
    /\ Speaks(p)
    /\ ~Live /\ atResult[p] /\ ColorOf(p) \notin offered
    /\ LET asked == offered \cup {ColorOf(p)} IN
       IF asked = Colors
       THEN Restart(p, asked)
       ELSE /\ offered' = asked
            /\ activeFor' = 0
            /\ UNCHANGED <<white, games, startedFor, boardVars, idleFor, atResult,
                           disconnectedFor, result, endedFor, score, decided, handler, late>>
    /\ Heard(p)
    /\ UNCHANGED <<inTable, present, connected, leaving, sweepVars>>

AcceptRematch(p) ==
    /\ Speaks(p)
    /\ ~Live /\ offered # {} /\ ColorOf(p) \notin offered
    /\ Restart(p, offered)
    /\ Heard(p)
    /\ UNCHANGED <<inTable, present, connected, leaving, sweepVars>>

\* handle_rematch_response declining, up to its two farewell sends ...
DeclineRematch(p) ==
    /\ Speaks(p)
    /\ ~Live /\ offered # {} /\ ColorOf(p) \notin offered
    /\ handler' = [handler EXCEPT ![p] = Doing("decline")]
    /\ Heard(p)
    /\ UNCHANGED <<inTable, present, connected, disconnectedFor, atResult,
                   boardVars, idleFor, endVars, seriesVars, late, leaving, sweepVars>>

\* ... and after them: the room is dropped, whatever became of it meanwhile.
DeclineSent(p) ==
    /\ Returns(p, Doing("decline"))
    /\ offered' = {}
    /\ inTable' = FALSE
    /\ UNCHANGED <<slotVars, boardVars, idleFor, endVars, white, games, startedFor,
                   leaving, sweepVars>>

\* The player closed the result screen and is back at the menu.
LeftResult(p) ==
    /\ Speaks(p)
    /\ ~Live
    /\ atResult' = [atResult EXCEPT ![p] = FALSE]
    /\ offered' = offered \ {ColorOf(p)}
    /\ Heard(p)
    /\ UNCHANGED <<inTable, present, connected, disconnectedFor, boardVars, idleFor,
                   endVars, white, games, startedFor, taskVars, sweepVars>>

\* POST /matchmake by a seated player, up to the first farewell send: a game
\* under way is abandoned to the opponent, a finished one is walked away from.
\* A game without a first move refuses the request.
LeaveForNewGame(p) ==
    /\ inTable /\ ~leaving[p]
    /\ ~Live \/ pliesEver > 0
    /\ Finalize("abandonment", Opp(ColorOf(p)))
    /\ leaving' = [leaving EXCEPT ![p] = TRUE]
    /\ UNCHANGED <<inTable, present, connected, seenFor, boardVars, seriesVars,
                   handler, late, sweepVars>>

\* release_for_new_game after that send.
LeaveSent(p) ==
    /\ leaving[p]
    /\ leaving' = [leaving EXCEPT ![p] = FALSE]
    /\ inTable' = FALSE
    /\ UNCHANGED <<slotVars, boardVars, idleFor, endVars, seriesVars, handler,
                   late, sweepVars>>

-----------------------------------------------------------------------------
(* The background sweep, Sweep.step_all.  A pass runs its steps in a fixed   *)
(* order; each step is free to run whenever the sweep is not suspended       *)
(* inside another, which allows every pass and more.                         *)

Quiet == UNCHANGED <<endVars, disconnectedFor, idleFor, atResult>>

\* _step_idle_timeout: an abort needs no winner, a resignation is never
\* awarded to a player who is away.
StepIdle ==
    LET window == WindowAt(pliesEver) IN
    IF window # "none" /\ idleFor = IdleWindow
       /\ ~(window = "resignation" /\ disconnectedFor[Seat(Opp(ToMove))] # Off)
    THEN Finalize(window, IF window = "resignation" THEN Opp(ToMove) ELSE "none")
    ELSE Quiet

\* step_clock_and_idle_windows.  Once a first move was made, and while some ply
\* is on the board, the tick may find the mover's time spent; flag-fall is
\* settled before the idle windows are looked at.
SweepClock ==
    /\ sweep = "idle"
    /\ LET ticking == pliesEver > 0 /\ hist > 0 IN
       IF ~(inTable /\ Live) THEN Quiet /\ UNCHANGED flagged
       ELSE \E flag \in IF ticking /\ flagged = "none" THEN {"none", ToMove}
                        ELSE {flagged} :
            /\ flagged' = flag
            /\ LET v == Verdict(flag) IN
               IF ticking /\ v # NoResult THEN Finalize(v.reason, v.winner)
               ELSE StepIdle
    /\ UNCHANGED <<inTable, present, connected, seenFor, hist, pliesEver, over,
                   seriesVars, taskVars, sweepVars>>

\* heartbeat_timed_out_rooms: the list is taken whole ...
SweepHeartbeat ==
    /\ sweep = "idle"
    /\ shortlist' = IF inTable /\ Live /\ pliesEver > 0
                    THEN {c \in Colors : connected[Seat(c)]
                                         /\ seenFor[Seat(c)] = HeartbeatTimeout}
                    ELSE {}
    /\ sweep' = IF shortlist' = {} THEN "idle" ELSE "marking"
    /\ UNCHANGED <<inTable, slotVars, boardVars, idleFor, endVars, seriesVars,
                   taskVars>>

First == IF "white" \in shortlist THEN "white" ELSE "black"

\* ... and each entry is marked in turn, a send to its opponent in between.
SweepMark ==
    /\ sweep = "marking"
    /\ Marked(Seat(First))
    /\ shortlist' = shortlist \ {First}
    /\ sweep' = IF shortlist' = {} THEN "idle" ELSE "marking"
    /\ UNCHANGED <<inTable, present, seenFor, atResult, boardVars, idleFor, endVars,
                   seriesVars, taskVars>>

\* Mutant: only a player whose opponent stayed is put on the shortlist.
SweepGraceIfOpponentHere ==
    /\ sweep = "idle"
    /\ shortlist' = IF inTable /\ Live
                    THEN {c \in Colors : /\ disconnectedFor[Seat(c)] = Grace
                                         /\ disconnectedFor[Seat(Opp(c))] = Off}
                    ELSE {}
    /\ sweep' = IF shortlist' = {} THEN "idle" ELSE "ending"
    /\ UNCHANGED <<inTable, slotVars, boardVars, idleFor, endVars, seriesVars,
                   taskVars>>

\* grace_expired_rooms: a shortlist again ...
SweepGrace ==
    /\ sweep = "idle"
    /\ shortlist' = IF inTable /\ Live
                    THEN {c \in Colors : disconnectedFor[Seat(c)] = Grace}
                    ELSE {}
    /\ sweep' = IF shortlist' = {} THEN "idle" ELSE "ending"
    /\ UNCHANGED <<inTable, slotVars, boardVars, idleFor, endVars, seriesVars,
                   taskVars>>

\* Mutant: the shortlist is trusted although a player may have come back.
SweepEndUnchecked ==
    /\ sweep = "ending"
    /\ Finalize("abandonment", Opp(First))
    /\ shortlist' = shortlist \ {First}
    /\ sweep' = IF shortlist' = {} THEN "idle" ELSE "ending"
    /\ UNCHANGED <<inTable, present, connected, seenFor, boardVars, seriesVars,
                   taskVars>>

\* ... whose entries are checked again before the game is taken from them.
SweepEnd ==
    /\ sweep = "ending"
    /\ IF Live /\ disconnectedFor[Seat(First)] = Grace
       THEN Finalize("abandonment", Opp(First))
       ELSE UNCHANGED <<endVars, disconnectedFor, idleFor, atResult>>
    /\ shortlist' = shortlist \ {First}
    /\ sweep' = IF shortlist' = {} THEN "idle" ELSE "ending"
    /\ UNCHANGED <<inTable, present, connected, seenFor, boardVars, seriesVars,
                   taskVars>>

\* step_drop_orphans_pre_game: nobody came to a game that never began.
SweepOrphans ==
    /\ sweep = "idle"
    /\ inTable' = (inTable /\ ~(/\ Live /\ pliesEver = 0
                                /\ \A p \in Players : ~present[p]
                                /\ startedFor = PregameGrace))
    /\ UNCHANGED <<slotVars, boardVars, idleFor, endVars, seriesVars, taskVars,
                   sweepVars>>

\* Mutant: the absolute cap is left out.
TimedOutByIdleOnly == activeFor = RematchIdle

\* finished_timed_out
TimedOut == activeFor = RematchIdle \/ endedFor = RematchCap

\* step_post_game up to its sends.  A window nobody watches closes at once
\* when both are past the grace; one somebody watches is announced first.
SweepPostGame ==
    /\ sweep = "idle"
    /\ LET watched == \E p \in Players : present[p]
           bothLeft == \A p \in Players : present[p] /\ ~atResult[p]
           bothGone == \A p \in Players : disconnectedFor[p] \in {Off, Grace}
           closing  == inTable /\ ~Live IN
       /\ inTable' = (inTable /\ ~(closing /\ ~watched /\ bothGone))
       /\ sweep' = IF closing /\ watched /\ (TimedOut \/ bothLeft)
                   THEN "dropping" ELSE "idle"
    /\ UNCHANGED <<slotVars, boardVars, idleFor, endVars, seriesVars, taskVars,
                   shortlist>>

\* drop_room_now after the sends, whatever became of the room meanwhile.
SweepDrop ==
    /\ sweep = "dropping"
    /\ sweep' = "idle"
    /\ inTable' = FALSE
    /\ UNCHANGED <<slotVars, boardVars, idleFor, endVars, seriesVars, taskVars,
                   shortlist>>

\* gc_finished_rooms
SweepGc ==
    /\ sweep = "idle"
    /\ inTable' = (inTable /\ ~(~Live /\ TimedOut))
    /\ UNCHANGED <<slotVars, boardVars, idleFor, endVars, seriesVars, taskVars,
                   sweepVars>>

Sweep == \/ SweepClock \/ SweepHeartbeat \/ SweepMark \/ SweepGrace \/ SweepEnd
         \/ SweepOrphans \/ SweepPostGame \/ SweepDrop \/ SweepGc

\* One tick of the monotonic clock: every stamp that is set grows older.  No
\* stamp of a forgotten room is read again.
Tick ==
    /\ inTable
    /\ disconnectedFor' = [p \in Players |-> Older(disconnectedFor[p], Grace)]
    /\ seenFor' = [p \in Players |-> Older(seenFor[p], HeartbeatTimeout)]
    /\ idleFor' = Older(idleFor, IdleWindow)
    /\ startedFor' = Older(startedFor, PregameGrace)
    /\ endedFor' = Older(endedFor, RematchCap)
    /\ activeFor' = Older(activeFor, RematchIdle)
    /\ UNCHANGED <<inTable, white, present, connected, atResult, hist, pliesEver,
                   over, flagged, result, offered, score, games, decided, taskVars,
                   sweepVars>>

Handlers(p) == MoveSent(p) \/ TakebackSent(p) \/ DeclineSent(p) \/ LeaveSent(p)

Requests(p) ==
    \/ Connect(p) \/ Disconnect(p) \/ Ping(p) \/ Act(p)
    \/ Move(p) \/ AcceptTakeback(p) \/ Resign(p) \/ AgreeDraw(p)
    \/ RequestRematch(p) \/ AcceptRematch(p) \/ DeclineRematch(p)
    \/ LeftResult(p) \/ LeaveForNewGame(p)

Next == Tick \/ Sweep \/ \E p \in Players : Requests(p) \/ Handlers(p)

Spec == Init /\ [][Next]_vars

\* Time passes, the sweep's own sends return, and every pass of the sweep runs
\* each of its steps; a step waits for a suspended one, so it is only enabled
\* again and again, hence strong fairness.  Nothing obliges a player to do
\* anything, nor a send to a player to return.
Fairness == /\ WF_vars(Tick)
            /\ WF_vars(SweepMark \/ SweepEnd \/ SweepDrop)
            /\ SF_vars(SweepClock) /\ SF_vars(SweepGrace) /\ SF_vars(SweepGc)

FairSpec == Spec /\ Fairness
-----------------------------------------------------------------------------
(* Properties *)

Ages(limit) == {Off} \cup 0..limit

\* What a board can say of its game, and what a suspended handler carries.
Verdicts == {NoResult} \cup
            [reason : {"mate", "draw", "timeout"}, winner : Colors \cup {"none"}]
Handling == [doing : {"idle", "move", "takeback", "decline", "stale"},
             says : Verdicts]

\* The shape of the state: every age within the deadline it is compared with.
TypeOK ==
    /\ inTable \in BOOLEAN /\ white \in Players
    /\ present \in [Players -> BOOLEAN] /\ connected \in [Players -> BOOLEAN]
    /\ disconnectedFor \in [Players -> Ages(Grace)]
    /\ seenFor \in [Players -> 0..HeartbeatTimeout]
    /\ atResult \in [Players -> BOOLEAN]
    /\ hist \in Nat /\ pliesEver \in Nat
    /\ over \in Positions /\ flagged \in Colors \cup {"none"}
    /\ idleFor \in Ages(IdleWindow)
    /\ startedFor \in 0..PregameGrace
    /\ result \in Results \cup {NoResult}
    /\ endedFor \in Ages(RematchCap) /\ activeFor \in Ages(RematchIdle)
    /\ offered \in SUBSET Colors
    /\ score \in [Players -> Nat] /\ games \in Nat /\ decided \in Nat
    /\ handler \in [Players -> Handling] /\ late \in [Players -> Handling]
    /\ leaving \in [Players -> BOOLEAN]
    /\ sweep \in {"idle", "marking", "ending", "dropping"}
    /\ shortlist \in SUBSET Colors

\* Sockets, handlers, two HTTP requests and the sweep race to end a game, yet
\* every game shares out exactly one point and never a second one: the series
\* score is the games decided, and the game being played is not among them.
SeriesIsFair ==
    /\ score[A] + score[B] = 2 * decided
    /\ decided + (IF Live THEN 1 ELSE 0) <= games

\* A result, once written, is never rewritten by a slower ending: it stands
\* until both players are at the board of the next game.
ResultStands ==
    [][~Live => result' = result \/ (result' = NoResult /\ games' = games + 1)]_vars

\* A rematch never starts over the head of a player: both sockets are there,
\* and somebody who has not closed the result screen since offered it.
RematchByConsent ==
    [][games' # games =>
          /\ \A p \in Players : present[p]
          /\ \E c \in offered : atResult[Seat(c)]]_vars

\* The grace period is only ever running for a player the server knows is
\* away, and a player it believes connected has a socket.
PresenceAgrees ==
    \A p \in Players :
        /\ connected[p] /\ inTable => present[p]
        /\ connected[p] => disconnectedFor[p] = Off

\* Reconnect churn cannot stretch the grace: while a game goes on, the grace of a
\* player who is away runs on, whatever sockets fail or close and whoever marks
\* the player gone again, until the player is connected.
GraceRunsOn ==
    [][\A p \in Players :
          Live /\ Live' /\ disconnectedFor[p] # Off
             => connected'[p] \/ disconnectedFor'[p] >= disconnectedFor[p]]_vars

\* The sweep takes a game from a player only after a whole grace period away,
\* although it works through a list that may be stale by then.
AbandonedWasAway ==
    [][Live /\ result'.reason = "abandonment" /\ leaving' = leaving
          => disconnectedFor[Seat(Opp(result'.winner))] = Grace]_vars

\* A game in which no ply was played is aborted, resigned or agreed drawn; the
\* one way to win or lose it otherwise is a ply of the game before, announced so
\* slowly that the verdict of its board arrives after the rematch has begun.
NothingPlayedNothingWon ==
    [][Live /\ ~Live' /\ pliesEver = 0
          => \/ result'.reason \in {"aborted", "resignation", "draw"}
             \/ \E p \in Players, h \in Handling :
                   h.doing = "stale" /\ h.says = result' /\ Returns(p, h)]_vars

\* A finished room cannot linger: it is rematched or forgotten.
FinishedRoomGoes == inTable /\ ~Live ~> Live \/ ~inTable

\* A player who stays away is not waited for for ever.
AwayPlayerIsDecided ==
    \A p \in Players :
        inTable /\ Live /\ disconnectedFor[p] # Off
            ~> ~inTable \/ ~Live \/ connected[p]

\* An opening cannot be left hanging: until both sides have moved once, a game
\* nobody moves in ends by itself.
OpeningGoesOn == inTable /\ Live /\ pliesEver < 2 ~> ~inTable \/ ~Live \/ pliesEver >= 2

\* What the sources say and the code does not keep.

\* step_clock_and_idle_windows: a board taken all the way back is never charged
\* because the abort window governs it, so no game can be left hanging.  Once
\* three plies have been played no window arms again, and nothing ends it.
UnderWayGameEnds == inTable /\ Live /\ pliesEver >= 3 ~> ~inTable \/ ~Live

\* A mover's time does run out when the sweep keeps charging a clock.
ClockedSpec == FairSpec /\ SF_vars(SweepClock /\ flagged' # flagged)

\* step_post_game and drop_room_now: apart from a player leaving for another
\* game, a room is dropped when it has nothing left to wait for, so never with
\* a game under way that a player is sitting at.
LiveRoomKept ==
    [][inTable /\ Live /\ ~inTable' /\ leaving' = leaving
          => \A p \in Players : ~present[p]]_vars

\* touch_seen keeps the heartbeat timeout from costing a player the game as
\* long as they are talking over a live socket.
TalkingPlayerKept ==
    [][Live /\ result'.reason = "abandonment" /\ leaving' = leaving
          => LET gone == Seat(Opp(result'.winner)) IN
             ~(present[gone] /\ seenFor[gone] < HeartbeatTimeout)]_vars
=============================================================================
